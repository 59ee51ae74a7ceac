--------------------------- MODULE PluginHostProofs ---------------------------
(***************************************************************************)
(* Proofs about PluginHost, for any calls, processes, plugins and packages. *)
(***************************************************************************)
EXTENDS PluginHost, TLAPS

USE DEF Running, Ended

\* The labels of install and of remove, from where each is what it says.
OfInstall == {"fetching", "extracting", "moving", "receipting"}
OfChange == {"clearing", "erasing", "reading", "truncating", "filling", "renaming"}
PastGates == OfChange \cup {"moving", "receipting"}

LEMMA MapFacts ==
  /\ Nothing \in Maps /\ Listed(Nothing) = {}
  /\ \A m \in Maps, i \in Ids :
       /\ m[i] \in Entry \cup {NoEntry}
       /\ m[i].version \in Versions \cup {"none"}
       /\ m[i] # NoEntry => m[i].version \in Versions
  /\ \A m \in Maps : Listed(m) \subseteq Ids
  /\ \A m \in Maps : Whole(m) \in Contents /\ Whole(m).map = m /\ Whole(m).state = "whole"
  /\ Cut \in Contents /\ Cut.map = Nothing /\ Cut.state = "cut"
  /\ Garbled \in Contents /\ Garbled.map = Nothing /\ Garbled.state = "garbled"
  /\ \A f \in Contents : f.map \in Maps
BY DEF Nothing, Maps, Listed, Entry, NoEntry, Contents, Cut, Garbled, Whole

LEMMA TarballFacts ==
  /\ \A t \in Tarballs : /\ t.name \in Ids /\ t.version \in Versions
                         /\ t.hash \in Hashes
                         /\ <<Slug[t.name], t.version>> \in Dirs
                         /\ Recorded(t) \in Entry
                         /\ t # NoPackage /\ t # Broken /\ t.name # "none"
  /\ NoPackage.name = "none" /\ Broken.name = "none"
  /\ \A i \in Ids, v \in Versions : <<Slug[i], v>> \in Dirs
<1>1. \A t \in Tarballs : t.name \in Ids /\ t.version \in Versions /\ t.name # "none"
  BY TarballsAssumption, NoneAssumption
<1>2. NoPackage.name = "none" /\ Broken.name = "none"
  BY DEF NoPackage, Broken, Bare
<1>3. \A i \in Ids, v \in Versions : <<Slug[i], v>> \in Dirs
  BY DEF Dirs
<1>4. \A t \in Tarballs : t.hash \in Hashes
  BY DEF Hashes
<1> QED BY <1>1, <1>2, <1>3, <1>4 DEF Recorded, Entry

LEMMA JobFacts ==
  /\ \A j \in Jobs : /\ j.op \in {"install", "remove", "reload", "verify"}
                     /\ j.op # "reload" => j.id \in Ids
  /\ \A i \in Ids : /\ Plain("install", i) \in Jobs
                    /\ Plain("install", i).op = "install" /\ Plain("install", i).id = i
  /\ NoJob.op = "none"
BY DEF Jobs, InstallJobs, Plain, Request, NoJob

LEMMA BlankFacts ==
  /\ Blank \in Frames
  /\ \A j \in Jobs : /\ [Blank EXCEPT !.job = j] \in Frames
                     /\ [Blank EXCEPT !.job = j].job = j
BY MapFacts DEF Blank, Frames

\* What each label of a call says of its local variables.
Stage(label, f) ==
  /\ label \in Running => f.job \in Jobs
  /\ label \in OfInstall => f.job.op = "install"
  /\ label \in OfChange => f.job.op \in {"install", "remove"}
  /\ label \in PastGates \cup {"extracting"} /\ f.job.op = "install" => f.fetched \in Tarballs
  /\ label \in {"clearing", "erasing"} /\ f.job.op = "remove" => f.match \in Versions
  /\ label = "checking" => f.job.op = "verify" /\ f.match \in Versions
  /\ label = "looking" => f.job.op \in {"remove", "verify", "reload"}
  /\ label = "loading" => f.todo \subseteq Listed(f.mem)
  /\ label = "filling" => f.handle \in Files
StageInv == \A c \in Calls : Stage(pc[c], frame[c])
TypeInv == TypeOK /\ StageInv

\* The part of the type invariant a call's move touches.
Moving ==
  /\ pc' \in [Calls -> {"idle"} \cup Running \cup Ended]
  /\ frame' \in [Calls -> Frames]
  /\ overlapped' \subseteq Calls
  /\ crowded' \in BOOLEAN
  /\ trusted' \in [Ids -> Trusts]
  /\ StageInv'
\* One call moves to a label, with local variables; the others stay.
Moved(c, label, f) ==
  \A d \in Calls : /\ pc'[d] = IF d = c THEN label ELSE pc[d]
                   /\ frame'[d] = IF d = c THEN f ELSE frame[d]

LEMMA EndedStage == \A how \in Ended : Stage(how, Blank)
BY DEF Stage, OfInstall, OfChange, PastGates

LEMMA ProceedType ==
  ASSUME TypeInv, NEW c \in Calls, NEW label \in Running, NEW f \in Frames,
         Stage(label, f), Proceed(c, label, f)
  PROVE  Moving /\ Moved(c, label, f)
<1>1. /\ pc' \in [Calls -> {"idle"} \cup Running \cup Ended]
      /\ frame' \in [Calls -> Frames] /\ Moved(c, label, f)
  BY DEF Proceed, Moved, TypeInv, TypeOK
<1>2. StageInv'
  BY <1>1 DEF Moved, StageInv, TypeInv
<1> QED BY <1>1, <1>2 DEF Proceed, Moving, TypeInv, TypeOK

LEMMA EndType ==
  ASSUME TypeInv, NEW c \in Calls, NEW how \in Ended, End(c, how),
         trusted' \in [Ids -> Trusts]
  PROVE  Moving /\ Moved(c, how, Blank)
<1>1. /\ pc' \in [Calls -> {"idle"} \cup Running \cup Ended]
      /\ frame' \in [Calls -> Frames] /\ Moved(c, how, Blank)
  BY BlankFacts DEF End, Moved, TypeInv, TypeOK
<1>2. StageInv'
  BY <1>1, EndedStage DEF Moved, StageInv, TypeInv
<1> QED BY <1>1, <1>2 DEF End, Moving, TypeInv, TypeOK

LEMMA SettleType ==
  ASSUME TypeInv, NEW c \in Calls, NEW how \in Ended, Settle(c, how)
  PROVE  Moving /\ Moved(c, how, Blank)
BY EndType DEF Settle, TypeInv, TypeOK

LEMMA CompleteType ==
  ASSUME TypeInv, NEW c \in Calls, NEW what, Complete(c, what),
         what \in Tarballs \cup {Removed(v) : v \in Versions \cup {"none"}}
  PROVE  Moving /\ Moved(c, "answered", Blank)
<1>1. Unknown \in Trusts /\ Trust(what, Home[c]) \in Trusts
  BY HomeAssumption DEF Unknown, Trust, Trusts, Removals
<1>2. trusted' \in [Ids -> Trusts]
  BY <1>1 DEF Complete, TypeInv, TypeOK
<1> QED BY <1>2, EndType DEF Complete

LEMMA InitType == Init => TypeInv
<1> SUFFICES ASSUME Init PROVE TypeInv
  OBVIOUS
<1>1. \A i \in Ids : (\E t \in Installed : t.name = i) =>
        /\ (CHOOSE t \in Installed : t.name = i) \in Tarballs
        /\ (CHOOSE t \in Installed : t.name = i).name = i
  BY InstalledAssumption
<1>2. InitialEntries \in Maps
  BY <1>1, TarballFacts DEF InitialEntries, Maps
<1>3. content \in [Files -> Contents]
  BY <1>2, MapFacts DEF Init
<1>4. dirs \in [Dirs -> Tarballs \cup {NoPackage, Broken}]
  <2>1. \A d \in Dirs : (\E t \in Installed : d = <<Slug[t.name], t.version>>) =>
          (CHOOSE t \in Installed : d = <<Slug[t.name], t.version>>) \in Tarballs
    BY InstalledAssumption
  <2> QED BY <2>1 DEF Init
<1>5. trusted \in [Ids -> Trusts]
  <2>1. \A i \in Ids :
          Trust(IF \E t \in Installed : t.name = i
                THEN CHOOSE t \in Installed : t.name = i ELSE Removed("none"), "none")
          \in Trusts
    BY <1>1 DEF Trust, Trusts, Removals
  <2> QED BY <2>1 DEF Init
<1>6. StageInv
  BY DEF Init, StageInv, Stage, OfInstall, OfChange, PastGates
<1> QED
  BY <1>3, <1>4, <1>5, <1>6, BlankFacts, InstalledAssumption
  DEF Init, TypeInv, TypeOK, Files

LEMMA DirFacts ==
  ASSUME TypeInv, NEW c \in Calls,
         pc[c] \in {"clearing", "erasing", "moving", "receipting"}
  PROVE  Dir(c) \in Dirs
<1>1. Stage(pc[c], frame[c])
  BY DEF TypeInv, StageInv
<1>2. CASE Job(c).op = "install"
  BY <1>1, <1>2, TarballFacts DEF Stage, Dir, Job, Fetched, OfChange, PastGates
<1>3. CASE Job(c).op # "install"
  <2>1. Job(c).op = "remove" /\ Job(c).id \in Ids /\ Match(c) \in Versions
    BY <1>1, <1>3, JobFacts DEF Stage, Job, Match, OfInstall, OfChange
  <2> QED BY <1>3, <2>1, TarballFacts DEF Dir
<1> QED BY <1>2, <1>3

LEMMA ReadingsFacts ==
  ASSUME TypeInv, NEW m \in Readings
  PROVE  m \in Maps /\ (m = Nothing \/ (store # "none" /\ m = content[store].map))
BY MapFacts DEF Readings, TypeInv, TypeOK

LEMMA BeginType ==
  ASSUME TypeInv, NEW c \in Calls, NEW op, NEW label, Begin(c, op, label),
         \/ op = "install" /\ label = "fetching"
         \/ op \in {"remove", "reload", "verify"} /\ label = "looking"
  PROVE  TypeInv'
<1>1. PICK j \in Jobs : /\ j.op = op
                        /\ frame' = [frame EXCEPT ![c] = [Blank EXCEPT !.job = j]]
  BY DEF Begin
<1>2. [Blank EXCEPT !.job = j] \in Frames /\ [Blank EXCEPT !.job = j].job = j
  BY BlankFacts
<1>3. Stage(label, [Blank EXCEPT !.job = j])
  BY <1>1, <1>2 DEF Stage, OfInstall, OfChange, PastGates
<1>4. Moved(c, label, [Blank EXCEPT !.job = j])
  BY <1>1 DEF Begin, Moved, TypeInv, TypeOK
<1>5. StageInv'
  BY <1>3, <1>4 DEF Moved, StageInv, TypeInv
<1>6. trusted' \in [Ids -> Trusts]
  <2>1. Unknown \in Trusts
    BY DEF Unknown, Trust, Trusts
  <2>2. \A i \in Ids : trusted[i] \in Trusts
    BY DEF TypeInv, TypeOK
  <2> QED BY <2>1, <2>2 DEF Begin
<1>7. overlapped' \subseteq Calls /\ crowded' \in BOOLEAN
  <2>1. crowded' \in BOOLEAN
    BY DEF Begin
  <2>2. overlapped' \subseteq Calls
    BY DEF Begin, TypeInv, TypeOK
  <2> QED BY <2>1, <2>2
<1>8. /\ pc' \in [Calls -> {"idle"} \cup Running \cup Ended]
      /\ frame' \in [Calls -> Frames]
  BY <1>1, <1>2 DEF Begin, TypeInv, TypeOK
<1> QED
  BY <1>5, <1>6, <1>7, <1>8 DEF Begin, TypeInv, TypeOK, files

LEMMA UnlistType ==
  ASSUME TypeInv, NEW c \in Calls, Unlist(c), Job(c).op = "remove",
         Job(c) \in Jobs
  PROVE  /\ Moving
         /\ registry' \in [Procs -> [Ids -> Tarballs \cup {NoPackage}]]
         /\ \A p \in Procs, i \in Ids : registry'[p][i] \in {registry[p][i], NoPackage}
         /\ Moved(c, "clearing", frame[c]) \/ Moved(c, "answered", Blank)
<1>1. /\ registry' \in [Procs -> [Ids -> Tarballs \cup {NoPackage}]]
      /\ \A p \in Procs, i \in Ids : registry'[p][i] \in {registry[p][i], NoPackage}
  BY HomeAssumption DEF Unlist, TypeInv, TypeOK
<1>2. CASE Match(c) # "none"
  <2>1. frame[c] \in Frames /\ Match(c) \in Versions
    BY <1>2 DEF TypeInv, TypeOK, Frames, Match
  <2>2. Stage("clearing", frame[c])
    BY <2>1, <1>2 DEF Stage, OfInstall, OfChange, PastGates, Job, Match
  <2> QED BY <1>1, <1>2, <2>1, <2>2, ProceedType DEF Unlist, Goto
<1>3. CASE Match(c) = "none"
  BY <1>1, <1>3, CompleteType DEF Unlist
<1> QED BY <1>2, <1>3

LEMMA NextType == TypeInv /\ [Next]_vars => TypeInv'
<1> SUFFICES ASSUME TypeInv, [Next]_vars PROVE TypeInv'
  OBVIOUS
<1> USE HomeAssumption DEF files
<1>1. ASSUME NEW c \in Calls PROVE Stage(pc[c], frame[c]) /\ frame[c] \in Frames
  BY DEF TypeInv, StageInv, TypeOK
<1>2. ASSUME NEW c \in Calls, Install(c) \/ Remove(c) \/ Reload(c) \/ Verify(c)
      PROVE  TypeInv'
  BY <1>2, BeginType DEF Install, Remove, Reload, Verify
<1>3. ASSUME NEW c \in Calls, Fetch(c) PROVE TypeInv'
  <2>1. PICK t \in Tarballs :
          IF Job(c).pin \in {"none", t.hash}
          THEN Proceed(c, "extracting", [frame[c] EXCEPT !.fetched = t])
          ELSE Settle(c, "rejected")
    BY <1>3 DEF Fetch
  <2>2. /\ [frame[c] EXCEPT !.fetched = t] \in Frames
        /\ Stage("extracting", [frame[c] EXCEPT !.fetched = t])
    BY <1>1, <1>3 DEF Fetch, Frames, Stage, OfInstall, OfChange, PastGates
  <2>3. Moving
    BY <2>1, <2>2, ProceedType, SettleType
  <2> QED BY <1>3, <2>3 DEF Fetch, Moving, TypeInv, TypeOK
<1>4. ASSUME NEW c \in Calls, Extract(c) PROVE TypeInv'
  <2>1. Job(c) \in Jobs /\ Job(c).op = "install" /\ Fetched(c) \in Tarballs
    BY <1>1, <1>4 DEF Extract, Stage, OfInstall, PastGates, Job, Fetched
  <2>2. Plain("install", Job(c).id) \in Jobs /\ Plain("install", Job(c).id).op = "install"
    BY <2>1, JobFacts
  <2>3. /\ [frame[c] EXCEPT !.job = Plain("install", @.id)] \in Frames
        /\ Stage("clearing", [frame[c] EXCEPT !.job = Plain("install", @.id)])
    BY <1>1, <2>1, <2>2 DEF Frames, Stage, OfInstall, OfChange, PastGates, Job, Fetched
  <2>4. Moving
    BY <1>4, <2>3, ProceedType, SettleType DEF Extract
  <2>5. admitted' \subseteq Tarballs
    BY <1>4, <2>1 DEF Extract, TypeInv, TypeOK
  <2> QED BY <1>4, <2>4, <2>5 DEF Extract, Moving, TypeInv, TypeOK
<1>5. ASSUME NEW c \in Calls, Clear(c) PROVE TypeInv'
  <2>1. Stage("erasing", frame[c])
    BY <1>1, <1>5 DEF Clear, Stage, OfInstall, OfChange, PastGates
  <2>2. Moving
    BY <1>1, <1>5, <2>1, ProceedType DEF Clear, Goto
  <2>3. dirs' \in [Dirs -> Tarballs \cup {NoPackage, Broken}]
    BY <1>5 DEF Clear, TypeInv, TypeOK
  <2> QED BY <1>5, <2>2, <2>3 DEF Clear, Moving, TypeInv, TypeOK
<1>6. ASSUME NEW c \in Calls, Erase(c) PROVE TypeInv'
  <2>1. dirs' \in [Dirs -> Tarballs \cup {NoPackage, Broken}]
    BY <1>6 DEF Erase, TypeInv, TypeOK
  <2>2. CASE Job(c).op = "install" /\ Goto(c, "moving")
    <3>1. Stage("moving", frame[c])
      BY <1>1, <1>6, <2>2 DEF Erase, Stage, OfInstall, OfChange, PastGates, Job
    <3> QED BY <1>1, <1>6, <2>1, <2>2, <3>1, ProceedType
            DEF Erase, Goto, Moving, TypeInv, TypeOK
  <2>3. CASE Job(c).op = "remove" /\ Complete(c, Removed(Match(c)))
    <3>1. Match(c) \in Versions
      BY <1>1, <1>6, <2>3 DEF Erase, Stage, Job, Match
    <3>2. Moving
      BY <2>3, <3>1, CompleteType
    <3> QED BY <1>6, <2>1, <3>2 DEF Erase, Moving, TypeInv, TypeOK
  <2> QED BY <1>6, <2>2, <2>3 DEF Erase
<1>7. ASSUME NEW c \in Calls, Move(c) PROVE TypeInv'
  <2>1. Fetched(c) \in Tarballs
    BY <1>1, <1>7 DEF Move, Stage, OfInstall, PastGates, Fetched
  <2>2. Stage("reading", frame[c])
    BY <1>1, <1>7 DEF Move, Stage, OfInstall, OfChange, PastGates
  <2>3. Moving
    BY <1>1, <1>7, <2>2, ProceedType, SettleType DEF Move, Goto
  <2>4. dirs' \in [Dirs -> Tarballs \cup {NoPackage, Broken}]
    BY <1>7, <2>1 DEF Move, TypeInv, TypeOK
  <2> QED BY <1>7, <2>3, <2>4 DEF Move, Moving, TypeInv, TypeOK
<1>8. ASSUME NEW c \in Calls, LookToRemove(c) PROVE TypeInv'
  <2>1. PICK m \in Readings :
          Proceed(c, "reading", [frame[c] EXCEPT !.match = m[Job(c).id].version])
    BY <1>8 DEF LookToRemove
  <2>2. Job(c).id \in Ids
    BY <1>1, <1>8, JobFacts DEF LookToRemove, Stage, Job
  <2>3. m[Job(c).id].version \in Versions \cup {"none"}
    BY <2>2, ReadingsFacts, MapFacts
  <2>4. /\ [frame[c] EXCEPT !.match = m[Job(c).id].version] \in Frames
        /\ Stage("reading", [frame[c] EXCEPT !.match = m[Job(c).id].version])
    BY <1>1, <1>8, <2>3
    DEF LookToRemove, Frames, Stage, OfInstall, OfChange, PastGates, Job
  <2>5. Moving
    BY <2>1, <2>4, ProceedType
  <2> QED BY <1>8, <2>5 DEF LookToRemove, Moving, TypeInv, TypeOK
<1>9. ASSUME NEW c \in Calls, LookToVerify(c) PROVE TypeInv'
  <2>1. PICK m \in Readings :
          IF m[Job(c).id] = NoEntry THEN Settle(c, "refuted")
          ELSE Proceed(c, "checking", [frame[c] EXCEPT !.match = m[Job(c).id].version])
    BY <1>9 DEF LookToVerify
  <2>2. Job(c).id \in Ids
    BY <1>1, <1>9, JobFacts DEF LookToVerify, Stage, Job
  <2>3. m[Job(c).id] # NoEntry => m[Job(c).id].version \in Versions
    BY <2>2, ReadingsFacts, MapFacts
  <2>4. m[Job(c).id] # NoEntry =>
          /\ [frame[c] EXCEPT !.match = m[Job(c).id].version] \in Frames
          /\ Stage("checking", [frame[c] EXCEPT !.match = m[Job(c).id].version])
    BY <1>1, <1>9, <2>3
    DEF LookToVerify, Frames, Stage, OfInstall, OfChange, PastGates, Job
  <2>5. Moving
    BY <2>1, <2>4, ProceedType, SettleType
  <2> QED BY <1>9, <2>5 DEF LookToVerify, Moving, TypeInv, TypeOK
<1>10. ASSUME NEW c \in Calls, LookToReload(c) PROVE TypeInv'
  <2>1. PICK m \in Readings :
          IF Listed(m) = {} THEN Settle(c, "answered")
          ELSE Proceed(c, "loading", [frame[c] EXCEPT !.mem = m, !.todo = Listed(m)])
    BY <1>10 DEF LookToReload
  <2>2. m \in Maps /\ Listed(m) \subseteq Ids
    BY ReadingsFacts, MapFacts
  <2>3. /\ [frame[c] EXCEPT !.mem = m, !.todo = Listed(m)] \in Frames
        /\ Stage("loading", [frame[c] EXCEPT !.mem = m, !.todo = Listed(m)])
    BY <1>1, <1>10, <2>2
    DEF LookToReload, Frames, Stage, OfInstall, OfChange, PastGates
  <2>4. Moving
    BY <2>1, <2>3, ProceedType, SettleType
  <2>5. registry' \in [Procs -> [Ids -> Tarballs \cup {NoPackage}]]
    BY <1>10 DEF LookToReload, TypeInv, TypeOK
  <2> QED BY <1>10, <2>4, <2>5 DEF LookToReload, Moving, TypeInv, TypeOK
<1>11. ASSUME NEW c \in Calls, Misread(c) \/ Check(c) \/ Miss(c) \/ Fail(c) PROVE TypeInv'
  <2>1. Moving
    BY <1>11, SettleType DEF Misread, Check, Miss, Fail
  <2> QED BY <1>11, <2>1 DEF Misread, Check, Miss, Fail, Moving, TypeInv, TypeOK
<1>12. ASSUME NEW c \in Calls, Load(c) PROVE TypeInv'
  <2>1. PICK i \in frame[c].todo :
          /\ \/ /\ Sound(i, frame[c].mem[i].version)
                /\ registry' = [registry EXCEPT ![Home[c]][i] =
                                  dirs[<<Slug[i], frame[c].mem[i].version>>]]
             \/ UNCHANGED registry
          /\ IF frame[c].todo \ {i} = {} THEN Settle(c, "answered")
             ELSE Proceed(c, "loading", [frame[c] EXCEPT !.todo = frame[c].todo \ {i}])
    BY <1>12 DEF Load
  <2>2. i \in Ids /\ frame[c].mem[i].version \in Versions
    BY <1>1, <1>12, MapFacts DEF Load, Stage, Frames, Listed
  <2>3. <<Slug[i], frame[c].mem[i].version>> \in Dirs
    BY <2>2, TarballFacts
  <2>4. Sound(i, frame[c].mem[i].version) =>
          dirs[<<Slug[i], frame[c].mem[i].version>>] \in Tarballs
    BY <2>2, <2>3, TarballFacts, NoneAssumption DEF Sound, TypeInv, TypeOK
  <2>5. registry' \in [Procs -> [Ids -> Tarballs \cup {NoPackage}]]
    <3>1. CASE /\ Sound(i, frame[c].mem[i].version)
               /\ registry' = [registry EXCEPT ![Home[c]][i] =
                                 dirs[<<Slug[i], frame[c].mem[i].version>>]]
      BY <2>2, <2>4, <3>1 DEF TypeInv, TypeOK
    <3>2. CASE UNCHANGED registry
      BY <3>2 DEF TypeInv, TypeOK
    <3> QED BY <2>1, <3>1, <3>2
  <2>6. /\ [frame[c] EXCEPT !.todo = frame[c].todo \ {i}] \in Frames
        /\ Stage("loading", [frame[c] EXCEPT !.todo = frame[c].todo \ {i}])
    BY <1>1, <1>12 DEF Load, Frames, Stage, OfInstall, OfChange, PastGates
  <2>7. Moving
    BY <2>1, <2>6, ProceedType, SettleType
  <2> QED BY <1>12, <2>5, <2>7 DEF Load, Moving, TypeInv, TypeOK
<1>13. ASSUME NEW c \in Calls, Read(c) PROVE TypeInv'
  <2>1. Job(c) \in Jobs
    BY <1>1, <1>13 DEF Read, Stage, Job
  <2>2. PICK m \in Readings :
          \/ Job(c).op = "remove" /\ Unlist(c)
          \/ /\ Proceed(c, "truncating", [frame[c] EXCEPT !.mem = m])
             /\ UNCHANGED registry
    BY <1>13 DEF Read
  <2>3. /\ [frame[c] EXCEPT !.mem = m] \in Frames
        /\ Stage("truncating", [frame[c] EXCEPT !.mem = m])
    BY <1>1, <1>13, ReadingsFacts DEF Read, Frames, Stage, OfInstall, OfChange, PastGates
  <2>4. Moving /\ registry' \in [Procs -> [Ids -> Tarballs \cup {NoPackage}]]
    BY <2>1, <2>2, <2>3, ProceedType, UnlistType DEF TypeInv, TypeOK
  <2> QED BY <1>13, <2>4 DEF Read, Moving, TypeInv, TypeOK
<1>14. ASSUME NEW c \in Calls, Truncate(c) PROVE TypeInv'
  <2> DEFINE f == IF tmp[Home[c]] = "none" THEN c ELSE tmp[Home[c]]
  <2>1. f \in Files
    BY DEF Files, TypeInv, TypeOK
  <2>2. /\ [frame[c] EXCEPT !.handle = f] \in Frames
        /\ Stage("filling", [frame[c] EXCEPT !.handle = f])
    BY <1>1, <1>14, <2>1 DEF Truncate, Frames, Stage, OfInstall, OfChange, PastGates
  <2>3. Moving
    BY <1>14, <2>2, ProceedType DEF Truncate
  <2>4. tmp' \in [Procs -> Files \cup {"none"}] /\ content' \in [Files -> Contents]
    BY <1>14, <2>1, MapFacts DEF Truncate, TypeInv, TypeOK
  <2> QED BY <1>14, <2>3, <2>4 DEF Truncate, Moving, TypeInv, TypeOK
<1>15. ASSUME NEW c \in Calls, Fill(c) PROVE TypeInv'
  <2>1. Stage("renaming", frame[c])
    BY <1>1, <1>15 DEF Fill, Stage, OfInstall, OfChange, PastGates
  <2>2. Moving
    BY <1>1, <1>15, <2>1, ProceedType DEF Fill, Goto
  <2>3. Updated(c) \in Maps
    <3>1. frame[c].mem \in Maps /\ Job(c).id \in Ids
      BY <1>1, <1>15, JobFacts DEF Fill, Frames, Stage, OfChange, Job
    <3>2. Job(c).op = "install" => Recorded(Fetched(c)) \in Entry
      BY <1>1, <1>15, TarballFacts DEF Fill, Stage, OfChange, PastGates, Job, Fetched
    <3> QED BY <3>1, <3>2 DEF Updated, Maps
  <2>4. content' \in [Files -> Contents]
    <3>1. PICK new \in {Whole(Updated(c)), Garbled} :
            content' = [content EXCEPT ![frame[c].handle] = new]
      BY <1>15 DEF Fill
    <3>2. new \in Contents
      BY <2>3, <3>1, MapFacts
    <3> QED BY <3>1, <3>2 DEF TypeInv, TypeOK
  <2> QED BY <1>15, <2>2, <2>4 DEF Fill, Moving, TypeInv, TypeOK
<1>16. ASSUME NEW c \in Calls, Rename(c) PROVE TypeInv'
  <2>1. /\ store' \in Files \cup {"none"}
        /\ tmp' \in [Procs -> Files \cup {"none"}]
        /\ content' \in [Files -> Contents]
    BY <1>16, MapFacts DEF Rename, TypeInv, TypeOK
  <2>2. Job(c) \in Jobs
    BY <1>1, <1>16 DEF Rename, Stage, Job
  <2>3. Job(c).op = "install" => Stage("receipting", frame[c]) /\ Fetched(c) \in Tarballs
    BY <1>1, <1>16 DEF Rename, Stage, OfInstall, OfChange, PastGates, Job, Fetched
  <2>4. Moving /\ registry' \in [Procs -> [Ids -> Tarballs \cup {NoPackage}]]
    <3>1. CASE /\ Job(c).op = "install"
               /\ registry' = [registry EXCEPT ![Home[c]][Job(c).id] = Fetched(c)]
               /\ Goto(c, "receipting")
      BY <1>1, <2>3, <3>1, ProceedType DEF Goto, TypeInv, TypeOK
    <3>2. CASE Job(c).op = "remove" /\ Unlist(c)
      BY <2>2, <3>2, UnlistType
    <3> QED BY <1>16, <3>1, <3>2 DEF Rename
  <2> QED BY <1>16, <2>1, <2>4 DEF Rename, Moving, TypeInv, TypeOK
<1>17. ASSUME NEW c \in Calls, Receipt(c) PROVE TypeInv'
  <2>1. Fetched(c) \in Tarballs
    BY <1>1, <1>17 DEF Receipt, Stage, OfInstall, PastGates, Fetched
  <2>2. Moving
    BY <1>17, <2>1, CompleteType DEF Receipt
  <2>3. dirs' \in [Dirs -> Tarballs \cup {NoPackage, Broken}]
    BY <1>17 DEF Receipt, TypeInv, TypeOK
  <2> QED BY <1>17, <2>2, <2>3 DEF Receipt, Moving, TypeInv, TypeOK
<1>18. ASSUME NEW p \in Procs, Die(p) PROVE TypeInv'
  <2>1. /\ pc' \in [Calls -> {"idle"} \cup Running \cup Ended]
        /\ frame' \in [Calls -> Frames]
        /\ \A c \in Calls : \/ pc'[c] = pc[c] /\ frame'[c] = frame[c]
                            \/ pc'[c] = "dead" /\ frame'[c] = Blank
    <3> DEFINE gone == {c \in Calls : Home[c] = p /\ pc[c] \in Running \cup {"idle"}}
    <3>1. /\ pc' = [c \in Calls |-> IF c \in gone THEN "dead" ELSE pc[c]]
          /\ frame' = [c \in Calls |-> IF c \in gone THEN Blank ELSE frame[c]]
      BY <1>18 DEF Die
    <3>2. /\ pc \in [Calls -> {"idle"} \cup Running \cup Ended]
          /\ frame \in [Calls -> Frames]
      BY DEF TypeInv, TypeOK
    <3>3. Blank \in Frames
      BY BlankFacts
    <3> HIDE DEF gone
    <3>4. frame' \in [Calls -> Frames]
      BY <3>1, <3>2, <3>3
    <3>5. pc' \in [Calls -> {"idle"} \cup Running \cup Ended]
      BY <3>1, <3>2
    <3>6. \A c \in Calls : \/ pc'[c] = pc[c] /\ frame'[c] = frame[c]
                           \/ pc'[c] = "dead" /\ frame'[c] = Blank
      BY <3>1
    <3> QED BY <3>4, <3>5, <3>6
  <2>2. StageInv'
    BY <2>1, EndedStage DEF StageInv, TypeInv
  <2>3. registry' \in [Procs -> [Ids -> Tarballs \cup {NoPackage}]]
    BY <1>18 DEF Die, TypeInv, TypeOK
  <2>4. dead' \subseteq Procs
    BY <1>18, DeathAssumption DEF Die, TypeInv, TypeOK
  <2>5. overlapped' \subseteq Calls
    BY <1>18 DEF Die, TypeInv, TypeOK
  <2> QED BY <1>18, <2>1, <2>2, <2>3, <2>4, <2>5 DEF Die, TypeInv, TypeOK, history
<1>19. CASE UNCHANGED vars
  BY <1>19 DEF vars, TypeInv, TypeOK, StageInv, history
<1> QED
  BY <1>2, <1>3, <1>4, <1>5, <1>6, <1>7, <1>8, <1>9, <1>10, <1>11, <1>12, <1>13, <1>14,
     <1>15, <1>16, <1>17, <1>18, <1>19
  DEF Next, Step

LEMMA TypeInvariant == Spec => []TypeInv
BY InitType, NextType, PTL DEF Spec

\* Type correctness, whatever overlaps, fails or dies.
THEOREM TypeCorrect == Spec => []TypeOK
<1>1. TypeInv => TypeOK
  BY DEF TypeInv
<1> QED BY <1>1, TypeInvariant, PTL

-----------------------------------------------------------------------------
\* What has passed the gates travels with the call into the directory, the store
\* and the registries; entries that are read back had passed them before.
Known(m, packages) ==
  \A i \in Ids : m[i] # NoEntry => \E t \in packages : t.name = i /\ Recorded(t) = m[i]
Gated(label, f, packages) ==
  /\ label = "extracting" => f.job.pin \in {"none", f.fetched.hash}
  /\ label \in PastGates /\ f.job.op = "install" =>
       f.fetched \in packages /\ f.fetched.name = f.job.id
  /\ Known(f.mem, packages)
GateInv ==
  /\ \A c \in Calls : Gated(pc[c], frame[c], admitted)
  /\ \A f \in Files : Known(content[f].map, admitted)
  /\ \A d \in Dirs : dirs[d] \in admitted \cup {NoPackage, Broken}
  /\ \A p \in Procs, i \in Ids : registry[p][i] \in admitted \cup {NoPackage}

LEMMA KnownFacts ==
  /\ \A packages : Known(Nothing, packages)
  /\ \A packages, how : how \in Ended \cup {"idle"} => Gated(how, Blank, packages)
  /\ Cut.map = Nothing /\ Garbled.map = Nothing /\ \A m : Whole(m).map = m
BY DEF Known, Nothing, Gated, Blank, PastGates, OfChange, Cut, Garbled, Whole

LEMMA InitGate == Init => GateInv
<1> SUFFICES ASSUME Init PROVE GateInv
  OBVIOUS
<1>1. Known(InitialEntries, Installed)
  <2> SUFFICES ASSUME NEW i \in Ids, InitialEntries[i] # NoEntry
               PROVE  \E t \in Installed : t.name = i /\ Recorded(t) = InitialEntries[i]
    BY DEF Known
  <2>1. \E t \in Installed : t.name = i
    BY DEF InitialEntries
  <2>2. InitialEntries[i] = Recorded(CHOOSE t \in Installed : t.name = i)
    BY <2>1 DEF InitialEntries
  <2> QED BY <2>1, <2>2
<1>2. \A f \in Files : Known(content[f].map, admitted)
  BY <1>1, KnownFacts DEF Init
<1>3. \A d \in Dirs : dirs[d] \in admitted \cup {NoPackage, Broken}
  <2> SUFFICES ASSUME NEW d \in Dirs PROVE dirs[d] \in Installed \cup {NoPackage}
    BY DEF Init
  <2>1. CASE \E t \in Installed : d = <<Slug[t.name], t.version>>
    <3>1. dirs[d] = CHOOSE t \in Installed : d = <<Slug[t.name], t.version>>
      BY <2>1 DEF Init
    <3> QED BY <2>1, <3>1
  <2>2. CASE ~\E t \in Installed : d = <<Slug[t.name], t.version>>
    BY <2>2 DEF Init
  <2> QED BY <2>1, <2>2
<1> QED BY <1>2, <1>3, KnownFacts DEF Init, GateInv

\* A call moves, and what it carries is gated.
LEMMA GateKept ==
  ASSUME TypeInv, GateInv, NEW c \in Calls, NEW label, NEW f, Moved(c, label, f),
         admitted \subseteq admitted', Gated(label, f, admitted')
  PROVE  \A d \in Calls : Gated(pc'[d], frame'[d], admitted')
<1>1. \A d \in Calls : Gated(pc[d], frame[d], admitted')
  BY DEF GateInv, Gated, Known
<1> QED BY <1>1 DEF Moved

LEMMA ReadingsKnown ==
  ASSUME TypeInv, GateInv, NEW m \in Readings
  PROVE  Known(m, admitted)
BY ReadingsFacts, KnownFacts DEF GateInv, TypeInv, TypeOK

LEMMA UnlistGate ==
  ASSUME TypeInv, GateInv, NEW c \in Calls, Unlist(c), Job(c) \in Jobs,
         Job(c).op = "remove", UNCHANGED admitted
  PROVE  /\ \A d \in Calls : Gated(pc'[d], frame'[d], admitted')
         /\ \A p \in Procs, i \in Ids : registry'[p][i] \in admitted \cup {NoPackage}
<1>1. /\ \A p \in Procs, i \in Ids : registry'[p][i] \in {registry[p][i], NoPackage}
      /\ Moved(c, "clearing", frame[c]) \/ Moved(c, "answered", Blank)
  BY UnlistType
<1>2. Gated("clearing", frame[c], admitted) /\ Gated("answered", Blank, admitted)
  BY KnownFacts DEF GateInv, Gated, Job
<1> QED BY <1>1, <1>2, GateKept DEF GateInv

LEMMA NextGate == TypeInv /\ GateInv /\ [Next]_vars => GateInv'
<1> SUFFICES ASSUME TypeInv, GateInv, [Next]_vars PROVE GateInv'
  OBVIOUS
<1> USE HomeAssumption DEF files
<1>1. ASSUME NEW c \in Calls
      PROVE  /\ Stage(pc[c], frame[c]) /\ frame[c] \in Frames
             /\ Gated(pc[c], frame[c], admitted)
  BY DEF TypeInv, StageInv, TypeOK, GateInv
<1>2. ASSUME NEW c \in Calls, NEW op, NEW label, Begin(c, op, label),
             label \in {"fetching", "looking"}
      PROVE  GateInv'
  <2>1. PICK j \in Jobs : frame' = [frame EXCEPT ![c] = [Blank EXCEPT !.job = j]]
    BY <1>2 DEF Begin
  <2>2. Moved(c, label, [Blank EXCEPT !.job = j])
    BY <1>2, <2>1 DEF Begin, Moved, TypeInv, TypeOK
  <2>3. Gated(label, [Blank EXCEPT !.job = j], admitted)
    BY <1>2, KnownFacts DEF Gated, Blank, PastGates, OfChange
  <2> QED BY <1>2, <2>2, <2>3, GateKept DEF Begin, GateInv
\* A call settles, and no more.
<1>3. ASSUME NEW c \in Calls, NEW how \in Ended, Settle(c, how),
             UNCHANGED <<files, dirs, registry, admitted>>
      PROVE  GateInv'
  BY <1>3, SettleType, GateKept, KnownFacts DEF GateInv
<1>4. ASSUME NEW c \in Calls, Fetch(c) PROVE GateInv'
  <2>1. PICK t \in Tarballs :
          IF Job(c).pin \in {"none", t.hash}
          THEN Proceed(c, "extracting", [frame[c] EXCEPT !.fetched = t])
          ELSE Settle(c, "rejected")
    BY <1>4 DEF Fetch
  <2>2. CASE Job(c).pin \in {"none", t.hash}
    <3>1. Moved(c, "extracting", [frame[c] EXCEPT !.fetched = t])
      BY <2>1, <2>2 DEF Proceed, Moved, TypeInv, TypeOK
    <3>2. Gated("extracting", [frame[c] EXCEPT !.fetched = t], admitted)
      BY <1>1, <2>2 DEF Gated, PastGates, OfChange, Job, Frames
    <3> QED BY <1>4, <3>1, <3>2, GateKept DEF Fetch, GateInv
  <2>3. CASE Job(c).pin \notin {"none", t.hash}
    BY <1>3, <1>4, <2>1, <2>3 DEF Fetch
  <2> QED BY <2>2, <2>3
<1>5. ASSUME NEW c \in Calls, Extract(c) PROVE GateInv'
  <2>1. Job(c).pin \in {"none", Fetched(c).hash} /\ Job(c) \in Jobs /\ Job(c).op = "install"
    BY <1>1, <1>5 DEF Extract, Gated, Stage, OfInstall, Job, Fetched
  <2>2. CASE Admissible(Job(c), Fetched(c))
    <3>1. Moved(c, "clearing", [frame[c] EXCEPT !.job = Plain("install", @.id)])
      BY <1>5, <2>2 DEF Extract, Proceed, Moved, TypeInv, TypeOK
    <3>2. Fetched(c) \in admitted' /\ admitted \subseteq admitted'
      BY <1>5, <2>1, <2>2 DEF Extract
    <3>3. Fetched(c).name = Job(c).id
      BY <2>2 DEF Admissible
    <3>4. Plain("install", Job(c).id).id = Job(c).id
      BY <2>1, JobFacts
    <3>5. Known(frame[c].mem, admitted')
      BY <1>1, <3>2 DEF Gated, Known
    <3>6. Gated("clearing", [frame[c] EXCEPT !.job = Plain("install", @.id)], admitted')
      BY <1>1, <3>2, <3>3, <3>4, <3>5 DEF Gated, Frames, Job, Fetched
    <3>7. \A d \in Calls : Gated(pc'[d], frame'[d], admitted')
      BY <3>1, <3>2, <3>6, GateKept
    <3> QED BY <1>5, <3>2, <3>7 DEF Extract, GateInv, Known
  <2>3. CASE ~Admissible(Job(c), Fetched(c))
    BY <1>3, <1>5, <2>3 DEF Extract
  <2> QED BY <2>2, <2>3
<1>6. ASSUME NEW c \in Calls, NEW label, Goto(c, label), label \notin {"extracting"},
             label \in PastGates => pc[c] \in PastGates, UNCHANGED admitted
      PROVE  \A d \in Calls : Gated(pc'[d], frame'[d], admitted')
  <2>1. Moved(c, label, frame[c])
    BY <1>6 DEF Goto, Proceed, Moved, TypeInv, TypeOK
  <2>2. Gated(label, frame[c], admitted)
    BY <1>1, <1>6 DEF Gated
  <2> QED BY <1>6, <2>1, <2>2, GateKept
<1>7. ASSUME NEW c \in Calls, NEW what, Complete(c, what), UNCHANGED admitted
      PROVE  \A d \in Calls : Gated(pc'[d], frame'[d], admitted')
  <2>1. Moved(c, "answered", Blank)
    BY <1>7 DEF Complete, End, Moved, TypeInv, TypeOK
  <2> QED BY <1>7, <2>1, GateKept, KnownFacts
<1>8. ASSUME NEW c \in Calls, Clear(c) PROVE GateInv'
  <2>1. \A d \in Calls : Gated(pc'[d], frame'[d], admitted')
    BY <1>6, <1>8 DEF Clear, PastGates, OfChange
  <2>2. \A d \in Dirs : dirs'[d] \in {dirs[d], Broken}
    BY <1>8 DEF Clear, TypeInv, TypeOK
  <2> QED BY <1>8, <2>1, <2>2 DEF Clear, GateInv
<1>9. ASSUME NEW c \in Calls, Erase(c) PROVE GateInv'
  <2>1. \A d \in Calls : Gated(pc'[d], frame'[d], admitted')
    BY <1>6, <1>7, <1>9 DEF Erase, PastGates, OfChange
  <2>2. \A d \in Dirs : dirs'[d] \in {dirs[d], NoPackage}
    BY <1>9 DEF Erase, TypeInv, TypeOK
  <2> QED BY <1>9, <2>1, <2>2 DEF Erase, GateInv
<1>10. ASSUME NEW c \in Calls, Move(c) PROVE GateInv'
  <2>1. CASE dirs' = [dirs EXCEPT ![Dir(c)] = Fetched(c)] /\ Goto(c, "reading")
    <3>1. Fetched(c) \in admitted
      BY <1>1, <1>10 DEF Move, Stage, Gated, OfInstall, PastGates, Fetched
    <3>2. \A d \in Calls : Gated(pc'[d], frame'[d], admitted')
      BY <1>6, <1>10, <2>1 DEF Move, PastGates, OfChange
    <3>3. \A d \in Dirs : dirs'[d] \in {dirs[d], Fetched(c)}
      BY <2>1 DEF TypeInv, TypeOK
    <3> QED BY <1>10, <3>1, <3>2, <3>3 DEF Move, GateInv
  <2>2. CASE Settle(c, "rejected") /\ UNCHANGED dirs
    BY <1>3, <1>10, <2>2 DEF Move
  <2> QED BY <1>10, <2>1, <2>2 DEF Move
<1>11. ASSUME NEW c \in Calls, LookToRemove(c) PROVE GateInv'
  <2>1. PICK m \in Readings :
          Proceed(c, "reading", [frame[c] EXCEPT !.match = m[Job(c).id].version])
    BY <1>11 DEF LookToRemove
  <2>2. Moved(c, "reading", [frame[c] EXCEPT !.match = m[Job(c).id].version])
    BY <2>1 DEF Proceed, Moved, TypeInv, TypeOK
  <2>3. Gated("reading", [frame[c] EXCEPT !.match = m[Job(c).id].version], admitted)
    BY <1>1, <1>11 DEF LookToRemove, Gated, Frames, Job
  <2> QED BY <1>11, <2>2, <2>3, GateKept DEF LookToRemove, GateInv
<1>12. ASSUME NEW c \in Calls, LookToVerify(c) PROVE GateInv'
  <2>1. PICK m \in Readings :
          IF m[Job(c).id] = NoEntry THEN Settle(c, "refuted")
          ELSE Proceed(c, "checking", [frame[c] EXCEPT !.match = m[Job(c).id].version])
    BY <1>12 DEF LookToVerify
  <2>2. CASE m[Job(c).id] = NoEntry
    BY <1>3, <1>12, <2>1, <2>2 DEF LookToVerify
  <2>3. CASE m[Job(c).id] # NoEntry
    <3>1. Moved(c, "checking", [frame[c] EXCEPT !.match = m[Job(c).id].version])
      BY <2>1, <2>3 DEF Proceed, Moved, TypeInv, TypeOK
    <3>2. Gated("checking", [frame[c] EXCEPT !.match = m[Job(c).id].version], admitted)
      BY <1>1 DEF Gated, Frames, PastGates, OfChange
    <3> QED BY <1>12, <3>1, <3>2, GateKept DEF LookToVerify, GateInv
  <2> QED BY <2>2, <2>3
<1>13. ASSUME NEW c \in Calls, LookToReload(c) PROVE GateInv'
  <2>1. PICK m \in Readings :
          IF Listed(m) = {} THEN Settle(c, "answered")
          ELSE Proceed(c, "loading", [frame[c] EXCEPT !.mem = m, !.todo = Listed(m)])
    BY <1>13 DEF LookToReload
  <2>2. \A p \in Procs, i \in Ids : registry'[p][i] \in {registry[p][i], NoPackage}
    BY <1>13 DEF LookToReload, TypeInv, TypeOK
  <2>3. \A d \in Calls : Gated(pc'[d], frame'[d], admitted')
    <3>1. CASE Settle(c, "answered")
      BY <1>13, <3>1, SettleType, GateKept, KnownFacts DEF LookToReload
    <3>2. CASE Proceed(c, "loading", [frame[c] EXCEPT !.mem = m, !.todo = Listed(m)])
      <4>1. Moved(c, "loading", [frame[c] EXCEPT !.mem = m, !.todo = Listed(m)])
        BY <3>2 DEF Proceed, Moved, TypeInv, TypeOK
      <4>2. Gated("loading", [frame[c] EXCEPT !.mem = m, !.todo = Listed(m)], admitted)
        BY <1>1, ReadingsKnown DEF Gated, Frames, PastGates, OfChange
      <4> QED BY <1>13, <4>1, <4>2, GateKept DEF LookToReload
    <3> QED BY <2>1, <3>1, <3>2
  <2> QED BY <1>13, <2>2, <2>3 DEF LookToReload, GateInv
<1>14. ASSUME NEW c \in Calls, Misread(c) \/ Check(c) \/ Miss(c) \/ Fail(c) PROVE GateInv'
  BY <1>3, <1>14 DEF Misread, Check, Miss, Fail
<1>15. ASSUME NEW c \in Calls, Load(c) PROVE GateInv'
  <2>1. PICK i \in frame[c].todo :
          /\ \/ /\ Sound(i, frame[c].mem[i].version)
                /\ registry' = [registry EXCEPT ![Home[c]][i] =
                                  dirs[<<Slug[i], frame[c].mem[i].version>>]]
             \/ UNCHANGED registry
          /\ IF frame[c].todo \ {i} = {} THEN Settle(c, "answered")
             ELSE Proceed(c, "loading", [frame[c] EXCEPT !.todo = frame[c].todo \ {i}])
    BY <1>15 DEF Load
  <2>2. i \in Ids /\ frame[c].mem[i].version \in Versions
    BY <1>1, <1>15, MapFacts DEF Load, Stage, Frames, Listed
  <2>3. <<Slug[i], frame[c].mem[i].version>> \in Dirs
    BY <2>2, TarballFacts
  <2>4. Sound(i, frame[c].mem[i].version) =>
          dirs[<<Slug[i], frame[c].mem[i].version>>] \in admitted
    BY <2>2, <2>3, TarballFacts, NoneAssumption DEF Sound, GateInv
  <2>5. \A p \in Procs, j \in Ids : registry'[p][j] \in admitted \cup {NoPackage}
    <3>1. CASE /\ Sound(i, frame[c].mem[i].version)
               /\ registry' = [registry EXCEPT ![Home[c]][i] =
                                 dirs[<<Slug[i], frame[c].mem[i].version>>]]
      BY <2>2, <2>4, <3>1 DEF GateInv, TypeInv, TypeOK
    <3>2. CASE UNCHANGED registry
      BY <3>2 DEF GateInv
    <3> QED BY <2>1, <3>1, <3>2
  <2>6. \A d \in Calls : Gated(pc'[d], frame'[d], admitted')
    <3>1. CASE Settle(c, "answered")
      BY <1>15, <3>1, SettleType, GateKept, KnownFacts DEF Load
    <3>2. CASE Proceed(c, "loading", [frame[c] EXCEPT !.todo = frame[c].todo \ {i}])
      <4>1. Moved(c, "loading", [frame[c] EXCEPT !.todo = frame[c].todo \ {i}])
        BY <3>2 DEF Proceed, Moved, TypeInv, TypeOK
      <4>2. Gated("loading", [frame[c] EXCEPT !.todo = frame[c].todo \ {i}], admitted)
        BY <1>1 DEF Gated, Frames, PastGates, OfChange
      <4> QED BY <1>15, <4>1, <4>2, GateKept DEF Load
    <3> QED BY <2>1, <3>1, <3>2
  <2> QED BY <1>15, <2>5, <2>6 DEF Load, GateInv
<1>16. ASSUME NEW c \in Calls, Read(c) PROVE GateInv'
  <2>1. Job(c) \in Jobs
    BY <1>1, <1>16 DEF Read, Stage, Job
  <2>2. PICK m \in Readings :
          \/ Job(c).op = "remove" /\ Unlist(c)
          \/ /\ Proceed(c, "truncating", [frame[c] EXCEPT !.mem = m])
             /\ UNCHANGED registry
    BY <1>16 DEF Read
  <2>3. CASE Job(c).op = "remove" /\ Unlist(c)
    BY <1>16, <2>1, <2>3, UnlistGate DEF Read, GateInv
  <2>4. CASE Proceed(c, "truncating", [frame[c] EXCEPT !.mem = m]) /\ UNCHANGED registry
    <3>1. Moved(c, "truncating", [frame[c] EXCEPT !.mem = m])
      BY <2>4 DEF Proceed, Moved, TypeInv, TypeOK
    <3>2. Gated("truncating", [frame[c] EXCEPT !.mem = m], admitted)
      BY <1>1, <1>16, ReadingsKnown DEF Read, Gated, Frames, PastGates, OfChange
    <3> QED BY <1>16, <2>4, <3>1, <3>2, GateKept DEF Read, GateInv
  <2> QED BY <2>2, <2>3, <2>4
<1>17. ASSUME NEW c \in Calls, Truncate(c) PROVE GateInv'
  <2> DEFINE g == IF tmp[Home[c]] = "none" THEN c ELSE tmp[Home[c]]
  <2>1. Moved(c, "filling", [frame[c] EXCEPT !.handle = g])
    BY <1>17 DEF Truncate, Proceed, Moved, TypeInv, TypeOK
  <2>2. Gated("filling", [frame[c] EXCEPT !.handle = g], admitted)
    BY <1>1, <1>17 DEF Truncate, Gated, Frames, PastGates, OfChange
  <2>3. \A d \in Calls : Gated(pc'[d], frame'[d], admitted')
    BY <1>17, <2>1, <2>2, GateKept DEF Truncate
  <2>4. \A f \in Files : content'[f] \in {content[f], Cut}
    BY <1>17 DEF Truncate, TypeInv, TypeOK
  <2> QED BY <1>17, <2>3, <2>4, KnownFacts DEF Truncate, GateInv
<1>18. ASSUME NEW c \in Calls, Fill(c) PROVE GateInv'
  <2>1. \A d \in Calls : Gated(pc'[d], frame'[d], admitted')
    BY <1>6, <1>18 DEF Fill, PastGates, OfChange
  <2>2. Known(Updated(c), admitted)
    <3>1. /\ frame[c].mem \in Maps /\ Job(c).id \in Ids /\ Known(frame[c].mem, admitted)
          /\ Job(c).op = "install" =>
               Fetched(c) \in admitted /\ Fetched(c).name = Job(c).id
      BY <1>1, <1>18, JobFacts
      DEF Fill, Frames, Stage, Gated, OfChange, PastGates, Job, Fetched
    <3>2. \A i \in Ids : Updated(c)[i] =
            IF i # Job(c).id THEN frame[c].mem[i]
            ELSE IF Job(c).op = "install" THEN Recorded(Fetched(c)) ELSE NoEntry
      BY <3>1 DEF Updated, Maps
    <3> QED BY <3>1, <3>2 DEF Known
  <2>3. \A f \in Files : content'[f] \in {content[f], Whole(Updated(c)), Garbled}
    BY <1>18 DEF Fill, TypeInv, TypeOK
  <2> QED BY <1>18, <2>1, <2>2, <2>3, KnownFacts DEF Fill, GateInv
<1>19. ASSUME NEW c \in Calls, Rename(c) PROVE GateInv'
  <2>1. Job(c) \in Jobs
    BY <1>1, <1>19 DEF Rename, Stage, Job
  <2>2. \A f \in Files : content'[f] \in {content[f], Cut}
    BY <1>19 DEF Rename, TypeInv, TypeOK
  <2>3. /\ \A d \in Calls : Gated(pc'[d], frame'[d], admitted')
        /\ \A p \in Procs, i \in Ids : registry'[p][i] \in admitted \cup {NoPackage}
    <3>1. CASE /\ Job(c).op = "install"
               /\ registry' = [registry EXCEPT ![Home[c]][Job(c).id] = Fetched(c)]
               /\ Goto(c, "receipting")
      <4>1. Fetched(c) \in admitted
        BY <1>1, <1>19, <3>1 DEF Rename, Gated, PastGates, OfChange, Job, Fetched
      <4>2. \A d \in Calls : Gated(pc'[d], frame'[d], admitted')
        BY <1>6, <1>19, <3>1 DEF Rename, PastGates, OfChange
      <4>3. \A p \in Procs, i \in Ids : registry'[p][i] \in {registry[p][i], Fetched(c)}
        BY <3>1 DEF TypeInv, TypeOK
      <4> QED BY <4>1, <4>2, <4>3 DEF GateInv
    <3>2. CASE Job(c).op = "remove" /\ Unlist(c)
      BY <1>19, <2>1, <3>2, UnlistGate DEF Rename
    <3> QED BY <1>19, <3>1, <3>2 DEF Rename
  <2> QED BY <1>19, <2>2, <2>3, KnownFacts DEF Rename, GateInv
<1>20. ASSUME NEW c \in Calls, Receipt(c) PROVE GateInv'
  <2>1. \A d \in Calls : Gated(pc'[d], frame'[d], admitted')
    BY <1>7, <1>20 DEF Receipt
  <2>2. \A d \in Dirs : dirs'[d] \in {dirs[d], Broken}
    BY <1>20 DEF Receipt, TypeInv, TypeOK
  <2> QED BY <1>20, <2>1, <2>2 DEF Receipt, GateInv
<1>21. ASSUME NEW p \in Procs, Die(p) PROVE GateInv'
  <2>1. \A c \in Calls : \/ pc'[c] = pc[c] /\ frame'[c] = frame[c]
                         \/ pc'[c] = "dead" /\ frame'[c] = Blank
    BY <1>21 DEF Die
  <2>2. \A q \in Procs, i \in Ids : registry'[q][i] \in {registry[q][i], NoPackage}
    BY <1>21 DEF Die, TypeInv, TypeOK
  <2>3. \A c \in Calls : Gated(pc'[c], frame'[c], admitted)
    BY <2>1, KnownFacts DEF GateInv
  <2> QED BY <1>21, <2>2, <2>3 DEF Die, GateInv, history
<1>22. CASE UNCHANGED vars
  BY <1>22 DEF vars, GateInv, history
<1> QED
  BY <1>2, <1>4, <1>5, <1>8, <1>9, <1>10, <1>11, <1>12, <1>13, <1>14, <1>15, <1>16,
     <1>17, <1>18, <1>19, <1>20, <1>21, <1>22
  DEF Next, Step, Install, Remove, Reload, Verify

\* Nothing is installed, recorded or loaded that has not passed the gates.
THEOREM GatesNeverBypassed == Spec => []OnlyAdmitted
<1>1. Init => TypeInv /\ GateInv
  BY InitType, InitGate
<1>2. TypeInv /\ GateInv /\ [Next]_vars => TypeInv' /\ GateInv'
  BY NextType, NextGate
<1>3. TypeInv /\ GateInv => OnlyAdmitted
  BY DEF GateInv, OnlyAdmitted, Known, TypeInv, TypeOK
<1> QED BY <1>1, <1>2, <1>3, PTL DEF Spec

-----------------------------------------------------------------------------
\* While the calls of each process run one after another, each process writes to
\* a file of its own, which is not the store, until it renames it whole.
Unopened(label, f) ==
  \/ label \in {"idle", "fetching", "extracting", "moving", "looking", "reading",
               "truncating"}
  \/ label \in {"clearing", "erasing"} /\ f.job.op = "install"
FileInv ==
  ~crowded =>
    /\ \A c, d \in Calls : Active(c) /\ Active(d) /\ Home[c] = Home[d] => c = d
    /\ NeverPartial
    /\ \A p \in Procs : tmp[p] # "none" => tmp[p] # store
    /\ \A p, q \in Procs : tmp[p] # "none" /\ tmp[p] = tmp[q] => p = q
    /\ \A c \in Calls : pc[c] = "filling" =>
         /\ tmp[Home[c]] # "none" /\ frame[c].handle = tmp[Home[c]]
         /\ content[tmp[Home[c]]] = Cut
    /\ \A c \in Calls : pc[c] = "renaming" =>
         tmp[Home[c]] # "none" /\ content[tmp[Home[c]]].state = "whole"
    /\ \A c \in Calls : Unopened(pc[c], frame[c]) =>
         store # c /\ \A p \in Procs : tmp[p] # c

LEMMA InitFile == Init => FileInv
<1> SUFFICES ASSUME Init PROVE FileInv
  OBVIOUS
<1>1. \A c \in Calls : pc[c] = "idle"
  BY DEF Init
<1>2. \A p \in Procs : tmp[p] = "none"
  BY DEF Init
<1>3. store \in {"none", "first"}
  BY DEF Init
<1>4. store = "first" => content[store].state = "whole"
  BY DEF Init, Files, Whole
<1>5. \A c \in Calls : ~Active(c)
  BY <1>1 DEF Active, Running
<1> QED
  BY <1>1, <1>2, <1>3, <1>4, <1>5, HomeAssumption, NoneAssumption
  DEF FileInv, NeverPartial, Unopened

\* A call moves without touching the files.
LEMMA QuietMove ==
  ASSUME TypeInv, FileInv, NEW c \in Calls, NEW label, NEW f, Moved(c, label, f),
         UNCHANGED <<files, crowded>>, pc[c] \in Running,
         label \notin {"filling", "renaming"},
         Unopened(label, f) => Unopened(pc[c], frame[c])
  PROVE  FileInv'
BY DEF FileInv, Moved, Active, NeverPartial, files

LEMMA QuietSettle ==
  ASSUME TypeInv, FileInv, NEW c \in Calls, NEW how \in Ended, End(c, how),
         pc[c] \in Running, UNCHANGED files
  PROVE  FileInv'
<1>1. Moved(c, how, Blank)
  BY DEF End, Moved, TypeInv, TypeOK
<1>2. ~Unopened(how, Blank)
  BY DEF Unopened
<1> QED BY <1>1, <1>2, QuietMove DEF End

LEMMA QuietProceed ==
  ASSUME TypeInv, FileInv, NEW c \in Calls, NEW label, NEW f, Proceed(c, label, f),
         pc[c] \in Running, UNCHANGED files, label \notin {"filling", "renaming"},
         Unopened(label, f) => Unopened(pc[c], frame[c])
  PROVE  FileInv'
<1>1. Moved(c, label, f)
  BY DEF Proceed, Moved, TypeInv, TypeOK
<1> QED BY <1>1, QuietMove DEF Proceed

\* A step of a call that writes no file.
Quiet(c) ==
  \/ Fetch(c) \/ Extract(c) \/ Clear(c) \/ Erase(c) \/ Move(c) \/ LookToRemove(c)
  \/ LookToVerify(c) \/ LookToReload(c) \/ Check(c) \/ Load(c) \/ Read(c)
  \/ Misread(c) \/ Miss(c) \/ Receipt(c) \/ Fail(c)

LEMMA QuietFile ==
  ASSUME TypeInv, FileInv, NEW c \in Calls, Quiet(c)
  PROVE  FileInv'
<1> USE DEF files, Settle, Complete, Goto
<1>0. Stage(pc[c], frame[c]) /\ frame[c] \in Frames
  BY DEF TypeInv, StageInv, TypeOK
<1>1. CASE Fetch(c)
  BY <1>1, QuietSettle, QuietProceed DEF Fetch, Unopened
<1>2. CASE Extract(c)
  BY <1>2, QuietSettle, QuietProceed DEF Extract, Unopened
<1>3. CASE Clear(c)
  BY <1>3, QuietProceed DEF Clear, Unopened
<1>4. CASE Erase(c)
  BY <1>4, QuietSettle, QuietProceed DEF Erase, Unopened, Job
<1>5. CASE Move(c)
  BY <1>5, QuietSettle, QuietProceed DEF Move, Unopened
<1>6. CASE LookToRemove(c)
  BY <1>6, QuietProceed DEF LookToRemove, Unopened
<1>7. CASE LookToVerify(c)
  BY <1>7, QuietSettle, QuietProceed DEF LookToVerify, Unopened
<1>8. CASE LookToReload(c)
  BY <1>8, QuietSettle, QuietProceed DEF LookToReload, Unopened
<1>9. CASE Check(c)
  BY <1>9, QuietSettle DEF Check
<1>10. CASE Load(c)
  BY <1>10, QuietSettle, QuietProceed DEF Load, Unopened
<1>11. CASE Read(c)
  BY <1>11, QuietSettle, QuietProceed DEF Read, Unlist, Unopened, Job
<1>12. CASE Misread(c) \/ Miss(c) \/ Fail(c)
  BY <1>12, QuietSettle DEF Misread, Miss, Fail, Active
<1>13. CASE Receipt(c)
  BY <1>13, QuietSettle DEF Receipt
<1> QED
  BY <1>1, <1>2, <1>3, <1>4, <1>5, <1>6, <1>7, <1>8, <1>9, <1>10, <1>11, <1>12, <1>13
  DEF Quiet

LEMMA NextFile == TypeInv /\ FileInv /\ [Next]_vars => FileInv'
<1> SUFFICES ASSUME TypeInv, FileInv, [Next]_vars PROVE FileInv'
  OBVIOUS
<1> USE HomeAssumption, NoneAssumption DEF files
<1>1. ASSUME NEW c \in Calls, NEW op, NEW label, Begin(c, op, label),
             label \in {"fetching", "looking"}
      PROVE  FileInv'
  <2> SUFFICES ASSUME ~crowded' PROVE FileInv'
    BY DEF FileInv
  <2>1. ~crowded /\ \A d \in Calls : Active(d) => Home[d] # Home[c]
    BY <1>1 DEF Begin
  <2>2. PICK j \in Jobs : frame' = [frame EXCEPT ![c] = [Blank EXCEPT !.job = j]]
    BY <1>1 DEF Begin
  <2>3. Moved(c, label, [Blank EXCEPT !.job = j]) /\ pc[c] = "idle"
    BY <1>1, <2>2 DEF Begin, Moved, TypeInv, TypeOK
  <2> QED BY <1>1, <2>1, <2>3 DEF Begin, FileInv, Moved, Active, NeverPartial, Unopened
<1>2. ASSUME NEW c \in Calls, Quiet(c) PROVE FileInv'
  BY <1>2, QuietFile
<1>3. ASSUME NEW c \in Calls, Truncate(c) PROVE FileInv'
  <2> DEFINE g == IF tmp[Home[c]] = "none" THEN c ELSE tmp[Home[c]]
  <2> SUFFICES ASSUME ~crowded' PROVE FileInv'
    BY DEF FileInv
  <2>1. /\ Moved(c, "filling", [frame[c] EXCEPT !.handle = g]) /\ ~crowded
        /\ [frame[c] EXCEPT !.handle = g].handle = g
    BY <1>3 DEF Truncate, Proceed, Moved, TypeInv, TypeOK, Frames
  <2>2. /\ g \in Files /\ g # "none" /\ g # store
        /\ \A p \in Procs : p # Home[c] => tmp[p] # g
        /\ \A d \in Calls : d # c /\ Unopened(pc[d], frame[d]) => d # g
    BY <1>3, <2>1 DEF Truncate, FileInv, Unopened, Files, TypeInv, TypeOK
  <2>3. /\ \A p \in Procs : tmp'[p] = IF p = Home[c] THEN g ELSE tmp[p]
        /\ \A f \in Files : content'[f] = IF f = g THEN Cut ELSE content[f]
        /\ store' = store
    BY <1>3 DEF Truncate, TypeInv, TypeOK
  <2>4. \A d \in Calls : Active(d) /\ d # c => Home[d] # Home[c]
    BY <1>3, <2>1 DEF Truncate, FileInv, Active
  <2>5. /\ \A p \in Procs : tmp[p] \in Files \cup {"none"}
        /\ store \in Files \cup {"none"}
    BY DEF TypeInv, TypeOK
  <2> HIDE DEF g
  <2>6. /\ \A d, e \in Calls : Active(d)' /\ Active(e)' /\ Home[d] = Home[e] => d = e
        /\ NeverPartial'
        /\ \A p \in Procs : tmp'[p] # "none" => tmp'[p] # store'
        /\ \A p, q \in Procs : tmp'[p] # "none" /\ tmp'[p] = tmp'[q] => p = q
    BY <1>3, <2>1, <2>2, <2>3, <2>5 DEF Truncate, FileInv, Moved, Active, NeverPartial
  <2>7. \A d \in Calls : pc'[d] = "filling" =>
          /\ tmp'[Home[d]] # "none" /\ frame'[d].handle = tmp'[Home[d]]
          /\ content'[tmp'[Home[d]]] = Cut
    <3> SUFFICES ASSUME NEW d \in Calls, pc'[d] = "filling"
                 PROVE  /\ tmp'[Home[d]] # "none" /\ frame'[d].handle = tmp'[Home[d]]
                        /\ content'[tmp'[Home[d]]] = Cut
      OBVIOUS
    <3>1. CASE d = c
      BY <2>1, <2>2, <2>3, <3>1 DEF Moved
    <3>2. CASE d # c
      <4>1. pc[d] = "filling" /\ frame'[d] = frame[d]
        BY <2>1, <3>2 DEF Moved
      <4>2. Home[d] # Home[c]
        BY <2>4, <3>2, <4>1 DEF Active
      <4>3. tmp[Home[d]] # "none" /\ frame[d].handle = tmp[Home[d]]
            /\ content[tmp[Home[d]]] = Cut /\ tmp[Home[d]] # g
        BY <2>1, <2>2, <4>1, <4>2 DEF FileInv
      <4> QED BY <2>3, <2>5, <4>1, <4>2, <4>3
    <3> QED BY <3>1, <3>2
  <2>8. \A d \in Calls : pc'[d] = "renaming" =>
          tmp'[Home[d]] # "none" /\ content'[tmp'[Home[d]]].state = "whole"
    BY <2>1, <2>2, <2>3, <2>4, <2>5 DEF FileInv, Moved, Active
  <2>9. \A d \in Calls : Unopened(pc'[d], frame'[d]) =>
          store' # d /\ \A p \in Procs : tmp'[p] # d
    BY <2>1, <2>2, <2>3 DEF FileInv, Moved, Unopened
  <2> QED BY <2>6, <2>7, <2>8, <2>9 DEF FileInv
<1>4. ASSUME NEW c \in Calls, Fill(c) PROVE FileInv'
  <2> SUFFICES ASSUME ~crowded' PROVE FileInv'
    BY DEF FileInv
  <2>1. Moved(c, "renaming", frame[c]) /\ ~crowded
    BY <1>4 DEF Fill, Goto, Proceed, Moved, TypeInv, TypeOK
  <2>2. /\ tmp[Home[c]] # "none" /\ frame[c].handle = tmp[Home[c]]
        /\ content[tmp[Home[c]]] = Cut /\ tmp[Home[c]] \in Files
    BY <1>4, <2>1 DEF Fill, FileInv, TypeInv, TypeOK
  <2>3. content' = [content EXCEPT ![tmp[Home[c]]] = Whole(Updated(c))]
    BY <1>4, <2>2 DEF Fill
  <2>4. \A d \in Calls : Active(d) /\ d # c => Home[d] # Home[c]
    BY <1>4, <2>1 DEF Fill, FileInv, Active
  <2>5. /\ \A f \in Files : content'[f] = IF f = tmp[Home[c]] THEN Whole(Updated(c))
                                         ELSE content[f]
        /\ Whole(Updated(c)).state = "whole" /\ UNCHANGED <<store, tmp>>
    BY <1>4, <2>3 DEF Fill, Whole, TypeInv, TypeOK
  <2>6. /\ \A p \in Procs : tmp[p] \in Files \cup {"none"}
        /\ store \in Files \cup {"none"}
    BY DEF TypeInv, TypeOK
  <2>7. /\ \A d, e \in Calls : Active(d)' /\ Active(e)' /\ Home[d] = Home[e] => d = e
        /\ NeverPartial'
        /\ \A p \in Procs : tmp'[p] # "none" => tmp'[p] # store'
        /\ \A p, q \in Procs : tmp'[p] # "none" /\ tmp'[p] = tmp'[q] => p = q
        /\ \A d \in Calls : Unopened(pc'[d], frame'[d]) =>
             store' # d /\ \A p \in Procs : tmp'[p] # d
    BY <1>4, <2>1, <2>5, <2>6 DEF Fill, FileInv, Moved, Active, NeverPartial, Unopened
  <2>8. \A d \in Calls : pc'[d] = "filling" =>
          /\ tmp'[Home[d]] # "none" /\ frame'[d].handle = tmp'[Home[d]]
          /\ content'[tmp'[Home[d]]] = Cut
    BY <2>1, <2>4, <2>5, <2>6 DEF FileInv, Moved, Active
  <2>9. \A d \in Calls : pc'[d] = "renaming" =>
          tmp'[Home[d]] # "none" /\ content'[tmp'[Home[d]]].state = "whole"
    BY <2>1, <2>2, <2>4, <2>5, <2>6 DEF FileInv, Moved, Active
  <2> QED BY <2>7, <2>8, <2>9 DEF FileInv
<1>5. ASSUME NEW c \in Calls, Rename(c) PROVE FileInv'
  <2> DEFINE g == tmp[Home[c]]
  <2> SUFFICES ASSUME ~crowded' PROVE FileInv'
    BY DEF FileInv
  <2>1. ~crowded /\ \E label \in {"receipting", "clearing", "answered"} : \E f :
          Moved(c, label, f) /\ ~Unopened(label, f)
    <3>1. CASE Job(c).op = "install" /\ Goto(c, "receipting")
      BY <3>1 DEF Goto, Proceed, Moved, Unopened, TypeInv, TypeOK
    <3>2. CASE Job(c).op = "remove" /\ Goto(c, "clearing")
      BY <3>2 DEF Goto, Proceed, Moved, Unopened, Job, TypeInv, TypeOK
    <3>3. CASE Complete(c, Removed("none"))
      BY <3>3 DEF Complete, End, Moved, Unopened, TypeInv, TypeOK
    <3> QED BY <1>5, <3>1, <3>2, <3>3 DEF Rename, Unlist
  <2>2. PICK label, f : /\ label \in {"receipting", "clearing", "answered"}
                         /\ Moved(c, label, f) /\ ~Unopened(label, f)
    BY <2>1
  <2>3. /\ g # "none" /\ g \in Files /\ g # store /\ content[g].state = "whole"
        /\ \A p \in Procs : p # Home[c] => tmp[p] # g
    BY <1>5, <2>1 DEF Rename, FileInv, TypeInv, TypeOK
  <2>4. /\ store' = g
        /\ \A p \in Procs : tmp'[p] = IF p = Home[c] THEN "none" ELSE tmp[p]
        /\ \A h \in Files : h # store => content'[h] = content[h]
    BY <1>5 DEF Rename, TypeInv, TypeOK
  <2>5. \A d \in Calls : Active(d) /\ d # c => Home[d] # Home[c]
    BY <1>5, <2>1 DEF Rename, FileInv, Active
  <2>6. \A p \in Procs : tmp[p] \in Files \cup {"none"}
    BY DEF TypeInv, TypeOK
  <2>7. \A d \in Calls : Unopened(pc[d], frame[d]) => d # g /\ \A p \in Procs : tmp[p] # d
    BY <2>1 DEF FileInv
  <2> HIDE DEF g
  <2>8. /\ \A d, e \in Calls : Active(d)' /\ Active(e)' /\ Home[d] = Home[e] => d = e
        /\ NeverPartial'
    BY <1>5, <2>1, <2>2, <2>3, <2>4 DEF Rename, FileInv, Moved, Active, NeverPartial
  <2>9. /\ \A p \in Procs : tmp'[p] # "none" => tmp'[p] # store'
        /\ \A p, q \in Procs : tmp'[p] # "none" /\ tmp'[p] = tmp'[q] => p = q
    BY <2>1, <2>3, <2>4 DEF FileInv
  <2>10. \A d \in Calls : pc'[d] = "filling" =>
           /\ tmp'[Home[d]] # "none" /\ frame'[d].handle = tmp'[Home[d]]
           /\ content'[tmp'[Home[d]]] = Cut
    <3> SUFFICES ASSUME NEW d \in Calls, pc'[d] = "filling"
                 PROVE  /\ tmp'[Home[d]] # "none" /\ frame'[d].handle = tmp'[Home[d]]
                        /\ content'[tmp'[Home[d]]] = Cut
      OBVIOUS
    <3>1. d # c /\ pc[d] = "filling" /\ frame'[d] = frame[d]
      BY <2>2 DEF Moved
    <3>2. Home[d] # Home[c]
      BY <2>5, <3>1 DEF Active
    <3>3. tmp[Home[d]] # "none" /\ frame[d].handle = tmp[Home[d]]
          /\ content[tmp[Home[d]]] = Cut /\ tmp[Home[d]] # store
      BY <2>1, <3>1 DEF FileInv
    <3> QED BY <2>4, <2>6, <3>1, <3>2, <3>3
  <2>11. \A d \in Calls : pc'[d] = "renaming" =>
           tmp'[Home[d]] # "none" /\ content'[tmp'[Home[d]]].state = "whole"
    <3> SUFFICES ASSUME NEW d \in Calls, pc'[d] = "renaming"
                 PROVE  tmp'[Home[d]] # "none" /\ content'[tmp'[Home[d]]].state = "whole"
      OBVIOUS
    <3>1. d # c /\ pc[d] = "renaming"
      BY <2>2 DEF Moved
    <3>2. Home[d] # Home[c]
      BY <2>5, <3>1 DEF Active
    <3>3. tmp[Home[d]] # "none" /\ content[tmp[Home[d]]].state = "whole"
          /\ tmp[Home[d]] # store
      BY <2>1, <3>1 DEF FileInv
    <3> QED BY <2>4, <2>6, <3>1, <3>2, <3>3
  <2>12. \A d \in Calls : Unopened(pc'[d], frame'[d]) =>
           store' # d /\ \A p \in Procs : tmp'[p] # d
    BY <2>2, <2>4, <2>7, NoneAssumption DEF Moved
  <2> QED BY <2>8, <2>9, <2>10, <2>11, <2>12 DEF FileInv
<1>6. ASSUME NEW p \in Procs, Die(p) PROVE FileInv'
  <2>1. \A c \in Calls : \/ pc'[c] = pc[c] /\ frame'[c] = frame[c]
                         \/ pc'[c] = "dead" /\ frame'[c] = Blank
    BY <1>6 DEF Die
  <2> QED BY <1>6, <2>1 DEF Die, FileInv, Active, NeverPartial, Unopened
<1>7. CASE UNCHANGED vars
  BY <1>7 DEF vars, FileInv, Active, NeverPartial
<1> QED
  BY <1>1, <1>2, <1>3, <1>4, <1>5, <1>6, <1>7
  DEF Next, Step, Quiet, Install, Remove, Reload, Verify

\* Readers of plugins.json never see a partial file, whoever fails or dies, as
\* long as the calls of each process run one after another.
THEOREM StoreNeverPartial == Spec => []StoreWhole
<1>1. Init => TypeInv /\ FileInv
  BY InitType, InitFile
<1>2. TypeInv /\ FileInv /\ [Next]_vars => TypeInv' /\ FileInv'
  BY NextType, NextFile
<1>3. FileInv => StoreWhole
  BY DEF FileInv, StoreWhole
<1> QED BY <1>1, <1>2, <1>3, PTL DEF Spec

-----------------------------------------------------------------------------
\* What the store says of a plugin, and the plugins of which something is known.
Listing(i) == IF store = "none" THEN NoEntry ELSE content[store].map[i]
Settled(i) == trusted[i] # Unknown
Changes(c, i) == Job(c).op \in {"install", "remove"} /\ Job(c).id = i

\* Calls that have run beside one another are on record.
BesideInv ==
  \A c, d \in Calls : Active(c) /\ Active(d) /\ c # d => c \in overlapped

\* Nobody is at a plugin of which something is known, and every call that has read
\* the store since has it in memory, or in its file, as the store has it now.
TrustInv ==
  \A i \in Ids : Settled(i) =>
    /\ ~crowded
    /\ \A c \in Calls : Active(c) => ~Changes(c, i)
    /\ \A c \in Calls : pc[c] \in {"truncating", "filling", "loading"} =>
         frame[c].mem[i] = Listing(i)
    /\ \A c \in Calls : pc[c] = "renaming" => content[tmp[Home[c]]].map[i] = Listing(i)

\* A temporary file that is whole records the call's change; and what a call that
\* has run alone has done so far is still so.
Recording ==
  \A c \in Calls : pc[c] = "renaming" =>
    content[tmp[Home[c]]].map[Job(c).id] = Updated(c)[Job(c).id]
DoneAlone(c) ==
  /\ pc[c] \in {"reading", "truncating", "filling", "renaming", "receipting"}
       /\ Job(c).op = "install" => dirs[Dir(c)] = Fetched(c)
  /\ pc[c] = "receipting" =>
       /\ Listing(Job(c).id) = Recorded(Fetched(c))
       /\ registry[Home[c]][Job(c).id] = Fetched(c)
  /\ pc[c] \in {"clearing", "erasing"} /\ Job(c).op = "remove" =>
       /\ Listing(Job(c).id) = NoEntry
       /\ registry[Home[c]][Job(c).id] = NoPackage
DoneInv ==
  ~crowded => Recording /\ \A c \in Calls : c \notin overlapped => DoneAlone(c)

\* A step of a call that has begun: it goes on, or ends.
Works(c) == Step(c) \/ Fail(c)

LEMMA WorkKinds ==
  ASSUME NEW c \in Calls, Works(c)
  PROVE  /\ Active(c)
         /\ \/ \E label \in Running : \E f : Proceed(c, label, f)
            \/ \E how \in Ended : Settle(c, how)
            \/ \E what : Complete(c, what)
<1> USE DEF Active, Goto
<1>1. CASE Fetch(c)
  BY <1>1 DEF Fetch
<1>2. CASE Extract(c)
  BY <1>2 DEF Extract
<1>3. CASE Clear(c)
  BY <1>3 DEF Clear
<1>4. CASE Erase(c)
  BY <1>4 DEF Erase
<1>5. CASE Move(c)
  BY <1>5 DEF Move
<1>6. CASE LookToRemove(c)
  BY <1>6 DEF LookToRemove
<1>7. CASE LookToVerify(c)
  BY <1>7 DEF LookToVerify
<1>8. CASE LookToReload(c)
  BY <1>8 DEF LookToReload
<1>9. CASE Check(c)
  BY <1>9 DEF Check
<1>10. CASE Load(c)
  BY <1>10 DEF Load
<1>11. CASE Read(c)
  BY <1>11 DEF Read, Unlist
<1>12. CASE Misread(c) \/ Miss(c) \/ Fail(c)
  BY <1>12 DEF Misread, Miss, Fail
<1>13. CASE Truncate(c)
  BY <1>13 DEF Truncate
<1>14. CASE Fill(c)
  BY <1>14 DEF Fill
<1>15. CASE Rename(c)
  BY <1>15 DEF Rename, Unlist
<1>16. CASE Receipt(c)
  BY <1>16 DEF Receipt
<1> QED
  BY <1>1, <1>2, <1>3, <1>4, <1>5, <1>6, <1>7, <1>8, <1>9, <1>10, <1>11, <1>12, <1>13,
     <1>14, <1>15, <1>16
  DEF Works, Step

\* The others stay as they are, and stay on record.
LEMMA WorkMoves ==
  ASSUME TypeInv, NEW c \in Calls, Works(c)
  PROVE  /\ Active(c)
         /\ \A d \in Calls : d # c => pc'[d] = pc[d] /\ frame'[d] = frame[d]
                                      /\ (d \in overlapped <=> d \in overlapped')
         /\ Active(c)' => (c \in overlapped <=> c \in overlapped')
         /\ crowded' = crowded
         /\ trusted' = trusted \/ (~Active(c)' /\ \E what : Complete(c, what))
<1>1. CASE \E label \in Running : \E f : Proceed(c, label, f)
  BY <1>1, WorkKinds DEF Proceed, TypeInv, TypeOK
<1>2. ASSUME \E how \in Ended : End(c, how)
      PROVE  /\ \A d \in Calls : d # c => pc'[d] = pc[d] /\ frame'[d] = frame[d]
                                          /\ (d \in overlapped <=> d \in overlapped')
             /\ ~Active(c)' /\ crowded' = crowded
  BY <1>2 DEF End, Active, TypeInv, TypeOK
<1>3. CASE \E how \in Ended : Settle(c, how)
  BY <1>2, <1>3, WorkKinds DEF Settle
<1>4. CASE \E what : Complete(c, what)
  BY <1>2, <1>4, WorkKinds DEF Complete
<1> QED BY <1>1, <1>3, <1>4, WorkKinds

LEMMA BesideStep ==
  ASSUME TypeInv, BesideInv, [Next]_vars
  PROVE  BesideInv'
<1>1. ASSUME NEW c \in Calls, NEW op, NEW label, Begin(c, op, label)
      PROVE  BesideInv'
  <2>1. \A d \in Calls : d # c => pc'[d] = pc[d]
    BY <1>1 DEF Begin, TypeInv, TypeOK
  <2>2. CASE {d \in Calls : Active(d)} = {}
    BY <2>1, <2>2 DEF BesideInv, Active
  <2>3. CASE {d \in Calls : Active(d)} # {}
    <3>1. overlapped' = overlapped \cup {d \in Calls : Active(d)} \cup {c}
      BY <1>1, <2>3 DEF Begin
    <3> QED BY <2>1, <3>1 DEF BesideInv, Active
  <2> QED BY <2>2, <2>3
<1>2. ASSUME NEW c \in Calls, Works(c) PROVE BesideInv'
  BY <1>2, WorkMoves DEF BesideInv, Active
<1>3. ASSUME NEW p \in Procs, Die(p) PROVE BesideInv'
  <2>1. \A c \in Calls : Active(c)' => Active(c)
    BY <1>3 DEF Die, Active, TypeInv, TypeOK
  <2>2. \A c \in Calls : Active(c)' /\ c \in overlapped => c \in overlapped'
    BY <1>3 DEF Die, Active, TypeInv, TypeOK
  <2> QED BY <2>1, <2>2 DEF BesideInv
<1>4. CASE UNCHANGED vars
  BY <1>4 DEF vars, BesideInv, Active
<1> QED
  BY <1>1, <1>2, <1>3, <1>4 DEF Next, Works, Install, Remove, Reload, Verify

\* A step of a call that has begun is one that writes no file, or one of three.
LEMMA WorkFiles ==
  ASSUME NEW c \in Calls, Works(c)
  PROVE  \/ UNCHANGED files
         \/ Truncate(c) \/ Fill(c) \/ Rename(c)
BY DEF Works, Step, Fetch, Extract, Clear, Erase, Move, LookToRemove, LookToVerify,
       LookToReload, Check, Load, Read, Misread, Miss, Receipt, Fail

\* While calls of one process do not overlap, a write changes the writer's own file
\* and a rename publishes it.
LEMMA FileEffects ==
  ASSUME TypeInv, FileInv, ~crowded, NEW c \in Calls, Works(c)
  PROVE  /\ ~Rename(c) => \A i \in Ids : Listing(i)' = Listing(i)
         /\ Rename(c) => \A i \in Ids : Listing(i)' = content[tmp[Home[c]]].map[i]
         /\ \A d \in Calls : d # c /\ pc[d] = "renaming" =>
              content'[tmp'[Home[d]]] = content[tmp[Home[d]]]
<1> USE HomeAssumption
<1>0. Active(c) /\ (\A d \in Calls : Active(d) /\ d # c => Home[d] # Home[c])
  BY WorkKinds DEF FileInv
<1>1. /\ \A p \in Procs : tmp[p] \in Files \cup {"none"}
      /\ \A p \in Procs : tmp[p] # "none" => tmp[p] # store
      /\ \A p, q \in Procs : tmp[p] # "none" /\ tmp[p] = tmp[q] => p = q
      /\ store \in Files \cup {"none"} /\ content \in [Files -> Contents]
      /\ tmp \in [Procs -> Files \cup {"none"}]
  BY DEF FileInv, TypeInv, TypeOK
<1>2. \A d \in Calls : pc[d] = "renaming" => Active(d) /\ tmp[Home[d]] # "none"
  BY DEF FileInv, Active
<1>3. CASE UNCHANGED files /\ ~Rename(c)
  BY <1>3 DEF files, Listing
<1>4. CASE Truncate(c)
  <2> DEFINE g == IF tmp[Home[c]] = "none" THEN c ELSE tmp[Home[c]]
  <2>1. /\ tmp' = [tmp EXCEPT ![Home[c]] = g] /\ content' = [content EXCEPT ![g] = Cut]
        /\ store' = store /\ pc[c] = "truncating"
    BY <1>4 DEF Truncate
  <2>2. g # store /\ g \in Files /\ \A p \in Procs : p # Home[c] => tmp[p] # g
    BY <1>1, <2>1 DEF FileInv, Unopened, Files
  <2> HIDE DEF g
  <2>3. ~Rename(c)
    BY <2>1 DEF Rename
  <2>4. \A i \in Ids : Listing(i)' = Listing(i)
    BY <1>1, <2>1, <2>2 DEF Listing
  <2>5. ASSUME NEW d \in Calls, d # c, pc[d] = "renaming"
        PROVE  content'[tmp'[Home[d]]] = content[tmp[Home[d]]]
    BY <1>0, <1>1, <1>2, <2>1, <2>2, <2>5
  <2> QED BY <2>3, <2>4, <2>5
<1>5. CASE Fill(c)
  <2>1. /\ pc[c] = "filling" /\ tmp' = tmp /\ store' = store
        /\ frame[c].handle = tmp[Home[c]] /\ tmp[Home[c]] # "none"
    BY <1>5 DEF Fill, FileInv
  <2>2. \A f \in Files : f # tmp[Home[c]] => content'[f] = content[f]
    BY <1>1, <1>5, <2>1 DEF Fill
  <2>3. ~Rename(c)
    BY <2>1 DEF Rename
  <2>4. \A i \in Ids : Listing(i)' = Listing(i)
    BY <1>1, <2>1, <2>2 DEF Listing
  <2>5. ASSUME NEW d \in Calls, d # c, pc[d] = "renaming"
        PROVE  content'[tmp'[Home[d]]] = content[tmp[Home[d]]]
    BY <1>0, <1>1, <1>2, <2>1, <2>2, <2>5
  <2> QED BY <2>3, <2>4, <2>5
<1>6. CASE Rename(c)
  <2>1. /\ tmp' = [tmp EXCEPT ![Home[c]] = "none"] /\ store' = tmp[Home[c]]
        /\ content' = IF store = "none" THEN content ELSE [content EXCEPT ![store] = Cut]
        /\ tmp[Home[c]] # "none"
    BY <1>6 DEF Rename
  <2>2. \A f \in Files : f # store => content'[f] = content[f]
    BY <1>1, <2>1
  <2>3. \A i \in Ids : Listing(i)' = content[tmp[Home[c]]].map[i]
    BY <1>1, <2>1, <2>2 DEF Listing
  <2>5. ASSUME NEW d \in Calls, d # c, pc[d] = "renaming"
        PROVE  content'[tmp'[Home[d]]] = content[tmp[Home[d]]]
    BY <1>0, <1>1, <1>2, <2>1, <2>2, <2>5
  <2> QED BY <1>6, <2>3, <2>5
<1> QED BY <1>3, <1>4, <1>5, <1>6, WorkFiles

\* What a call reads is what the store lists.
LEMMA ReadsListing ==
  ASSUME NEW m \in Readings, NEW i \in Ids
  PROVE  m[i] = Listing(i)
BY DEF Readings, Listing, Nothing

\* A call keeps its operation and its plugin until it ends; what it has read is what
\* the store lists, or what it had read before.
LEMMA WorkFrames ==
  ASSUME TypeInv, NEW c \in Calls, Works(c)
  PROVE  /\ Active(c)' => /\ Job(c).op = Job(c).op'
                          /\ Job(c).op # "reload" => Job(c).id = Job(c).id'
         /\ pc'[c] \in {"truncating", "filling", "loading"} =>
              \/ \A i \in Ids : frame'[c].mem[i] = Listing(i)
              \/ /\ frame'[c].mem = frame[c].mem
                 /\ pc[c] \in {"truncating", "filling", "loading"}
         /\ pc'[c] = "renaming" => Fill(c) /\ frame'[c] = frame[c]
<1> USE DEF Goto, Active, Job
<1>0. /\ Stage(pc[c], frame[c]) /\ frame[c] \in Frames
      /\ pc \in [Calls -> {"idle"} \cup Running \cup Ended] /\ frame \in [Calls -> Frames]
  BY DEF TypeInv, StageInv, TypeOK
<1>1. ASSUME NEW how \in Ended, End(c, how)
      PROVE  pc'[c] = how
  BY <1>0, <1>1 DEF End
<1>2. ASSUME NEW label, NEW f, Proceed(c, label, f)
      PROVE  pc'[c] = label /\ frame'[c] = f
  BY <1>0, <1>2 DEF Proceed
<1>3. CASE Misread(c) \/ Miss(c) \/ Fail(c) \/ Check(c) \/ Receipt(c)
  BY <1>1, <1>3 DEF Misread, Miss, Fail, Check, Receipt, Settle, Complete
<1>4. CASE Fetch(c)
  <2>1. PICK t \in Tarballs :
          \/ Proceed(c, "extracting", [frame[c] EXCEPT !.fetched = t])
          \/ Settle(c, "rejected")
    BY <1>4 DEF Fetch
  <2> DEFINE f == [frame[c] EXCEPT !.fetched = t]
  <2>2. f.job = frame[c].job
    BY <1>0 DEF Frames
  <2>3. Proceed(c, "extracting", f) \/ Settle(c, "rejected")
    BY <2>1
  <2> HIDE DEF f
  <2>4. pc'[c] = "rejected" \/ (pc'[c] = "extracting" /\ frame'[c] = f)
    BY <1>1, <1>2, <2>3 DEF Settle
  <2> QED BY <2>2, <2>4
<1>5. CASE Extract(c)
  <2> DEFINE f == [frame[c] EXCEPT !.job = Plain("install", @.id)]
  <2>1. Proceed(c, "clearing", f) \/ Settle(c, "rejected")
    BY <1>5 DEF Extract
  <2>2. f.job.op = "install" /\ f.job.id = frame[c].job.id
    BY <1>0 DEF Frames, Plain, Request
  <2>3. frame[c].job.op = "install"
    BY <1>0, <1>5 DEF Extract, Stage, OfInstall, PastGates
  <2> HIDE DEF f
  <2>4. pc'[c] = "rejected" \/ (pc'[c] = "clearing" /\ frame'[c] = f)
    BY <1>1, <1>2, <2>1 DEF Settle
  <2> QED BY <2>2, <2>3, <2>4
<1>6. CASE Clear(c)
  BY <1>2, <1>6 DEF Clear
<1>7. CASE Erase(c)
  BY <1>1, <1>2, <1>7 DEF Erase, Complete
<1>8. CASE Move(c)
  BY <1>1, <1>2, <1>8 DEF Move, Settle
<1>9. CASE LookToRemove(c)
  <2>1. PICK v : Proceed(c, "reading", [frame[c] EXCEPT !.match = v])
    BY <1>9 DEF LookToRemove
  <2> DEFINE f == [frame[c] EXCEPT !.match = v]
  <2>2. f.job = frame[c].job
    BY <1>0 DEF Frames
  <2>3. Proceed(c, "reading", f)
    BY <2>1
  <2> HIDE DEF f
  <2>4. pc'[c] = "reading" /\ frame'[c] = f
    BY <1>2, <2>3
  <2> QED BY <2>2, <2>4
<1>10. CASE LookToVerify(c)
  <2>1. PICK v : \/ Settle(c, "refuted")
                 \/ Proceed(c, "checking", [frame[c] EXCEPT !.match = v])
    BY <1>10 DEF LookToVerify
  <2> DEFINE f == [frame[c] EXCEPT !.match = v]
  <2>2. f.job = frame[c].job
    BY <1>0 DEF Frames
  <2>3. Settle(c, "refuted") \/ Proceed(c, "checking", f)
    BY <2>1
  <2> HIDE DEF f
  <2>4. pc'[c] = "refuted" \/ (pc'[c] = "checking" /\ frame'[c] = f)
    BY <1>1, <1>2, <2>3 DEF Settle
  <2> QED BY <2>2, <2>4
<1>11. CASE LookToReload(c)
  <2>1. PICK m \in Readings :
          \/ Settle(c, "answered")
          \/ Proceed(c, "loading", [frame[c] EXCEPT !.mem = m, !.todo = Listed(m)])
    BY <1>11 DEF LookToReload
  <2> DEFINE f == [frame[c] EXCEPT !.mem = m, !.todo = Listed(m)]
  <2>2. f.job = frame[c].job /\ f.mem = m
    BY <1>0 DEF Frames
  <2>3. Settle(c, "answered") \/ Proceed(c, "loading", f)
    BY <2>1
  <2> HIDE DEF f
  <2>4. pc'[c] = "answered" \/ (pc'[c] = "loading" /\ frame'[c] = f)
    BY <1>1, <1>2, <2>3 DEF Settle
  <2>5. \A i \in Ids : m[i] = Listing(i)
    BY ReadsListing
  <2> QED BY <2>2, <2>4, <2>5
<1>12. CASE Load(c)
  <2>1. PICK left :
          \/ Settle(c, "answered")
          \/ Proceed(c, "loading", [frame[c] EXCEPT !.todo = left])
    BY <1>12 DEF Load
  <2>2. /\ [frame[c] EXCEPT !.todo = left].job = frame[c].job
        /\ [frame[c] EXCEPT !.todo = left].mem = frame[c].mem
    BY <1>0 DEF Frames
  <2>3. pc[c] = "loading"
    BY <1>12 DEF Load
  <2> QED BY <1>1, <1>2, <2>1, <2>2, <2>3 DEF Settle
<1>13. CASE Read(c)
  <2>1. PICK m \in Readings :
          \/ Unlist(c)
          \/ Proceed(c, "truncating", [frame[c] EXCEPT !.mem = m])
    BY <1>13 DEF Read
  <2> DEFINE f == [frame[c] EXCEPT !.mem = m]
  <2>2. f.job = frame[c].job /\ f.mem = m
    BY <1>0 DEF Frames
  <2>3. Unlist(c) \/ Proceed(c, "truncating", f)
    BY <2>1
  <2> HIDE DEF f
  <2>4. \/ pc'[c] = "answered"
        \/ pc'[c] = "clearing" /\ frame'[c] = frame[c]
        \/ pc'[c] = "truncating" /\ frame'[c] = f
    BY <1>1, <1>2, <2>3 DEF Unlist, Complete
  <2>5. \A i \in Ids : m[i] = Listing(i)
    BY ReadsListing
  <2> QED BY <2>2, <2>4, <2>5
<1>14. CASE Truncate(c)
  <2>1. PICK g : Proceed(c, "filling", [frame[c] EXCEPT !.handle = g])
    BY <1>14 DEF Truncate
  <2> DEFINE f == [frame[c] EXCEPT !.handle = g]
  <2>2. f.job = frame[c].job /\ f.mem = frame[c].mem
    BY <1>0 DEF Frames
  <2>3. Proceed(c, "filling", f) /\ pc[c] = "truncating"
    BY <1>14, <2>1 DEF Truncate
  <2> HIDE DEF f
  <2>4. pc'[c] = "filling" /\ frame'[c] = f
    BY <1>2, <2>3
  <2> QED BY <2>2, <2>3, <2>4
<1>15. CASE Fill(c)
  BY <1>2, <1>15 DEF Fill
<1>16. CASE Rename(c)
  BY <1>1, <1>2, <1>16 DEF Rename, Unlist, Complete
<1> QED
  BY <1>3, <1>4, <1>5, <1>6, <1>7, <1>8, <1>9, <1>10, <1>11, <1>12, <1>13, <1>14, <1>15,
     <1>16 DEF Works, Step

\* When a call that has run alone completes, nobody is left at work.
LEMMA AloneEnds ==
  ASSUME TypeInv, BesideInv, NEW c \in Calls, Works(c), ~Active(c)', c \notin overlapped
  PROVE  \A d \in Calls : ~Active(d)'
<1>1. \A d \in Calls : d # c => ~Active(d) /\ pc'[d] = pc[d]
  BY WorkMoves DEF BesideInv
<1> QED BY <1>1 DEF Active

LEMMA TrustStep ==
  ASSUME TypeInv, FileInv, BesideInv, TrustInv, [Next]_vars
  PROVE  TrustInv'
<1> USE HomeAssumption
<1>1. ASSUME NEW c \in Calls, NEW op, NEW label, Begin(c, op, label),
             label \in {"fetching", "looking"}
      PROVE  TrustInv'
  <2>1. PICK j \in Jobs :
          /\ j.op = op
          /\ frame' = [frame EXCEPT ![c] = [Blank EXCEPT !.job = j]]
          /\ trusted' = [i \in Ids |->
               IF (\E d \in {d \in Calls : Active(d)} : Home[d] = Home[c])
                  \/ (op \in {"install", "remove"} /\ i = j.id)
               THEN Unknown ELSE trusted[i]]
    BY <1>1 DEF Begin
  <2> SUFFICES ASSUME NEW i \in Ids, Settled(i)'
               PROVE  /\ ~crowded'
                      /\ \A d \in Calls : Active(d)' => ~Changes(d, i)'
                      /\ \A d \in Calls : pc'[d] \in {"truncating", "filling", "loading"} =>
                           frame'[d].mem[i] = Listing(i)'
                      /\ \A d \in Calls : pc'[d] = "renaming" =>
                           content'[tmp'[Home[d]]].map[i] = Listing(i)'
    BY DEF TrustInv
  <2>2. /\ Settled(i) /\ (op \in {"install", "remove"} => i # j.id)
        /\ ~\E d \in {d \in Calls : Active(d)} : Home[d] = Home[c]
    BY <2>1 DEF Settled
  <2>3. ~crowded'
    BY <1>1, <2>2 DEF Begin, TrustInv
  <2>4. /\ \A d \in Calls : d # c => pc'[d] = pc[d] /\ frame'[d] = frame[d]
        /\ pc'[c] = label /\ frame'[c].job = j
    BY <1>1, <2>1, BlankFacts DEF Begin, TypeInv, TypeOK
  <2>5. \A d \in Calls : Active(d)' => ~Changes(d, i)'
    BY <2>1, <2>2, <2>4 DEF TrustInv, Active, Changes, Job
  <2>6. Listing(i)' = Listing(i) /\ content' = content /\ tmp' = tmp
    BY <1>1 DEF Begin, files, Listing
  <2>7. \A d \in Calls : pc'[d] \in {"truncating", "filling", "loading"} =>
          frame'[d].mem[i] = Listing(i)'
    BY <1>1, <2>2, <2>4, <2>6 DEF TrustInv
  <2>8. \A d \in Calls : pc'[d] = "renaming" =>
          content'[tmp'[Home[d]]].map[i] = Listing(i)'
    BY <1>1, <2>2, <2>4, <2>6 DEF TrustInv
  <2> QED BY <2>3, <2>5, <2>7, <2>8
<1>2. ASSUME NEW c \in Calls, Works(c) PROVE TrustInv'
  <2> SUFFICES ASSUME NEW i \in Ids, Settled(i)'
               PROVE  /\ ~crowded'
                      /\ \A d \in Calls : Active(d)' => ~Changes(d, i)'
                      /\ \A d \in Calls : pc'[d] \in {"truncating", "filling", "loading"} =>
                           frame'[d].mem[i] = Listing(i)'
                      /\ \A d \in Calls : pc'[d] = "renaming" =>
                           content'[tmp'[Home[d]]].map[i] = Listing(i)'
    BY DEF TrustInv
  <2>0. /\ Active(c) /\ crowded' = crowded
        /\ \A d \in Calls : d # c => pc'[d] = pc[d] /\ frame'[d] = frame[d]
    BY <1>2, WorkMoves
  <2>1. CASE ~Settled(i)
    <3>1. PICK what : ~Active(c)' /\ Complete(c, what)
      BY <1>2, <2>1, WorkMoves DEF Settled
    <3>2. c \notin overlapped /\ ~crowded
      BY <2>1, <3>1 DEF Complete, Settled, TypeInv, TypeOK
    <3>3. \A d \in Calls : ~Active(d)'
      BY <1>2, <3>1, <3>2, AloneEnds
    <3> QED BY <2>0, <3>2, <3>3 DEF Active
  <2>2. CASE Settled(i)
    <3>1. ~crowded /\ ~crowded'
      BY <2>0, <2>2 DEF TrustInv
    <3>2. /\ Active(c)' => /\ Job(c).op = Job(c).op'
                           /\ Job(c).op # "reload" => Job(c).id = Job(c).id'
          /\ pc'[c] \in {"truncating", "filling", "loading"} =>
               \/ frame'[c].mem[i] = Listing(i)
               \/ /\ frame'[c].mem = frame[c].mem
                  /\ pc[c] \in {"truncating", "filling", "loading"}
          /\ pc'[c] = "renaming" => Fill(c) /\ frame'[c] = frame[c]
      BY <1>2, WorkFrames
    <3>3. Listing(i)' = Listing(i)
      BY <1>2, <2>2, <3>1, FileEffects DEF TrustInv, Rename
    <3>4. \A d \in Calls : Active(d)' => ~Changes(d, i)'
      <4>1. \A d \in Calls : Active(d) => ~Changes(d, i)
        BY <2>2 DEF TrustInv
      <4>2. Active(c)' => ~Changes(c, i)'
        BY <2>0, <3>2, <4>1 DEF Changes, Job
      <4>3. ASSUME NEW d \in Calls, d # c, Active(d)' PROVE ~Changes(d, i)'
        BY <2>0, <4>1, <4>3 DEF Active, Changes, Job
      <4> QED BY <4>2, <4>3
    <3>5. \A d \in Calls : pc'[d] \in {"truncating", "filling", "loading"} =>
            frame'[d].mem[i] = Listing(i)'
      BY <2>0, <2>2, <3>2, <3>3 DEF TrustInv
    <3>6. ASSUME NEW d \in Calls, pc'[d] = "renaming"
          PROVE  content'[tmp'[Home[d]]].map[i] = Listing(i)'
      <4>1. CASE d # c
        BY <1>2, <2>0, <2>2, <3>1, <3>3, <3>6, <4>1, FileEffects DEF TrustInv
      <4>2. CASE d = c
        <5>1. /\ Fill(c) /\ pc[c] = "filling" /\ tmp' = tmp
              /\ frame[c].handle = tmp[Home[c]] /\ tmp[Home[c]] # "none"
              /\ content[tmp[Home[c]]] = Cut
          BY <3>1, <3>2, <3>6, <4>2 DEF Fill, FileInv
        <5>2. content'[tmp[Home[c]]] = Whole(Updated(c))
          BY <5>1 DEF Fill, TypeInv, TypeOK
        <5>3. Job(c).op \in {"install", "remove"} /\ frame[c].mem \in Maps
          BY <5>1 DEF TypeInv, TypeOK, StageInv, Stage, OfChange, Job, Frames
        <5>4. Job(c).id # i
          BY <2>0, <2>2, <5>3 DEF TrustInv, Changes
        <5>5. Updated(c)[i] = frame[c].mem[i]
          BY <5>3, <5>4 DEF Updated, Maps
        <5>6. frame[c].mem[i] = Listing(i)
          BY <2>2, <5>1 DEF TrustInv
        <5> QED BY <3>3, <4>2, <5>1, <5>2, <5>5, <5>6 DEF Whole
      <4> QED BY <4>1, <4>2
    <3> QED BY <3>1, <3>4, <3>5, <3>6
  <2> QED BY <2>1, <2>2
<1>3. ASSUME NEW p \in Procs, Die(p) PROVE TrustInv'
  <2>1. /\ UNCHANGED <<store, tmp, content, trusted, crowded>>
        /\ \A c \in Calls : \/ pc'[c] = pc[c] /\ frame'[c] = frame[c]
                            \/ pc'[c] = "dead"
    BY <1>3 DEF Die, files, history, TypeInv, TypeOK
  <2> QED BY <2>1 DEF TrustInv, Settled, Active, Changes, Job, Listing
<1>4. CASE UNCHANGED vars
  BY <1>4 DEF vars, files, history, TrustInv, Settled, Active, Changes, Job, Listing
<1> QED
  BY <1>1, <1>2, <1>3, <1>4 DEF Next, Works, Install, Remove, Reload, Verify

\* A call at none of these labels has nothing done that could be undone.
LEMMA NothingDone ==
  ASSUME NEW c \in Calls,
         pc[c] \notin {"reading", "truncating", "filling", "renaming", "receipting",
                       "clearing", "erasing"}
  PROVE  DoneAlone(c)
BY DEF DoneAlone

\* The local variables a call proceeds with, but for one that was read or opened.
LEMMA ProceedFrame ==
  ASSUME TypeInv, NEW c \in Calls, NEW label, NEW f, Proceed(c, label, f)
  PROVE  pc'[c] = label /\ frame'[c] = f
BY DEF Proceed, TypeInv, TypeOK

LEMMA EndFrame ==
  ASSUME TypeInv, NEW c \in Calls, NEW how, End(c, how)
  PROVE  pc'[c] = how
BY DEF End, TypeInv, TypeOK

\* What an install has put in its directory stays while it goes on to record it.
LEMMA InstallGoesOn ==
  ASSUME NEW c \in Calls, DoneAlone(c), UNCHANGED dirs,
         pc[c] \in {"reading", "truncating", "filling"},
         pc'[c] \in {"truncating", "filling", "renaming"},
         frame'[c].job = frame[c].job, frame'[c].fetched = frame[c].fetched
  PROVE  DoneAlone(c)'
<1> USE DEF Job, Fetched
<1>1. Job(c)' = Job(c) /\ Fetched(c)' = Fetched(c)
  OBVIOUS
<1>2. Job(c).op = "install" => Dir(c)' = Dir(c)
  BY <1>1 DEF Dir
<1> QED BY <1>1, <1>2 DEF DoneAlone

\* The entry and the contribution are gone when a remove turns to the directory.
LEMMA UnlistDone ==
  ASSUME TypeInv, NEW c \in Calls, Unlist(c), NEW i \in Ids, Job(c).op = "remove",
         Job(c).id = i, Listing(i)' = NoEntry
  PROVE  DoneAlone(c)'
<1>1. CASE Goto(c, "clearing")
  <2>1. pc'[c] = "clearing" /\ frame'[c] = frame[c]
    BY <1>1, ProceedFrame DEF Goto
  <2>2. registry'[Home[c]][i] = NoPackage
    BY HomeAssumption DEF Unlist, TypeInv, TypeOK
  <2>3. Job(c)' = Job(c)
    BY <2>1 DEF Job
  <2>4. Listing(Job(c).id)' = NoEntry
    BY <2>3 DEF Listing
  <2> QED BY <2>1, <2>2, <2>3, <2>4 DEF DoneAlone
<1>2. CASE Complete(c, Removed("none"))
  BY <1>2, EndFrame DEF Complete, DoneAlone
<1> QED BY <1>1, <1>2 DEF Unlist

LEMMA DoneAloneStep ==
  ASSUME TypeInv, FileInv, ~crowded, Recording, NEW c \in Calls, Works(c), DoneAlone(c)
  PROVE  DoneAlone(c)'
<1> USE HomeAssumption DEF Goto, Active
<1>0. /\ Stage(pc[c], frame[c]) /\ frame[c] \in Frames
      /\ dirs \in [Dirs -> Tarballs \cup {NoPackage, Broken}]
      /\ registry \in [Procs -> [Ids -> Tarballs \cup {NoPackage}]]
  BY DEF TypeInv, StageInv, TypeOK
<1>1. CASE Misread(c) \/ Miss(c) \/ Fail(c) \/ Check(c) \/ Receipt(c)
  <2>1. PICK how \in Ended : End(c, how)
    BY <1>1 DEF Misread, Miss, Fail, Check, Receipt, Settle, Complete
  <2> QED BY <2>1, EndFrame DEF DoneAlone
<1>2. CASE Fetch(c) \/ LookToVerify(c) \/ LookToReload(c) \/ Load(c)
  <2>1. \/ \E how \in Ended : End(c, how)
        \/ \E label \in {"extracting", "checking", "loading"} : \E f : Proceed(c, label, f)
    BY <1>2 DEF Fetch, LookToVerify, LookToReload, Load, Settle
  <2>2. pc'[c] \in Ended \cup {"extracting", "checking", "loading"}
    BY <2>1, EndFrame, ProceedFrame
  <2> QED BY <2>2 DEF DoneAlone
<1>3. CASE Extract(c)
  <2> DEFINE f == [frame[c] EXCEPT !.job = Plain("install", @.id)]
  <2>1. Proceed(c, "clearing", f) \/ End(c, "rejected")
    BY <1>3 DEF Extract, Settle
  <2>2. f.job.op = "install"
    BY <1>0 DEF Frames, Plain, Request
  <2> HIDE DEF f
  <2>3. pc'[c] = "rejected" \/ (pc'[c] = "clearing" /\ frame'[c] = f)
    BY <2>1, EndFrame, ProceedFrame
  <2> QED BY <2>2, <2>3 DEF DoneAlone, Job
<1>4. CASE Clear(c)
  <2>1. pc'[c] = "erasing" /\ frame'[c] = frame[c]
    BY <1>4, ProceedFrame DEF Clear
  <2>2. pc[c] = "clearing" /\ UNCHANGED <<files, registry>>
    BY <1>4 DEF Clear
  <2> QED BY <2>1, <2>2 DEF DoneAlone, Job, Listing, files
<1>5. CASE Erase(c)
  <2>1. pc'[c] \in {"moving", "answered"}
    BY <1>5, ProceedFrame, EndFrame DEF Erase, Complete
  <2> QED BY <2>1 DEF DoneAlone
<1>6. CASE Move(c)
  <2>1. CASE Goto(c, "reading")
    <3>1. pc'[c] = "reading" /\ frame'[c] = frame[c]
      BY <2>1, ProceedFrame
    <3>2. Dir(c) \in Dirs
      BY <1>6, DirFacts DEF Move
    <3>3. pc[c] = "moving" /\ dirs' = [dirs EXCEPT ![Dir(c)] = Fetched(c)]
      BY <1>6, <2>1, <3>1, EndFrame DEF Move, Settle
    <3>4. Dir(c)' = Dir(c) /\ Fetched(c)' = Fetched(c)
      BY <3>1 DEF Dir, Job, Fetched, Match
    <3> QED BY <1>0, <3>1, <3>2, <3>3, <3>4 DEF DoneAlone
  <2>2. CASE Settle(c, "rejected")
    BY <2>2, EndFrame DEF Settle, DoneAlone
  <2> QED BY <1>6, <2>1, <2>2 DEF Move
<1>7. CASE LookToRemove(c)
  <2>1. PICK v : Proceed(c, "reading", [frame[c] EXCEPT !.match = v])
    BY <1>7 DEF LookToRemove
  <2> DEFINE f == [frame[c] EXCEPT !.match = v]
  <2>2. f.job = frame[c].job /\ frame[c].job.op = "remove"
    BY <1>0, <1>7 DEF Frames, LookToRemove, Job
  <2>3. Proceed(c, "reading", f)
    BY <2>1
  <2> HIDE DEF f
  <2>4. pc'[c] = "reading" /\ frame'[c] = f
    BY <2>3, ProceedFrame
  <2> QED BY <2>2, <2>4 DEF DoneAlone, Job
<1>8. CASE Read(c)
  <2>1. PICK m \in Readings :
          \/ Job(c).op = "remove" /\ m[Job(c).id] = NoEntry /\ Unlist(c)
          \/ Proceed(c, "truncating", [frame[c] EXCEPT !.mem = m])
    BY <1>8 DEF Read
  <2>2. CASE Job(c).op = "remove" /\ m[Job(c).id] = NoEntry /\ Unlist(c)
    <3>1. PICK i \in Ids : i = Job(c).id
      BY <1>0, <1>8, <2>2, JobFacts DEF Read, Stage, Job
    <3>2. Listing(i) = NoEntry
      BY <2>2, <3>1, ReadsListing
    <3>3. Listing(i)' = NoEntry
      BY <1>8, <3>2 DEF Read, Listing, files
    <3> QED BY <2>2, <3>1, <3>3, UnlistDone
  <2>3. CASE Proceed(c, "truncating", [frame[c] EXCEPT !.mem = m])
    <3> DEFINE f == [frame[c] EXCEPT !.mem = m]
    <3>1. f.job = frame[c].job /\ f.fetched = frame[c].fetched
      BY <1>0 DEF Frames
    <3>2. Proceed(c, "truncating", f)
      BY <2>3
    <3> HIDE DEF f
    <3>3. pc'[c] = "truncating" /\ frame'[c] = f
      BY <3>2, ProceedFrame
    <3> QED BY <1>8, <3>1, <3>3, InstallGoesOn DEF Read
  <2> QED BY <2>1, <2>2, <2>3
<1>9. CASE Truncate(c)
  <2>1. PICK g : Proceed(c, "filling", [frame[c] EXCEPT !.handle = g])
    BY <1>9 DEF Truncate
  <2> DEFINE f == [frame[c] EXCEPT !.handle = g]
  <2>2. f.job = frame[c].job /\ f.fetched = frame[c].fetched
    BY <1>0 DEF Frames
  <2>3. Proceed(c, "filling", f)
    BY <2>1
  <2> HIDE DEF f
  <2>4. pc'[c] = "filling" /\ frame'[c] = f
    BY <2>3, ProceedFrame
  <2> QED BY <1>9, <2>2, <2>4, InstallGoesOn DEF Truncate
<1>10. CASE Fill(c)
  <2>1. pc'[c] = "renaming" /\ frame'[c] = frame[c]
    BY <1>10, ProceedFrame DEF Fill
  <2> QED BY <1>10, <2>1, InstallGoesOn DEF Fill
<1>11. CASE Rename(c)
  <2>1. /\ Job(c).op \in {"install", "remove"} /\ Job(c).id \in Ids
        /\ pc[c] = "renaming" /\ frame[c].mem \in Maps
    BY <1>0, <1>11, JobFacts DEF Rename, Stage, OfChange, Job, Frames
  <2> PICK i \in Ids : i = Job(c).id
    BY <2>1
  <2>2. Listing(i)' = content[tmp[Home[c]]].map[i]
    BY <1>11, <2>1, FileEffects
  <2>3. content[tmp[Home[c]]].map[i] = Updated(c)[i]
    BY <2>1 DEF Recording
  <2>4. Updated(c)[i] = IF Job(c).op = "install" THEN Recorded(Fetched(c)) ELSE NoEntry
    BY <2>1 DEF Updated, Maps
  <2>5. CASE Job(c).op = "install"
    <3>1. /\ registry' = [registry EXCEPT ![Home[c]][i] = Fetched(c)]
          /\ Goto(c, "receipting") /\ UNCHANGED dirs
      BY <1>11, <2>5 DEF Rename
    <3>2. pc'[c] = "receipting" /\ frame'[c] = frame[c]
      BY <3>1, ProceedFrame
    <3>3. registry'[Home[c]][i] = Fetched(c)
      BY <1>0, <2>1, <3>1
    <3>4. /\ Job(c)' = Job(c) /\ Fetched(c)' = Fetched(c) /\ Dir(c)' = Dir(c)
          /\ Listing(Job(c).id)' = Listing(i)'
      BY <3>2 DEF Dir, Job, Fetched, Match, Listing
    <3>5. dirs'[Dir(c)] = Fetched(c)
      BY <2>1, <2>5, <3>1 DEF DoneAlone
    <3> QED BY <2>2, <2>3, <2>4, <2>5, <3>2, <3>3, <3>4, <3>5 DEF DoneAlone
  <2>6. CASE Job(c).op = "remove"
    <3>1. Unlist(c)
      BY <1>11, <2>6 DEF Rename
    <3>2. Listing(i)' = NoEntry
      BY <2>2, <2>3, <2>4, <2>6
    <3> QED BY <2>1, <2>6, <3>1, <3>2, UnlistDone
  <2> QED BY <2>1, <2>5, <2>6
<1> QED
  BY <1>1, <1>2, <1>3, <1>4, <1>5, <1>6, <1>7, <1>8, <1>9, <1>10, <1>11 DEF Works, Step

LEMMA DoneStep ==
  ASSUME TypeInv, FileInv, BesideInv, DoneInv, [Next]_vars
  PROVE  DoneInv'
<1> USE HomeAssumption
<1>1. ASSUME NEW c \in Calls, NEW op, NEW label, Begin(c, op, label),
             label \in {"fetching", "looking"}
      PROVE  DoneInv'
  <2> SUFFICES ASSUME ~crowded'
               PROVE  Recording' /\ \A d \in Calls : d \notin overlapped' => DoneAlone(d)'
    BY DEF DoneInv
  <2>1. /\ \A d \in Calls : d # c => pc'[d] = pc[d] /\ frame'[d] = frame[d]
        /\ pc'[c] = label /\ ~crowded
        /\ UNCHANGED <<store, tmp, content, dirs, registry>>
    BY <1>1 DEF Begin, TypeInv, TypeOK, files
  <2>2. Recording'
    BY <1>1, <2>1 DEF DoneInv, Recording, Updated, Job, Fetched
  <2>3. ASSUME NEW d \in Calls, d \notin overlapped' PROVE DoneAlone(d)'
    <3>1. CASE d = c
      BY <1>1, <2>1, <3>1 DEF DoneAlone
    <3>2. CASE d # c /\ Active(d)
      BY <1>1, <2>3, <3>2 DEF Begin
    <3>3. CASE d # c /\ ~Active(d)
      BY <2>1, <3>3 DEF DoneAlone, Active
    <3> QED BY <3>1, <3>2, <3>3
  <2> QED BY <2>2, <2>3
<1>2. ASSUME NEW c \in Calls, Works(c) PROVE DoneInv'
  <2> SUFFICES ASSUME ~crowded'
               PROVE  Recording' /\ \A d \in Calls : d \notin overlapped' => DoneAlone(d)'
    BY DEF DoneInv
  <2>1. /\ ~crowded /\ Active(c)
        /\ \A d \in Calls : d # c => pc'[d] = pc[d] /\ frame'[d] = frame[d]
                                     /\ (d \in overlapped <=> d \in overlapped')
        /\ Active(c)' => (c \in overlapped <=> c \in overlapped')
    BY <1>2, WorkMoves
  <2>2. ASSUME NEW d \in Calls, pc'[d] = "renaming"
        PROVE  (content[tmp[Home[d]]].map[Job(d).id] = Updated(d)[Job(d).id])'
    <3>1. CASE d # c
      <4>1. content[tmp[Home[d]]].map[Job(d).id] = Updated(d)[Job(d).id]
        BY <2>1, <2>2, <3>1 DEF DoneInv, Recording
      <4>2. content'[tmp'[Home[d]]] = content[tmp[Home[d]]] /\ frame'[d] = frame[d]
        BY <1>2, <2>1, <2>2, <3>1, FileEffects
      <4> QED BY <4>1, <4>2 DEF Updated, Job, Fetched
    <3>2. CASE d = c
      <4>1. Fill(c) /\ frame'[c] = frame[c]
        BY <1>2, <2>2, <3>2, WorkFrames
      <4>2. /\ tmp' = tmp /\ content'[tmp[Home[c]]] = Whole(Updated(c))
        BY <2>1, <4>1 DEF Fill, FileInv, TypeInv, TypeOK
      <4> QED BY <3>2, <4>1, <4>2 DEF Whole, Updated, Job, Fetched
    <3> QED BY <3>1, <3>2
  <2>3. ASSUME NEW d \in Calls, d \notin overlapped' PROVE DoneAlone(d)'
    <3>1. CASE d = c /\ Active(c)'
      BY <1>2, <2>1, <2>3, <3>1, DoneAloneStep DEF DoneInv
    <3>2. CASE d = c /\ ~Active(c)'
      BY <3>2 DEF DoneAlone, Active
    <3>3. CASE d # c
      <4>1. ~Active(d)
        BY <2>1, <2>3, <3>3 DEF BesideInv
      <4> QED BY <2>1, <3>3, <4>1 DEF DoneAlone, Active
    <3> QED BY <3>1, <3>2, <3>3
  <2> QED BY <2>2, <2>3 DEF Recording
<1>3. ASSUME NEW p \in Procs, Die(p) PROVE DoneInv'
  <2> SUFFICES ASSUME ~crowded'
               PROVE  Recording' /\ \A d \in Calls : d \notin overlapped' => DoneAlone(d)'
    BY DEF DoneInv
  <2>1. /\ UNCHANGED <<store, tmp, content, dirs, crowded>>
        /\ \A c \in Calls :
             \/ /\ pc'[c] = pc[c] /\ frame'[c] = frame[c]
                /\ c \in overlapped <=> c \in overlapped'
                /\ Home[c] # p \/ ~Active(c)
             \/ pc'[c] = "dead"
        /\ \A q \in Procs : q # p => registry'[q] = registry[q]
    BY <1>3 DEF Die, files, TypeInv, TypeOK, Active
  <2>2. Recording'
    BY <2>1 DEF DoneInv, Recording, Updated, Job, Fetched
  <2>3. ASSUME NEW d \in Calls, d \notin overlapped' PROVE DoneAlone(d)'
    <3>1. CASE pc'[d] = "dead"
      BY <3>1 DEF DoneAlone
    <3>2. CASE pc'[d] # "dead" /\ ~Active(d)
      BY <2>1, <3>2 DEF DoneAlone, Active
    <3>3. CASE pc'[d] # "dead" /\ Active(d)
      <4>1. /\ pc'[d] = pc[d] /\ frame'[d] = frame[d] /\ d \notin overlapped
            /\ registry'[Home[d]] = registry[Home[d]] /\ store' = store /\ dirs' = dirs
            /\ content' = content
        BY <2>1, <2>3, <3>3
      <4>2. DoneAlone(d)
        BY <2>1, <4>1 DEF DoneInv
      <4> QED BY <4>1, <4>2 DEF DoneAlone, Listing, Job, Fetched, Dir, Match
    <3> QED BY <3>1, <3>2, <3>3
  <2> QED BY <2>2, <2>3
<1>4. CASE UNCHANGED vars
  BY <1>4 DEF vars, files, DoneInv, Recording, DoneAlone, Updated, Listing, Job, Fetched,
              Dir, Match
<1> QED
  BY <1>1, <1>2, <1>3, <1>4 DEF Next, Works, Install, Remove, Reload, Verify

\* Different plugins have different directories.
SlugsApart == \A i, j \in Ids : Slug[i] = Slug[j] => i = j

Kept(i) ==
  LET t == trusted[i].package
      loaded == IF trusted[i].by = "none" THEN NoPackage ELSE registry[trusted[i].by][i]
  IN  /\ t \in Tarballs =>
           Listing(i) = Recorded(t) /\ dirs[<<Slug[i], t.version>>] = t
           /\ loaded \in {t, NoPackage}
      /\ t \in Removals =>
           Listing(i) = NoEntry /\ loaded = NoPackage
           /\ (t.version # "none" => dirs[<<Slug[i], t.version>>] = NoPackage)

LEMMA UndisturbedKept == Undisturbed <=> \A i \in Ids : Kept(i)
BY DEF Undisturbed, Kept, Listing

LEMMA UnknownKept ==
  ASSUME NEW i, ~Settled(i)
  PROVE  Kept(i)
<1>1. Unknown.package = Bare("unknown") /\ Bare("unknown").name = "none"
  BY DEF Unknown, Trust, Bare
<1>2. Bare("unknown") \notin Tarballs
  BY <1>1, TarballFacts
<1>3. Bare("unknown") \notin Removals
  <2> SUFFICES ASSUME NEW v, Bare("unknown") = Removed(v) PROVE FALSE
    BY DEF Removals
  <2>1. Bare("unknown").hash = "unknown" /\ Removed(v).hash = "removed"
    BY DEF Bare, Removed
  <2> QED BY <2>1
<1> QED BY <1>1, <1>2, <1>3 DEF Kept, Settled

\* The directories of a plugin are changed by calls about it only ...
LEMMA OthersDirs ==
  ASSUME TypeInv, GateInv, SlugsApart, NEW c \in Calls, Works(c), NEW i \in Ids,
         ~Changes(c, i), NEW v \in Versions
  PROVE  dirs'[<<Slug[i], v>>] = dirs[<<Slug[i], v>>]
<1>1. CASE UNCHANGED dirs
  BY <1>1
<1>2. CASE pc[c] \in {"clearing", "erasing", "moving", "receipting"}
  <2>1. Stage(pc[c], frame[c]) /\ Gated(pc[c], frame[c], admitted)
    BY DEF TypeInv, StageInv, GateInv
  <2>2. Job(c).op \in {"install", "remove"} /\ Job(c).id \in Ids
    BY <1>2, <2>1, JobFacts DEF Stage, OfChange, OfInstall, Job
  <2>3. Job(c).op = "install" => Fetched(c).name = Job(c).id
    BY <1>2, <2>1 DEF Gated, PastGates, OfChange, Job, Fetched
  <2>4. Slug[Job(c).id] # Slug[i]
    BY <2>2 DEF SlugsApart, Changes
  <2>5. Dir(c) # <<Slug[i], v>>
    BY <2>2, <2>3, <2>4 DEF Dir
  <2>6. \E what : dirs' = dirs \/ dirs' = [dirs EXCEPT ![Dir(c)] = what]
    BY <1>2 DEF Works, Step, Fetch, Extract, Clear, Erase, Move, LookToRemove, LookToVerify,
       LookToReload, Check, Load, Read, Misread, Truncate, Fill, Rename, Miss, Receipt, Fail
  <2>7. dirs \in [Dirs -> Tarballs \cup {NoPackage, Broken}]
    BY DEF TypeInv, TypeOK
  <2>8. <<Slug[i], v>> \in Dirs
    BY TarballFacts
  <2> QED BY <2>5, <2>6, <2>7, <2>8
<1> QED
  BY <1>1, <1>2 DEF Works, Step, Fetch, Extract, Clear, Erase, Move, LookToRemove, LookToVerify,
       LookToReload, Check, Load, Read, Misread, Truncate, Fill, Rename, Miss, Receipt, Fail

\* ... and so are its contributions, but for reload, which loads what is listed.
LEMMA OthersRegistry ==
  ASSUME TypeInv, TrustInv, NEW c \in Calls, Works(c), NEW i \in Ids,
         ~Changes(c, i), Settled(i), NEW p \in Procs
  PROVE  \/ registry'[p][i] \in {registry[p][i], NoPackage}
         \/ Listing(i) # NoEntry /\ registry'[p][i] = dirs[<<Slug[i], Listing(i).version>>]
<1> USE HomeAssumption
<1>0. /\ registry \in [Procs -> [Ids -> Tarballs \cup {NoPackage}]]
      /\ Stage(pc[c], frame[c])
  BY DEF TypeInv, StageInv, TypeOK
<1>1. CASE UNCHANGED registry
  BY <1>1
<1>2. CASE Load(c)
  <2>1. PICK k \in frame[c].todo :
          \/ registry' = [registry EXCEPT ![Home[c]][k] =
                            dirs[<<Slug[k], frame[c].mem[k].version>>]]
          \/ UNCHANGED registry
    BY <1>2 DEF Load
  <2>2. pc[c] = "loading" /\ k \in Listed(frame[c].mem)
    BY <1>0, <1>2 DEF Load, Stage
  <2>3. frame[c].mem[i] = Listing(i) /\ frame[c].mem[k] # NoEntry /\ k \in Ids
    BY <2>2 DEF TrustInv, Listed
  <2>4. CASE k = i
    <3>1. CASE UNCHANGED registry
      BY <3>1
    <3>2. CASE registry' = [registry EXCEPT ![Home[c]][i] =
                              dirs[<<Slug[i], Listing(i).version>>]]
      <4>1. CASE p = Home[c]
        BY <1>0, <2>3, <2>4, <3>2, <4>1
      <4>2. CASE p # Home[c]
        BY <1>0, <3>2, <4>2
      <4> QED BY <4>1, <4>2
    <3> QED BY <2>1, <2>3, <2>4, <3>1, <3>2
  <2>5. CASE k # i
    BY <1>0, <2>1, <2>3, <2>5
  <2> QED BY <2>4, <2>5
<1>3. CASE LookToReload(c)
  BY <1>0, <1>3 DEF LookToReload
<1>4. CASE Read(c) \/ Rename(c)
  <2>1. \/ UNCHANGED registry
        \/ \E what : /\ registry' = [registry EXCEPT ![Home[c]][Job(c).id] = what]
                     /\ Job(c).op \in {"install", "remove"}
    BY <1>4 DEF Read, Rename, Unlist
  <2>2. CASE UNCHANGED registry
    BY <2>2
  <2>3. CASE \E what : /\ registry' = [registry EXCEPT ![Home[c]][Job(c).id] = what]
                       /\ Job(c).op \in {"install", "remove"}
    <3>1. Job(c).id # i
      BY <2>3 DEF Changes
    <3> QED BY <1>0, <2>3, <3>1
  <2> QED BY <2>1, <2>2, <2>3
<1> QED
  BY <1>1, <1>2, <1>3, <1>4 DEF Works, Step, Fetch, Extract, Clear, Erase, Move, LookToRemove,
     LookToVerify, Check, Misread, Truncate, Fill, Miss, Receipt, Fail

LEMMA SettledListing ==
  ASSUME TypeInv, FileInv, TrustInv, NEW c \in Calls, Works(c), NEW i \in Ids, Settled(i)
  PROVE  Listing(i)' = Listing(i)
<1>1. ~crowded /\ (pc[c] = "renaming" => content[tmp[Home[c]]].map[i] = Listing(i))
  BY DEF TrustInv
<1>2. CASE Rename(c)
  BY <1>1, <1>2, FileEffects DEF Rename
<1>3. CASE ~Rename(c)
  BY <1>1, <1>3, FileEffects
<1> QED BY <1>2, <1>3

\* What is known of a plugin does not change while others are worked on ...
LEMMA OthersKept ==
  ASSUME TypeInv, GateInv, FileInv, TrustInv, SlugsApart, NEW c \in Calls, Works(c),
         NEW i \in Ids, Settled(i), Kept(i), trusted'[i] = trusted[i]
  PROVE  Kept(i)'
<1> DEFINE t == trusted[i].package
           loaded == IF trusted[i].by = "none" THEN NoPackage
                     ELSE registry[trusted[i].by][i]
<1>1. ~crowded /\ ~Changes(c, i)
  BY WorkKinds DEF TrustInv
<1>2. Listing(i)' = Listing(i)
  BY SettledListing
<1>3. \A v \in Versions : dirs'[<<Slug[i], v>>] = dirs[<<Slug[i], v>>]
  BY <1>1, OthersDirs
<1>4. trusted[i] \in Trusts
  BY DEF TypeInv, TypeOK
<1>5. trusted[i].by \in Procs \cup {"none"}
  BY <1>4 DEF Trusts
<1>6. \/ loaded' \in {loaded, NoPackage}
      \/ Listing(i) # NoEntry /\ loaded' = dirs[<<Slug[i], Listing(i).version>>]
  BY <1>1, <1>5, OthersRegistry
<1>7. t \in Tarballs => t.version \in Versions /\ Recorded(t).version = t.version
  BY TarballFacts DEF Recorded
<1>8. t \in Removals /\ t.version # "none" => t.version \in Versions
  BY DEF Removals, Removed, Bare
<1>9. t' = t
  OBVIOUS
<1>10. t \in Tarballs => Listing(i)' = Recorded(t) /\ dirs'[<<Slug[i], t.version>>] = t
                         /\ loaded' \in {t, NoPackage}
  BY <1>2, <1>3, <1>6, <1>7 DEF Kept
<1>11. t \in Removals => Listing(i)' = NoEntry /\ loaded' = NoPackage
                         /\ (t.version # "none" => dirs'[<<Slug[i], t.version>>] = NoPackage)
  BY <1>2, <1>3, <1>6, <1>8 DEF Kept
<1> QED BY <1>9, <1>10, <1>11 DEF Kept

LEMMA Completed ==
  ASSUME TypeInv, NEW c \in Calls, NEW what, Complete(c, what), NEW i \in Ids,
         trusted'[i] # trusted[i], Settled(i)'
  PROVE  /\ i = Job(c).id /\ c \notin overlapped /\ ~crowded
         /\ trusted'[i].package = what /\ trusted'[i].by = Home[c]
<1>1. /\ i = Job(c).id /\ c \notin overlapped /\ ~crowded
      /\ trusted'[i] = Trust(what, Home[c])
  BY DEF Complete, Settled, TypeInv, TypeOK
<1> QED BY <1>1 DEF Trust

\* A removal that is done: nothing is listed, contributed or in the directory.
LEMMA RemovedKept ==
  ASSUME NEW i, NEW v, trusted'[i].package = Removed(v), Listing(i)' = NoEntry,
         registry'[trusted'[i].by][i] = NoPackage,
         v # "none" => dirs'[<<Slug[i], v>>] = NoPackage
  PROVE  Kept(i)'
<1>1. Removed(v).name = "none" /\ Removed(v).version = v
  BY DEF Removed, Bare
<1>2. Removed(v) \notin Tarballs
  BY <1>1, TarballFacts
<1> QED BY <1>1, <1>2 DEF Kept

\* ... and what a call leaves that ran alone is as it was asked to be.
LEMMA AloneKept ==
  ASSUME TypeInv, GateInv, FileInv, DoneInv, NEW c \in Calls, Works(c),
         NEW i \in Ids, trusted'[i] # trusted[i], Settled(i)'
  PROVE  Kept(i)'
<1> USE HomeAssumption
<1>0. /\ Stage(pc[c], frame[c]) /\ Gated(pc[c], frame[c], admitted)
      /\ registry \in [Procs -> [Ids -> Tarballs \cup {NoPackage}]]
      /\ dirs \in [Dirs -> Tarballs \cup {NoPackage, Broken}]
      /\ frame[c] \in Frames
  BY DEF TypeInv, StageInv, GateInv, TypeOK
<1>1. ASSUME Unlist(c), Listing(i)' = NoEntry PROVE Kept(i)'
  <2>1. Complete(c, Removed("none"))
    BY <1>1 DEF Unlist, Goto, Proceed
  <2>2. /\ i = Job(c).id /\ trusted'[i].package = Removed("none")
        /\ trusted'[i].by = Home[c]
    BY <2>1, Completed
  <2>3. registry'[Home[c]][i] = NoPackage
    BY <1>0, <1>1, <2>2 DEF Unlist
  <2> QED BY <1>1, <2>2, <2>3, RemovedKept
<1>2. CASE Erase(c)
  <2>1. Job(c).op = "remove" /\ Complete(c, Removed(Match(c))) /\ pc[c] = "erasing"
    BY <1>2 DEF Erase, Goto, Proceed
  <2>2. /\ i = Job(c).id /\ c \notin overlapped /\ ~crowded
        /\ trusted'[i].package = Removed(Match(c)) /\ trusted'[i].by = Home[c]
    BY <2>1, Completed
  <2>3. Listing(i) = NoEntry /\ registry[Home[c]][i] = NoPackage
    BY <2>1, <2>2 DEF DoneInv, DoneAlone
  <2>4. Listing(i)' = NoEntry /\ registry' = registry
    BY <1>2, <2>3 DEF Erase, files, Listing
  <2>5. PICK v \in Versions : v = Match(c)
    BY <1>0, <2>1 DEF Stage, Job, Match
  <2>6. Dir(c) = <<Slug[i], v>> /\ <<Slug[i], v>> \in Dirs
    BY <2>1, <2>2, <2>5, TarballFacts DEF Dir
  <2>7. dirs'[<<Slug[i], v>>] = NoPackage
    BY <1>0, <1>2, <2>6 DEF Erase
  <2> QED BY <2>2, <2>3, <2>4, <2>5, <2>7, RemovedKept
<1>3. CASE Read(c)
  <2>1. PICK m \in Readings : m[Job(c).id] = NoEntry /\ Unlist(c)
    BY <1>3 DEF Read, Proceed
  <2>2. Complete(c, Removed("none"))
    BY <2>1 DEF Unlist, Goto, Proceed
  <2>3. m[i] = NoEntry
    BY <2>1, <2>2, Completed
  <2>4. Listing(i)' = NoEntry
    BY <1>3, <2>3, ReadsListing DEF Read, files, Listing
  <2> QED BY <1>1, <2>1, <2>4
<1>4. CASE Rename(c)
  <2>1. Job(c).op = "remove" /\ Unlist(c) /\ pc[c] = "renaming"
    BY <1>4 DEF Rename, Goto, Proceed
  <2>2. Complete(c, Removed("none"))
    BY <2>1 DEF Unlist, Goto, Proceed
  <2>3. i = Job(c).id /\ ~crowded
    BY <2>2, Completed
  <2>4. Listing(i)' = content[tmp[Home[c]]].map[i]
    BY <1>4, <2>3, FileEffects
  <2>5. content[tmp[Home[c]]].map[i] = Updated(c)[i]
    BY <2>1, <2>3 DEF DoneInv, Recording
  <2>6. frame[c].mem \in Maps
    BY <1>0 DEF Frames
  <2>7. Updated(c)[i] = NoEntry
    BY <2>1, <2>3, <2>6 DEF Updated, Maps
  <2> QED BY <1>1, <2>1, <2>4, <2>5, <2>7
<1>5. CASE Receipt(c)
  <2>1. Complete(c, Fetched(c)) /\ pc[c] = "receipting"
    BY <1>5 DEF Receipt
  <2>2. /\ i = Job(c).id /\ c \notin overlapped /\ ~crowded
        /\ trusted'[i].package = Fetched(c) /\ trusted'[i].by = Home[c]
    BY <2>1, Completed
  <2>3. PICK t \in Tarballs : t = Fetched(c)
    BY <1>0, <2>1 DEF Stage, OfInstall, PastGates, Fetched
  <2>4. Job(c).op = "install" /\ t.name = i
    BY <1>0, <2>1, <2>2, <2>3 DEF Stage, Gated, OfInstall, PastGates, Job, Fetched
  <2>5. /\ dirs[<<Slug[i], t.version>>] = t /\ Listing(i) = Recorded(t)
        /\ registry[Home[c]][i] = t
    BY <2>1, <2>2, <2>3, <2>4 DEF DoneInv, DoneAlone, Dir
  <2>6. Dir(c) = <<Slug[i], t.version>> /\ t # NoPackage
    BY <2>3, <2>4, TarballFacts DEF Dir
  <2>7. Listing(i)' = Listing(i) /\ registry' = registry /\ dirs' = dirs
    BY <1>5, <2>5, <2>6 DEF Receipt, files, Listing
  <2>8. t \notin Removals
    <3>1. \A v : Removed(v).name = "none"
      BY DEF Removed, Bare
    <3> QED BY <3>1, TarballFacts DEF Removals
  <2>9. trusted'[i].package = t
    BY <2>2, <2>3
  <2>10. (IF trusted'[i].by = "none" THEN NoPackage ELSE registry'[trusted'[i].by][i])
           \in {t, NoPackage}
    BY <2>2, <2>5, <2>7
  <2>11. Listing(i)' = Recorded(t) /\ dirs'[<<Slug[i], t.version>>] = t
    BY <2>5, <2>7
  <2> QED BY <2>8, <2>9, <2>10, <2>11 DEF Kept
<1>6. CASE UNCHANGED trusted
  BY <1>6
<1> QED
  BY <1>2, <1>3, <1>4, <1>5, <1>6 DEF Works, Step, Fetch, Extract, Clear, Move, LookToRemove,
     LookToVerify, LookToReload, Check, Load, Misread, Truncate, Fill, Miss, Fail, Goto,
     Proceed, Settle

LEMMA UndisturbedStep ==
  ASSUME TypeInv, GateInv, FileInv, BesideInv, TrustInv, DoneInv, SlugsApart,
         \A i \in Ids : Kept(i), [Next]_vars
  PROVE  \A i \in Ids : Kept(i)'
<1> SUFFICES ASSUME NEW i \in Ids PROVE Kept(i)'
  OBVIOUS
<1>0. CASE ~Settled(i)'
  <2>1. ~Settled(i)' => Kept(i)'
    BY UnknownKept, PTL
  <2> QED BY <1>0, <2>1
<1>1. ASSUME NEW c \in Calls, NEW op, NEW label, Begin(c, op, label), Settled(i)'
      PROVE  Kept(i)'
  <2>1. trusted'[i] = trusted[i] /\ UNCHANGED <<store, content, dirs, registry>>
    BY <1>1 DEF Begin, Settled, files
  <2> QED BY <2>1 DEF Kept, Listing
<1>2. ASSUME NEW c \in Calls, Works(c), Settled(i)' PROVE Kept(i)'
  <2>1. CASE trusted'[i] = trusted[i]
    <3>1. Settled(i) /\ Kept(i)
      BY <1>2, <2>1 DEF Settled
    <3> QED BY <1>2, <2>1, <3>1, OthersKept
  <2>2. CASE trusted'[i] # trusted[i]
    BY <1>2, <2>2, AloneKept
  <2> QED BY <2>1, <2>2
<1>3. ASSUME NEW p \in Procs, Die(p) PROVE Kept(i)'
  <2>1. /\ UNCHANGED <<store, content, dirs, trusted>>
        /\ \A q \in Procs : registry'[q][i] \in {registry[q][i], NoPackage}
    BY <1>3 DEF Die, files, history, TypeInv, TypeOK
  <2>2. trusted[i].by \in Procs \cup {"none"}
    BY DEF TypeInv, TypeOK, Trusts
  <2>3. Kept(i)
    OBVIOUS
  <2> QED BY <2>1, <2>2, <2>3 DEF Kept, Listing
<1>4. CASE UNCHANGED vars
  <2>1. UNCHANGED <<store, content, dirs, trusted, registry>> /\ Kept(i)
    BY <1>4 DEF vars, files, history
  <2> QED BY <2>1 DEF Kept, Listing
<1> QED
  BY <1>0, <1>1, <1>2, <1>3, <1>4 DEF Next, Works, Install, Remove, Reload, Verify

LEMMA InitUndisturbed == Init => BesideInv /\ TrustInv /\ DoneInv /\ \A i \in Ids : Kept(i)
<1> SUFFICES ASSUME Init
             PROVE  BesideInv /\ TrustInv /\ DoneInv /\ \A i \in Ids : Kept(i)
  OBVIOUS
<1>1. \A c \in Calls : pc[c] = "idle"
  BY DEF Init
<1>2. BesideInv /\ TrustInv /\ DoneInv
  BY <1>1 DEF Init, BesideInv, TrustInv, DoneInv, Recording, DoneAlone, Active
<1>3. ASSUME NEW i \in Ids PROVE Kept(i)
  <2> DEFINE t == CHOOSE t \in Installed : t.name = i
  <2>1. trusted[i].by = "none"
    BY DEF Init, Trust
  <2>2. \A v : Removed(v).name = "none"
    BY DEF Removed, Bare
  <2>3. CASE \E s \in Installed : s.name = i
    <3>1. /\ t \in Installed /\ t.name = i /\ t \in Tarballs
          /\ trusted[i].package = t
      BY <2>3, InstalledAssumption DEF Init, Trust
    <3>2. Listing(i) = Recorded(t)
      BY <2>3, <3>1 DEF Init, Listing, Whole, Files, InitialEntries
    <3>3. <<Slug[i], t.version>> \in Dirs
      BY <3>1, TarballFacts
    <3>4. \A s \in Installed : <<Slug[i], t.version>> = <<Slug[s.name], s.version>> => s = t
      BY <3>1, InstalledAssumption
    <3>5. dirs[<<Slug[i], t.version>>] = t
      BY <3>1, <3>3, <3>4 DEF Init
    <3>6. t \notin Removals
      BY <2>2, <3>1, TarballFacts DEF Removals
    <3> QED BY <2>1, <3>1, <3>2, <3>5, <3>6 DEF Kept
  <2>4. CASE ~\E s \in Installed : s.name = i
    <3>1. trusted[i].package = Removed("none") /\ Removed("none") \notin Tarballs
      BY <2>2, <2>4, TarballFacts DEF Init, Trust
    <3>2. Removed("none").version = "none"
      BY DEF Removed, Bare
    <3>3. Listing(i) = NoEntry
      BY <2>4 DEF Init, Listing, Whole, Files, InitialEntries
    <3> QED BY <2>1, <3>1, <3>2, <3>3 DEF Kept
  <2> QED BY <2>3, <2>4
<1> QED BY <1>2, <1>3

\* If different plugins have different directories, what an install or a remove that
\* ran alone has left of a plugin stays until the next call about it, whatever calls
\* of other processes install, remove or reload others, fail or die on the way
\* (install, remove and reload of host.ts).
THEOREM OthersUndisturbed ==
  ASSUME SlugsApart
  PROVE  Spec => []Undisturbed
<1> DEFINE Inv == /\ TypeInv /\ GateInv /\ FileInv /\ BesideInv /\ TrustInv /\ DoneInv
                  /\ \A i \in Ids : Kept(i)
<1>1. Init => Inv
  BY InitType, InitGate, InitFile, InitUndisturbed
<1>2. Inv /\ [Next]_vars => Inv'
  BY NextType, NextGate, NextFile, BesideStep, TrustStep, DoneStep, UndisturbedStep
<1>3. Inv => Undisturbed
  BY UndisturbedKept
<1> QED BY <1>1, <1>2, <1>3, PTL DEF Spec
=============================================================================
