------------------------------ MODULE PluginHost ------------------------------
(***************************************************************************)
(* The extension host of apps/cli/src/extensions: install, remove, reload  *)
(* and verify of plugins, over the installation directories, the plugin    *)
(* store plugins.json, and the registry a host keeps in memory.  Commands  *)
(* run in processes of their own, the MCP server runs several in one.  An  *)
(* action is one asynchronous operation; nothing locks the store, and a    *)
(* process may die between two operations.                                 *)
(***************************************************************************)
EXTENDS Naturals, FiniteSets

CONSTANTS
  Calls,      \* calls on hosts
  Procs,      \* processes, each with one host
  Home,       \* the process of each call
  Asked,      \* the operations each call may be asked for
  Ids,        \* plugin ids
  Versions,   \* their versions
  Slug,       \* the directory name an id is turned into
  Tarballs,   \* the packages a fetch may bring
  Pins,       \* the hashes an install may pin
  Installed,  \* packages installed and recorded at the start
  MayDie,     \* processes that may die
  MayFail     \* TRUE when operations may fail and signals may abort calls

ASSUME HomeAssumption == Home \in [Calls -> Procs]
ASSUME AskedAssumption ==
  Asked \in [Calls -> SUBSET {"install", "remove", "reload", "verify"}]
ASSUME TarballsAssumption ==
  Tarballs \subseteq [name : Ids, version : Versions, hash : STRING, always : BOOLEAN]
ASSUME PinsAssumption == Pins \subseteq STRING
ASSUME InstalledAssumption ==
  /\ Installed \subseteq Tarballs
  /\ \A s, t \in Installed : Slug[s.name] = Slug[t.name] => s = t
ASSUME FlagAssumption == MayFail \in BOOLEAN
ASSUME DeathAssumption == MayDie \subseteq Procs
ASSUME NoneAssumption ==
  /\ "none" \notin Calls \cup Ids \cup Versions
  /\ "first" \notin Calls

Hashes == {t.hash : t \in Tarballs}

\* What an installation directory holds: a package, nothing, or files without a
\* manifest, as an interrupted removal leaves.
Bare(what) == [name |-> "none", version |-> "none", hash |-> what, always |-> FALSE]
NoPackage == Bare("absent")
Broken == Bare("broken")
Dirs == {<<Slug[i], v>> : i \in Ids, v \in Versions}

Entry == [version : Versions, hash : Hashes]
NoEntry == [version |-> "none", hash |-> "none"]
Maps == [Ids -> Entry \cup {NoEntry}]
Nothing == [i \in Ids |-> NoEntry]
Recorded(t) == [version |-> t.version, hash |-> t.hash]

\* A file is known by the call that created it: renaming moves it, opening an
\* existing one truncates it, and who holds it open keeps writing to it.
Files == Calls \cup {"first"}
Cut == [state |-> "cut", map |-> Nothing]
Garbled == [state |-> "garbled", map |-> Nothing]
Whole(m) == [state |-> "whole", map |-> m]
Contents == [state : {"cut", "garbled", "whole"}, map : Maps]

\* What a call was asked for: an install may name a version and pin a hash, and
\* its caller may consent to a plugin that signs.
Request(op, id, version, pin, consent) ==
  [op |-> op, id |-> id, version |-> version, pin |-> pin, consent |-> consent]
InstallJobs == [op : {"install"}, id : Ids, version : Versions \cup {"any"},
                pin : Pins \cup {"none"}, consent : BOOLEAN]
Plain(op, id) == Request(op, id, "any", "none", FALSE)
Jobs == InstallJobs \cup {Plain(op, i) : op \in {"install", "remove", "verify"}, i \in Ids}
        \cup {Plain("reload", "none")}
NoJob == Plain("none", "none")

Running == {"fetching", "extracting", "clearing", "erasing", "moving", "looking",
            "reading", "truncating", "filling", "renaming", "receipting",
            "loading", "checking"}
Ended == {"answered", "refuted", "rejected", "dead"}

VARIABLES
  pc,         \* what each call does next
  frame,      \* the local variables of each call
  store,      \* the file that is plugins.json, or "none"
  tmp,        \* the file that is plugins.json.tmp.<pid>, or "none"
  content,    \* what each file holds
  dirs,       \* the installation directories
  registry,   \* the contributions each host has loaded
  dead,       \* processes that have died
  admitted,   \* history: packages that have passed the gates of an install
  overlapped, \* history: running calls that have run beside another
  crowded,    \* history: TRUE once two calls of one process have overlapped
  trusted     \* history: what the last call about each id left, if it ran alone

files == <<store, tmp, content>>
history == <<admitted, trusted>>
vars == <<pc, frame, files, dirs, registry, dead, overlapped, crowded, history>>

\* The package an install has fetched, the version remove and verify found
\* recorded, the entries read, those reload has yet to load, and the file open.
Frames == [job : Jobs \cup {NoJob}, fetched : Tarballs \cup {NoPackage},
           match : Versions \cup {"none"}, mem : Maps, todo : SUBSET Ids,
           handle : Files \cup {"none"}]
Blank == [job |-> NoJob, fetched |-> NoPackage, match |-> "none", mem |-> Nothing,
          todo |-> {}, handle |-> "none"]

\* History of a call's end: the package it installed, or the version it removed.
Trust(what, by) == [package |-> what, by |-> by]
Unknown == Trust(Bare("unknown"), "none")
Removed(version) == [Bare("removed") EXCEPT !.version = version]
Removals == {Removed(v) : v \in Versions \cup {"none"}}
Trusts == [package : Tarballs \cup Removals \cup {Bare("unknown")},
           by : Procs \cup {"none"}]

InitialEntries ==
  [i \in Ids |-> IF \E t \in Installed : t.name = i
                 THEN Recorded(CHOOSE t \in Installed : t.name = i) ELSE NoEntry]

Init ==
  /\ pc = [c \in Calls |-> "idle"]
  /\ frame = [c \in Calls |-> Blank]
  /\ store = IF Installed = {} THEN "none" ELSE "first"
  /\ tmp = [p \in Procs |-> "none"]
  /\ content = [f \in Files |-> IF f = "first" THEN Whole(InitialEntries) ELSE Cut]
  /\ dirs = [d \in Dirs |->
       IF \E t \in Installed : d = <<Slug[t.name], t.version>>
       THEN CHOOSE t \in Installed : d = <<Slug[t.name], t.version>>
       ELSE NoPackage]
  /\ registry = [p \in Procs |-> [i \in Ids |-> NoPackage]]
  /\ dead = {}
  /\ admitted = Installed
  /\ overlapped = {}
  /\ crowded = FALSE
  /\ trusted = [i \in Ids |->
       Trust(IF \E t \in Installed : t.name = i
             THEN CHOOSE t \in Installed : t.name = i ELSE Removed("none"), "none")]

Job(c) == frame[c].job
Fetched(c) == frame[c].fetched
Match(c) == frame[c].match
Active(c) == pc[c] \in Running

\* The call goes on, with these local variables; it settles, and has none.
Proceed(c, label, f) ==
  /\ pc' = [pc EXCEPT ![c] = label]
  /\ frame' = [frame EXCEPT ![c] = f]
  /\ UNCHANGED <<overlapped, crowded, trusted>>
Goto(c, label) == Proceed(c, label, frame[c])
End(c, how) ==
  /\ pc' = [pc EXCEPT ![c] = how]
  /\ frame' = [frame EXCEPT ![c] = Blank]
  /\ overlapped' = overlapped \ {c}
  /\ UNCHANGED crowded
Settle(c, how) == End(c, how) /\ UNCHANGED trusted
\* An install or a remove has done what it was asked to.
Complete(c, what) ==
  /\ End(c, "answered")
  /\ trusted' = [trusted EXCEPT ![Job(c).id] =
       IF c \in overlapped \/ crowded THEN Unknown ELSE Trust(what, Home[c])]

\* A call begins: what was known of a plugin it may change is so no longer, and
\* nothing is known where calls of one process share a temporary file.
Begin(c, op, label) ==
  LET others == {d \in Calls : Active(d)}
      beside == \E d \in others : Home[d] = Home[c]
  IN
  /\ pc[c] = "idle"
  /\ Home[c] \notin dead
  /\ op \in Asked[c]
  /\ \E j \in Jobs :
       /\ j.op = op
       /\ frame' = [frame EXCEPT ![c] = [Blank EXCEPT !.job = j]]
       /\ trusted' = [i \in Ids |->
            IF beside \/ (op \in {"install", "remove"} /\ i = j.id) THEN Unknown
            ELSE trusted[i]]
  /\ overlapped' = IF others = {} THEN overlapped ELSE overlapped \cup others \cup {c}
  /\ crowded' = (crowded \/ beside)
  /\ pc' = [pc EXCEPT ![c] = label]
  /\ UNCHANGED <<files, dirs, registry, dead, admitted>>

Install(c) == Begin(c, "install", "fetching")
Remove(c) == Begin(c, "remove", "looking")
Reload(c) == Begin(c, "reload", "looking")
Verify(c) == Begin(c, "verify", "looking")

\* The tarball arrives and its hash is compared with the pinned one.
Fetch(c) ==
  /\ pc[c] = "fetching"
  /\ \E t \in Tarballs :
       IF Job(c).pin \in {"none", t.hash}
       THEN Proceed(c, "extracting", [frame[c] EXCEPT !.fetched = t])
       ELSE Settle(c, "rejected")
  /\ UNCHANGED <<files, dirs, registry, dead, admitted>>

\* The manifest names what was asked for, and a plugin that signs was approved.
Admissible(j, t) ==
  /\ t.name = j.id
  /\ j.version \in {"any", t.version}
  /\ t.always => j.consent

\* Mutant: nobody asks whether the plugin may sign.
ExtractUnasked(c) ==
  /\ pc[c] = "extracting"
  /\ \/ /\ Admissible([Job(c) EXCEPT !.consent = TRUE], Fetched(c))
        /\ Proceed(c, "clearing", [frame[c] EXCEPT !.job = Plain("install", @.id)])
     \/ /\ ~Admissible([Job(c) EXCEPT !.consent = TRUE], Fetched(c))
        /\ Settle(c, "rejected")
  /\ admitted' = IF Job(c).pin \in {"none", Fetched(c).hash} /\ Admissible(Job(c), Fetched(c))
                 THEN admitted \cup {Fetched(c)} ELSE admitted
  /\ UNCHANGED <<files, dirs, registry, dead>>

\* Past the gates, nothing but the id of the request is read again.
Extract(c) ==
  /\ pc[c] = "extracting"
  /\ \/ /\ Admissible(Job(c), Fetched(c))
        /\ Proceed(c, "clearing", [frame[c] EXCEPT !.job = Plain("install", @.id)])
     \/ /\ ~Admissible(Job(c), Fetched(c))
        /\ Settle(c, "rejected")
  /\ admitted' = IF Job(c).pin \in {"none", Fetched(c).hash} /\ Admissible(Job(c), Fetched(c))
                 THEN admitted \cup {Fetched(c)} ELSE admitted
  /\ UNCHANGED <<files, dirs, registry, dead>>

\* The directory a call clears: where its package goes, or the recorded one.
Dir(c) ==
  IF Job(c).op = "install" THEN <<Slug[Fetched(c).name], Fetched(c).version>>
  ELSE <<Slug[Job(c).id], Match(c)>>

\* The removal of a directory deletes its files one by one ...
Clear(c) ==
  /\ pc[c] = "clearing"
  /\ dirs' = IF dirs[Dir(c)] = NoPackage THEN dirs ELSE [dirs EXCEPT ![Dir(c)] = Broken]
  /\ Goto(c, "erasing")
  /\ UNCHANGED <<files, registry, dead, admitted>>

\* ... and then the directory; remove has nothing left to do.
Erase(c) ==
  /\ pc[c] = "erasing"
  /\ dirs' = [dirs EXCEPT ![Dir(c)] = NoPackage]
  /\ \/ Job(c).op = "install" /\ Goto(c, "moving")
     \/ Job(c).op = "remove" /\ Complete(c, Removed(Match(c)))
  /\ UNCHANGED <<files, registry, dead, admitted>>

\* The staged directory is renamed, unless another has taken its place.
Move(c) ==
  /\ pc[c] = "moving"
  /\ \/ /\ dirs[Dir(c)] = NoPackage
        /\ dirs' = [dirs EXCEPT ![Dir(c)] = Fetched(c)]
        /\ Goto(c, "reading")
     \/ /\ dirs[Dir(c)] # NoPackage
        /\ Settle(c, "rejected")
        /\ UNCHANGED dirs
  /\ UNCHANGED <<files, registry, dead, admitted>>

\* readAll: no file and an empty one read as no plugins, a cut one may be
\* empty, and what is no JSON is an error.
Readings ==
  IF store = "none" THEN {Nothing}
  ELSE IF content[store] = Garbled THEN {} ELSE {content[store].map}
Unreadable == store # "none" /\ content[store].state # "whole"
Listed(m) == {i \in Ids : m[i] # NoEntry}

\* The first read of remove, of verify, and of reload, which clears the registry.
LookToRemove(c) ==
  /\ pc[c] = "looking"
  /\ Job(c).op = "remove"
  /\ \E m \in Readings :
       Proceed(c, "reading", [frame[c] EXCEPT !.match = m[Job(c).id].version])
  /\ UNCHANGED <<files, dirs, registry, dead, admitted>>

LookToVerify(c) ==
  /\ pc[c] = "looking"
  /\ Job(c).op = "verify"
  /\ \E m \in Readings :
       IF m[Job(c).id] = NoEntry THEN Settle(c, "refuted")
       ELSE Proceed(c, "checking", [frame[c] EXCEPT !.match = m[Job(c).id].version])
  /\ UNCHANGED <<files, dirs, registry, dead, admitted>>

LookToReload(c) ==
  /\ pc[c] = "looking"
  /\ Job(c).op = "reload"
  /\ \E m \in Readings :
       IF Listed(m) = {} THEN Settle(c, "answered")
       ELSE Proceed(c, "loading", [frame[c] EXCEPT !.mem = m, !.todo = Listed(m)])
  /\ registry' = [registry EXCEPT ![Home[c]] = [i \in Ids |-> NoPackage]]
  /\ UNCHANGED <<files, dirs, dead, admitted>>

\* What is no JSON, or the first part of it, rejects the call.
Misread(c) ==
  /\ pc[c] \in {"looking", "reading"}
  /\ Unreadable
  /\ Settle(c, "rejected")
  /\ UNCHANGED <<files, dirs, registry, dead, admitted>>

\* Mutant: a manifest that cannot be read is taken for the recorded one.
SoundAnyway(i, version) ==
  LET t == dirs[<<Slug[i], version>>] IN
  t = Broken \/ (t.name = i /\ t.version = version)

\* readManifestFromDir, and the comparison with the recorded entry.
Sound(i, version) ==
  LET t == dirs[<<Slug[i], version>>] IN t.name = i /\ t.version = version

\* A manifest that cannot be read is no rejection of verify, but its answer.
Check(c) ==
  /\ pc[c] = "checking"
  /\ \/ Sound(Job(c).id, Match(c)) /\ Settle(c, "answered")
     \/ (MayFail \/ ~Sound(Job(c).id, Match(c))) /\ Settle(c, "refuted")
  /\ UNCHANGED <<files, dirs, registry, dead, admitted>>

\* reload loads one entry, or refuses it and goes on.
Load(c) ==
  /\ pc[c] = "loading"
  /\ \E i \in frame[c].todo :
       LET version == frame[c].mem[i].version
           left == frame[c].todo \ {i}
       IN  /\ \/ /\ Sound(i, version)
                 /\ registry' =
                      [registry EXCEPT ![Home[c]][i] = dirs[<<Slug[i], version>>]]
              \/ (MayFail \/ ~Sound(i, version)) /\ UNCHANGED registry
           /\ IF left = {} THEN Settle(c, "answered")
              ELSE Proceed(c, "loading", [frame[c] EXCEPT !.todo = left])
  /\ UNCHANGED <<files, dirs, dead, admitted>>

\* Mutant: the host keeps what the plugin contributed.
UnlistOnly(c) ==
  /\ IF Match(c) # "none" THEN Goto(c, "clearing") ELSE Complete(c, Removed("none"))
  /\ UNCHANGED registry

\* The entry is gone from the store: what is left of remove.
Unlist(c) ==
  /\ registry' = [registry EXCEPT ![Home[c]][Job(c).id] = NoPackage]
  /\ IF Match(c) # "none" THEN Goto(c, "clearing") ELSE Complete(c, Removed("none"))

\* The store's add and remove read it again; remove of an unknown id stops here.
Read(c) ==
  /\ pc[c] = "reading"
  /\ \E m \in Readings :
       \/ /\ Job(c).op = "remove"
          /\ m[Job(c).id] = NoEntry
          /\ Unlist(c)
       \/ /\ Job(c).op = "remove" => m[Job(c).id] # NoEntry
          /\ Proceed(c, "truncating", [frame[c] EXCEPT !.mem = m])
          /\ UNCHANGED registry
  /\ UNCHANGED <<files, dirs, dead, admitted>>

\* Mutant: the store is written in place.
TruncateStore(c) ==
  /\ pc[c] = "truncating"
  /\ LET f == IF store = "none" THEN c ELSE store IN
     /\ tmp' = [tmp EXCEPT ![Home[c]] = f]
     /\ content' = [content EXCEPT ![f] = Cut]
     /\ Proceed(c, "filling", [frame[c] EXCEPT !.handle = f])
  /\ UNCHANGED <<store, dirs, registry, dead, admitted>>

\* writeFile opens the temporary file, named after the process, empty ...
Truncate(c) ==
  /\ pc[c] = "truncating"
  /\ LET f == IF tmp[Home[c]] = "none" THEN c ELSE tmp[Home[c]] IN
     /\ tmp' = [tmp EXCEPT ![Home[c]] = f]
     /\ content' = [content EXCEPT ![f] = Cut]
     /\ Proceed(c, "filling", [frame[c] EXCEPT !.handle = f])
  /\ UNCHANGED <<store, dirs, registry, dead, admitted>>

Updated(c) ==
  [frame[c].mem EXCEPT ![Job(c).id] =
    IF Job(c).op = "install" THEN Recorded(Fetched(c)) ELSE NoEntry]

\* ... and writes its entries from the start: over a longer text that another
\* call has put there, the end of that text remains.
Fill(c) ==
  /\ pc[c] = "filling"
  /\ LET f == frame[c].handle IN
     \E new \in {Whole(Updated(c))} \cup (IF content[f] = Cut THEN {} ELSE {Garbled}) :
       content' = [content EXCEPT ![f] = new]
  /\ Goto(c, "renaming")
  /\ UNCHANGED <<store, tmp, dirs, registry, dead, admitted>>

\* The entry is recorded, unless another call has moved the file away.  The
\* file that was there is nobody's to read.
Rename(c) ==
  /\ pc[c] = "renaming"
  /\ tmp[Home[c]] # "none"
  /\ store' = tmp[Home[c]]
  /\ tmp' = [tmp EXCEPT ![Home[c]] = "none"]
  /\ content' = IF store = "none" THEN content ELSE [content EXCEPT ![store] = Cut]
  /\ \/ /\ Job(c).op = "install"
        /\ registry' = [registry EXCEPT ![Home[c]][Job(c).id] = Fetched(c)]
        /\ Goto(c, "receipting")
     \/ Job(c).op = "remove" /\ Unlist(c)
  /\ UNCHANGED <<dirs, dead, admitted>>

Miss(c) ==
  /\ pc[c] = "renaming"
  /\ tmp[Home[c]] = "none"
  /\ Settle(c, "rejected")
  /\ UNCHANGED <<files, dirs, registry, dead, admitted>>

\* The receipt is written into the directory, which is made again if need be.
Receipt(c) ==
  /\ pc[c] = "receipting"
  /\ dirs' = IF dirs[Dir(c)] = NoPackage THEN [dirs EXCEPT ![Dir(c)] = Broken] ELSE dirs
  /\ Complete(c, Fetched(c))
  /\ UNCHANGED <<files, registry, dead, admitted>>

\* An operation fails or finds the signal aborted, and the call rejects; what it
\* has done so far stays.
Fail(c) ==
  /\ MayFail
  /\ Active(c)
  /\ pc[c] # "checking"
  /\ Settle(c, "rejected")
  /\ UNCHANGED <<files, dirs, registry, dead, admitted>>

\* The process exits or is killed: its memory is gone.
Die(p) ==
  LET gone == {c \in Calls : Home[c] = p /\ pc[c] \in Running \cup {"idle"}} IN
  /\ p \in MayDie \ dead
  /\ dead' = dead \cup {p}
  /\ pc' = [c \in Calls |-> IF c \in gone THEN "dead" ELSE pc[c]]
  /\ frame' = [c \in Calls |-> IF c \in gone THEN Blank ELSE frame[c]]
  /\ overlapped' = overlapped \ gone
  /\ UNCHANGED crowded
  /\ registry' = [registry EXCEPT ![p] = [i \in Ids |-> NoPackage]]
  /\ UNCHANGED <<files, dirs, history>>

Step(c) ==
  \/ Fetch(c) \/ Extract(c) \/ Clear(c) \/ Erase(c) \/ Move(c)
  \/ LookToRemove(c) \/ LookToVerify(c) \/ LookToReload(c) \/ Check(c) \/ Load(c)
  \/ Read(c) \/ Misread(c) \/ Truncate(c) \/ Fill(c) \/ Rename(c) \/ Miss(c)
  \/ Receipt(c)

Next ==
  \/ \E c \in Calls :
       Install(c) \/ Remove(c) \/ Reload(c) \/ Verify(c) \/ Step(c) \/ Fail(c)
  \/ \E p \in Procs : Die(p)

Spec == Init /\ [][Next]_vars

-----------------------------------------------------------------------------
\* Every variable has its type: a sound plugin that reload registers is a package.
TypeOK ==
  /\ pc \in [Calls -> {"idle"} \cup Running \cup Ended]
  /\ frame \in [Calls -> Frames]
  /\ store \in Files \cup {"none"}
  /\ tmp \in [Procs -> Files \cup {"none"}]
  /\ content \in [Files -> Contents]
  /\ dirs \in [Dirs -> Tarballs \cup {NoPackage, Broken}]
  /\ registry \in [Procs -> [Ids -> Tarballs \cup {NoPackage}]]
  /\ dead \subseteq Procs
  /\ admitted \subseteq Tarballs
  /\ overlapped \subseteq Calls
  /\ crowded \in BOOLEAN
  /\ trusted \in [Ids -> Trusts]

\* The comment of createDefaultPluginConfigStore: readers of plugins.json see the
\* prior file or the new one, never a partial one, whoever dies on the way, as
\* long as the calls of each process run one after another.
NeverPartial == store # "none" => content[store].state = "whole"
StoreWhole == ~crowded => NeverPartial

\* A package is in an installation directory, in the store or in a registry only
\* if an install fetched it under the pinned hash and let its manifest pass: no
\* later call, failure or interleaving brings in what a gate has refused.
OnlyAdmitted ==
  /\ \A d \in Dirs : dirs[d] \in admitted \cup {NoPackage, Broken}
  /\ \A p \in Procs, i \in Ids : registry[p][i] \in admitted \cup {NoPackage}
  /\ store # "none" => \A i \in Ids : content[store].map[i] # NoEntry =>
       \E t \in admitted : t.name = i /\ Recorded(t) = content[store].map[i]

\* What an install or a remove that ran alone has left of a plugin, its entry, its
\* directory and its host's contribution, stays until the next call about that
\* plugin, whatever calls of other processes about other plugins overlap, fail or
\* die on the way.
Undisturbed ==
  \A i \in Ids :
    LET t == trusted[i].package
        entry == IF store = "none" THEN NoEntry ELSE content[store].map[i]
        loaded == IF trusted[i].by = "none" THEN NoPackage ELSE registry[trusted[i].by][i]
    IN  /\ t \in Tarballs =>
             entry = Recorded(t) /\ dirs[<<Slug[i], t.version>>] = t
             /\ loaded \in {t, NoPackage}
        /\ t \in Removals =>
             entry = NoEntry /\ loaded = NoPackage
             /\ (t.version # "none" => dirs[<<Slug[i], t.version>>] = NoPackage)

\* verify.command.ts promises to verify "manifest and integrity": a plugin found
\* good is the package whose hash the store records.
VerifiedIntegrity ==
  [][\A c \in Calls : pc[c] = "checking" /\ pc'[c] = "answered" /\ store # "none" =>
       content[store].map[Job(c).id].hash = dirs[<<Slug[Job(c).id], Match(c)>>].hash]_vars
=============================================================================
