------------------------------ MODULE LockedFile ------------------------------
(***************************************************************************)
(* The two files solcli updates under a lock: the encrypted vault of       *)
(* packages/secrets and the configuration file of packages/config.  Every  *)
(* command is a process with its own backend, so several processes work on *)
(* one file, and the MCP server runs several calls in one process.  An     *)
(* action is one file-system operation; a process may die between two.     *)
(* The lock is proper-lockfile: taken or refused at once, taken over when  *)
(* its holder has died.                                                    *)
(***************************************************************************)
EXTENDS Naturals, FiniteSets

CONSTANTS
  Calls,        \* calls on the store
  Procs,        \* processes
  Home,         \* the process of each call
  Asked,        \* the operations each call may be asked for
  Names,        \* names of secrets, or keys of the configuration
  Values,       \* what they may be set to
  Stores,       \* "vault", "config", or both
  InitialFiles, \* what the file may be at the start
  FirstAlone,   \* TRUE when nothing overlaps the call that creates the file
  MayDie,       \* processes that may die
  MayFail,      \* TRUE when file operations may fail
  retries       \* how often a refused lock is asked for again; 5 in the code

ASSUME HomeAssumption == Home \in [Calls -> Procs]
ASSUME AskedAssumption ==
  Asked \in [Calls -> SUBSET {"set", "delete", "get", "list", "init"}]
ASSUME StoresAssumption == Stores \subseteq {"vault", "config"}
ASSUME FilesAssumption == InitialFiles \subseteq {"absent", "entries"}
ASSUME FlagAssumption == FirstAlone \in BOOLEAN /\ MayFail \in BOOLEAN
ASSUME DeathAssumption == MayDie \subseteq Procs
ASSUME RetriesAssumption == retries \in Nat
\* Calls, names and values are none of the words the model uses beside them.
ASSUME CallsAssumption ==
  Calls \cap {"free", "older", "absent", "empty", "no key", "plain"} = {}
ASSUME NoneAssumption == "none" \notin Names \cup Values

\* A salt is known by the call that drew it, or is older than every call; the
\* key is what argon2id derives from it and the one master passphrase.
Salts == Calls \cup {"older"}
\* Configuration values are stored in the clear.
Keys == Salts \cup {"plain"}
NoKey == "no key"

Entry == [value : Values, key : Keys]
NoEntry == [value |-> "none", key |-> "none"]
Maps == [Names -> Entry \cup {NoEntry}]
Nothing == [n \in Names |-> NoEntry]

\* A file is absent, whole, or truncated and not yet written.
Whole(m) == [state |-> "whole", map |-> m]
Absent == [state |-> "absent", map |-> Nothing]
Partial == [state |-> "partial", map |-> Nothing]
Files == [state : {"absent", "whole", "partial"}, map : Maps]

Requests == [name : Names, entry : Entry \cup {NoEntry}]
NoRequest == [name |-> "none", entry |-> NoEntry]

VaultJobs == [op : {"set"}, name : Names, value : Values]
             \cup [op : {"delete", "get", "list"}, name : Names, value : {"none"}]
ConfigJobs == [op : {"set"}, name : Names, value : Values]
              \cup [op : {"init"}, name : Names, value : {"none"}]
Jobs == VaultJobs \cup ConfigJobs
NoJob == [op |-> "none", name |-> "none", value |-> "none"]
Updating == {"set", "delete"}

Outside == {"salting", "opening salt", "writing salt", "ensuring", "creating",
            "locking", "reading"}
Critical == {"loading", "truncating", "filling", "renaming", "releasing",
             "aborting"}
Ended == {"answered", "rejected", "dead"}

VARIABLES
  store,     \* which of the two stores the behaviour is about
  pc,        \* what each call does next
  job,       \* what each call was asked to do
  request,   \* the binding an update makes, fixed when its entry is sealed
  mem,       \* the map each call has read
  tries,     \* refused attempts at the lock
  key,       \* cachedKey of each process
  salt,      \* the salt file: "absent", "empty", or a salt
  file,      \* the shared file
  tmp,       \* the temporary file of each process
  holder,    \* the call that holds the lock, or "free"
  dead,      \* processes that have died
  committed  \* history: calls whose rename took place

vars == <<store, pc, job, request, mem, tries, key, salt, file, tmp, holder,
          dead, committed>>

Init ==
  /\ store \in Stores
  /\ \/ /\ "absent" \in InitialFiles
        /\ salt = "absent"
        /\ file = Absent
     \/ /\ "entries" \in InitialFiles
        /\ salt = IF store = "vault" THEN "older" ELSE "absent"
        /\ \E v \in Values :
             file = Whole([n \in Names |->
               [value |-> v, key |-> IF store = "vault" THEN "older" ELSE "plain"]])
  /\ pc = [c \in Calls |-> "idle"]
  /\ job = [c \in Calls |-> NoJob]
  /\ request = [c \in Calls |-> NoRequest]
  /\ mem = [c \in Calls |-> Nothing]
  /\ tries = [c \in Calls |-> 0]
  /\ key = [p \in Procs |-> NoKey]
  /\ tmp = [p \in Procs |-> Absent]
  /\ holder = "free"
  /\ dead = {}
  /\ committed = {}

Active(c) == pc[c] \notin Ended \cup {"idle"}
Goto(c, label) == pc' = [pc EXCEPT ![c] = label]
\* The call settles and its stack frame is gone.
Settle(c, how) ==
  /\ Goto(c, how)
  /\ mem' = [mem EXCEPT ![c] = Nothing]
  /\ tries' = [tries EXCEPT ![c] = 0]

Begin(c, s, ops) ==
  /\ store = s
  /\ pc[c] = "idle"
  /\ Home[c] \notin dead
  /\ (FirstAlone /\ file = Absent) => \A d \in Calls : ~Active(d)
  /\ \E j \in Jobs : j.op \in ops \cap Asked[c] /\ job' = [job EXCEPT ![c] = j]
  /\ UNCHANGED <<store, mem, tries, key, salt, file, tmp, holder, dead, committed>>

\* The binding a call asks for, sealed under a key.
Sealed(j, k) == [name |-> j.name, entry |-> [value |-> j.value, key |-> k]]
Ask(c, r) == request' = [request EXCEPT ![c] = r]

\* EncryptedFileBackend.set: the entry is sealed before the file is touched.
VaultSet(c) ==
  /\ Begin(c, "vault", {"set"})
  /\ \/ /\ key[Home[c]] = NoKey
        /\ Goto(c, "salting")
        /\ UNCHANGED request
     \/ /\ key[Home[c]] # NoKey
        /\ Ask(c, Sealed(job'[c], key[Home[c]]))
        /\ Goto(c, "ensuring")

VaultDelete(c) ==
  /\ Begin(c, "vault", {"delete"})
  /\ Ask(c, [name |-> job'[c].name, entry |-> NoEntry])
  /\ Goto(c, "ensuring")

\* get and list create a missing file as updates do, without the lock.
VaultRead(c) ==
  /\ Begin(c, "vault", {"get", "list"})
  /\ Goto(c, "ensuring")
  /\ UNCHANGED request

\* FileConfigManager.set and switchProfile; a key stands for a dotted path.
ConfigSet(c) ==
  /\ Begin(c, "config", {"set"})
  /\ Ask(c, Sealed(job'[c], "plain"))
  /\ Goto(c, "ensuring")

ConfigInit(c) ==
  /\ Begin(c, "config", {"init"})
  /\ Goto(c, "reading")
  /\ UNCHANGED request

\* ensureKey has an answer: set seals its entry, get decrypts what it read.
Derived(c, k) ==
  /\ key' = [key EXCEPT ![Home[c]] = k]
  /\ \/ /\ job[c].op = "set"
        /\ Ask(c, Sealed(job[c], k))
        /\ Goto(c, "ensuring")
        /\ UNCHANGED <<mem, tries>>
     \/ /\ job[c].op = "get"
        /\ Settle(c, IF mem[c][job[c].name].key = k THEN "answered" ELSE "rejected")
        /\ UNCHANGED request

\* Mutant: a salt file of the wrong length is created again.
ReadSaltAgain(c) ==
  /\ pc[c] = "salting"
  /\ \/ /\ salt \notin Salts
        /\ Goto(c, "opening salt")
        /\ UNCHANGED <<request, mem, tries, key>>
     \/ /\ salt \in Salts
        /\ Derived(c, salt)
  /\ UNCHANGED <<store, job, salt, file, tmp, holder, dead, committed>>

ReadSalt(c) ==
  /\ pc[c] = "salting"
  /\ \/ /\ salt = "absent"
        /\ Goto(c, "opening salt")
        /\ UNCHANGED <<request, mem, tries, key>>
     \/ /\ salt = "empty" \* wrong length
        /\ Settle(c, "rejected")
        /\ UNCHANGED <<request, key>>
     \/ /\ salt \in Salts
        /\ Derived(c, salt)
  /\ UNCHANGED <<store, job, salt, file, tmp, holder, dead, committed>>

\* Mutant: the file is opened with "w", which truncates it.
OpenSaltOver(c) ==
  /\ pc[c] = "opening salt"
  /\ salt' = "empty"
  /\ Goto(c, "writing salt")
  /\ UNCHANGED <<store, job, request, mem, tries, key, file, tmp, holder, dead,
                 committed>>

\* open(saltPath, "wx"): only one call creates the file; the others read again.
OpenSalt(c) ==
  /\ pc[c] = "opening salt"
  /\ \/ /\ salt = "absent"
        /\ salt' = "empty"
        /\ Goto(c, "writing salt")
     \/ /\ salt # "absent"
        /\ Goto(c, "salting")
        /\ UNCHANGED salt
  /\ UNCHANGED <<store, job, request, mem, tries, key, file, tmp, holder, dead,
                 committed>>

WriteSalt(c) ==
  /\ pc[c] = "writing salt"
  /\ salt' = c
  /\ Derived(c, c)
  /\ UNCHANGED <<store, job, file, tmp, holder, dead, committed>>

AfterEnsure(c) == IF job[c].op \in Updating THEN "locking" ELSE "reading"

\* Mutant: the file is created without looking whether it is there.
EnsureBlindly(c) ==
  /\ pc[c] = "ensuring"
  /\ Goto(c, "creating")
  /\ UNCHANGED <<store, job, request, mem, tries, key, salt, file, tmp, holder,
                 dead, committed>>

Ensure(c) ==
  /\ pc[c] = "ensuring"
  /\ Goto(c, IF file = Absent THEN "creating" ELSE AfterEnsure(c))
  /\ UNCHANGED <<store, job, request, mem, tries, key, salt, file, tmp, holder,
                 dead, committed>>

\* writeFile(path, "") truncates whatever is there by now.
CreateEmpty(c) ==
  /\ pc[c] = "creating"
  /\ file' = Whole(Nothing)
  /\ Goto(c, AfterEnsure(c))
  /\ UNCHANGED <<store, job, request, mem, tries, key, salt, tmp, holder, dead,
                 committed>>

\* Mutant: the lock is not asked for.
AcquireAnyway(c) ==
  /\ pc[c] = "locking"
  /\ Goto(c, "loading")
  /\ UNCHANGED <<store, job, request, mem, tries, key, salt, file, tmp, holder,
                 dead, committed>>

Acquire(c) ==
  /\ pc[c] = "locking"
  /\ holder # "free" => pc[holder] = "dead"
  /\ holder' = c
  /\ Goto(c, "loading")
  /\ UNCHANGED <<store, job, request, mem, tries, key, salt, file, tmp, dead,
                 committed>>

\* Mutant: one attempt too many.
RefusedOnceMore(c) ==
  /\ pc[c] = "locking"
  /\ holder # "free"
  /\ \/ /\ tries[c] <= retries
        /\ tries' = [tries EXCEPT ![c] = @ + 1]
        /\ UNCHANGED <<pc, mem>>
     \/ /\ tries[c] > retries
        /\ Settle(c, "rejected")
  /\ UNCHANGED <<store, job, request, key, salt, file, tmp, holder, dead, committed>>

\* The lock of a dead process is refused, too, until it is stale.
Refused(c) ==
  /\ pc[c] = "locking"
  /\ holder # "free"
  /\ \/ /\ tries[c] < retries
        /\ tries' = [tries EXCEPT ![c] = @ + 1]
        /\ UNCHANGED <<pc, mem>>
     \/ /\ tries[c] = retries
        /\ Settle(c, "rejected")
  /\ UNCHANGED <<store, job, request, key, salt, file, tmp, holder, dead, committed>>

\* readAllUnlocked and loadTomlConfig as readers use them, without the lock.
Read(c) ==
  /\ pc[c] = "reading"
  /\ LET entry == file.map[job[c].name] IN
     \/ /\ job[c].op = "get"
        /\ entry # NoEntry
        /\ key[Home[c]] = NoKey
        /\ mem' = [mem EXCEPT ![c] = file.map]
        /\ Goto(c, "salting")
        /\ UNCHANGED tries
     \/ /\ job[c].op = "get"
        /\ entry # NoEntry
        /\ key[Home[c]] # NoKey
        /\ Settle(c, IF entry.key = key[Home[c]] THEN "answered" ELSE "rejected")
     \/ /\ job[c].op = "get" => entry = NoEntry
        /\ Settle(c, "answered")
  /\ UNCHANGED <<store, job, request, key, salt, file, tmp, holder, dead, committed>>

Load(c) ==
  /\ pc[c] = "loading"
  /\ mem' = [mem EXCEPT ![c] = file.map]
  /\ Goto(c, "truncating")
  /\ UNCHANGED <<store, job, request, tries, key, salt, file, tmp, holder, dead,
                 committed>>

\* writeFile of the temporary file, named after the process, opens it empty ...
Truncate(c) ==
  /\ pc[c] = "truncating"
  /\ tmp' = [tmp EXCEPT ![Home[c]] = Partial]
  /\ Goto(c, "filling")
  /\ UNCHANGED <<store, job, request, mem, tries, key, salt, file, holder, dead,
                 committed>>

Updated(c, m) == [m EXCEPT ![request[c].name] = request[c].entry]

\* ... and then writes the updated map into it.
Fill(c) ==
  /\ pc[c] = "filling"
  /\ tmp' = [tmp EXCEPT ![Home[c]] = Whole(Updated(c, mem[c]))]
  /\ Goto(c, "renaming")
  /\ UNCHANGED <<store, job, request, mem, tries, key, salt, file, holder, dead,
                 committed>>

Rename(c) ==
  /\ pc[c] = "renaming"
  /\ file' = tmp[Home[c]]
  /\ tmp' = [tmp EXCEPT ![Home[c]] = Absent]
  /\ committed' = committed \cup {c}
  /\ Goto(c, "releasing")
  /\ UNCHANGED <<store, job, request, mem, tries, key, salt, holder, dead>>

Release(c) ==
  /\ pc[c] \in {"releasing", "aborting"}
  /\ holder' = "free"
  /\ Settle(c, IF pc[c] = "releasing" THEN "answered" ELSE "rejected")
  /\ UNCHANGED <<store, job, request, key, salt, file, tmp, dead, committed>>

\* Mutant: without the finally block a failure keeps the lock.
FailHolding(c) ==
  /\ MayFail
  /\ Active(c)
  /\ pc[c] \notin {"releasing", "aborting", "ensuring"}
  /\ Settle(c, "rejected")
  /\ UNCHANGED <<store, job, request, key, salt, file, tmp, holder, dead, committed>>

\* An operation fails: under the lock the call releases it first.  Ensuring
\* swallows its errors, and a salt that was opened stays behind, empty.
Fail(c) ==
  /\ MayFail
  /\ \/ /\ pc[c] \in {"salting", "opening salt", "writing salt", "creating",
                      "locking", "reading"}
        /\ Settle(c, "rejected")
     \/ /\ pc[c] \in {"loading", "truncating", "filling", "renaming"}
        /\ Goto(c, "aborting")
        /\ UNCHANGED <<mem, tries>>
  /\ UNCHANGED <<store, job, request, key, salt, file, tmp, holder, dead, committed>>

\* The process exits or is killed; its files and its lock stay as they are.
Die(p) ==
  /\ p \in MayDie \ dead
  /\ dead' = dead \cup {p}
  /\ pc' = [c \in Calls |->
              IF Home[c] = p /\ pc[c] \notin {"answered", "rejected"} THEN "dead"
              ELSE pc[c]]
  /\ mem' = [c \in Calls |-> IF Home[c] = p THEN Nothing ELSE mem[c]]
  /\ tries' = [c \in Calls |-> IF Home[c] = p THEN 0 ELSE tries[c]]
  /\ key' = [key EXCEPT ![p] = NoKey]
  /\ UNCHANGED <<store, job, request, salt, file, tmp, holder, committed>>

Operation(c) ==
  VaultSet(c) \/ VaultDelete(c) \/ VaultRead(c) \/ ConfigSet(c) \/ ConfigInit(c)
Locked(c) ==
  Load(c) \/ Truncate(c) \/ Fill(c) \/ Rename(c) \/ Release(c)
Step(c) ==
  \/ ReadSalt(c) \/ OpenSalt(c) \/ WriteSalt(c) \/ Ensure(c) \/ CreateEmpty(c)
  \/ Acquire(c) \/ Refused(c) \/ Read(c) \/ Locked(c)

Next ==
  \/ \E c \in Calls : Operation(c) \/ Step(c) \/ Fail(c)
  \/ \E p \in Procs : Die(p)

Spec == Init /\ [][Next]_vars
\* A file operation ends and its continuation runs, unless the process died.
FairSpec == Spec /\ \A c \in Calls : WF_vars(Step(c))

-----------------------------------------------------------------------------
\* Every variable has its type; refused attempts stay within their bound.
TypeOK ==
  /\ store \in Stores
  /\ pc \in [Calls -> {"idle"} \cup Outside \cup Critical \cup Ended]
  /\ job \in [Calls -> Jobs \cup {NoJob}]
  /\ request \in [Calls -> Requests \cup {NoRequest}]
  /\ mem \in [Calls -> Maps]
  /\ tries \in [Calls -> 0..retries]
  /\ key \in [Procs -> Salts \cup {NoKey}]
  /\ salt \in Salts \cup {"absent", "empty"}
  /\ file \in Files
  /\ tmp \in [Procs -> Files]
  /\ holder \in Calls \cup {"free"}
  /\ dead \subseteq Procs
  /\ committed \subseteq Calls

\* Readers take no lock: what they find is the whole result of one update, or
\* the empty file, never a file that another process is still writing.
FileWhole == file.state # "partial"

\* Whoever creates the salt, all keys in use and all sealed entries come from
\* the one that is in the salt file, or a stored secret is lost for good.
OneSalt ==
  /\ \A p \in Procs : key[p] \in {NoKey, salt}
  /\ store = "vault" =>
       \A n \in Names : file.map[n] = NoEntry \/ file.map[n].key = salt

\* A call that has settled in a process that lives does not hold the lock.
LockReturned == holder # "free" => pc[holder] \in Critical \cup {"dead"}

\* Every call that was made settles, or its process died.
EveryCallEnds == \A c \in Calls : Active(c) ~> pc[c] \in Ended

\* The file is an atomic map: each acknowledged update took effect once, at its
\* rename, on the bindings of that moment, and nothing else changed a binding.
Map == INSTANCE AtomicMap WITH
  Entries <- Entry \cup {NoEntry},
  map <- file.map,
  acknowledged <- {c \in committed : pc[c] = "answered"}
ImplementsAtomicMap == Map!Spec

\* What concurrent instances are to preserve: an update that was acknowledged
\* is in the file, unless another call updated the same name.
IndependentWritesKept ==
  \A c \in Calls :
    (/\ pc[c] = "answered"
     /\ c \in committed
     /\ \A d \in Calls \ {c} : request[d] = NoRequest \/ request[d].name # request[c].name)
    => file.map[request[c].name] = request[c].entry
=============================================================================
