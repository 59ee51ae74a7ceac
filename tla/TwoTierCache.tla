---------------------------- MODULE TwoTierCache ----------------------------
(***************************************************************************)
(* packages/cache/src/index.ts: one entry of the cache, in the memory of   *)
(* each process and in a file all processes share.  Every call waits at    *)
(* each file operation, so calls of one process interleave.  Other keys    *)
(* appear as evictions.  Entries are known by the call that set them.      *)
(***************************************************************************)
EXTENDS Naturals

CONSTANTS
  Calls,       \* calls on the entry
  Home,        \* the process of each call
  Asked,       \* what each call may be asked for: "get", "delete", "clear", "set"
  Ttls,        \* times to live a set may ask for; 0 is for ever
  defaultTtl,  \* time to live in memory of an entry that asks for none
  MaxTime      \* bound on the clock

Procs == {Home[c] : c \in Calls}
NoValue == "none"

VARIABLES
  now,         \* the clock
  lru,         \* the entry in each process's memory: value, and until when
  disk,        \* the file: absent, half written, or an entry with its expiry
  tmp,         \* the temporary file of each process
  into,        \* where the file is that a call has open: still the temporary one,
               \* the entry's since another call renamed it, or gone
  pc,          \* what each call does next
  op,          \* what it was asked
  entry,       \* the entry a set writes
  raw,         \* what a get has read
  hit,         \* what a get answers: a value or NoValue
  ttl,         \* history: when the entry a call set expires; 0 is never
  superseded,  \* history: values that each process has set over or deleted
  raced        \* history: processes whose get overlapped a change, or whose
               \* change failed

vars == <<now, lru, disk, tmp, into, pc, op, entry, raw, hit, ttl, superseded, raced>>

Entry(v, at) == [state |-> "whole", value |-> v, expiresAt |-> at]
Absent == [state |-> "absent", value |-> NoValue, expiresAt |-> 0]
Half == [state |-> "half", value |-> NoValue, expiresAt |-> 0]
Nothing == [value |-> NoValue, until |-> 0]

Init ==
  /\ now = 1
  /\ lru = [p \in Procs |-> Nothing]
  /\ disk = Absent
  /\ tmp = [p \in Procs |-> Absent]
  /\ into = [c \in Calls |-> "none"]
  /\ pc = [c \in Calls |-> "idle"]
  /\ op = [c \in Calls |-> "none"]
  /\ entry = [c \in Calls |-> Absent]
  /\ raw = [c \in Calls |-> Absent]
  /\ hit = [c \in Calls |-> NoValue]
  /\ ttl = [c \in Calls |-> 0]
  /\ superseded = [p \in Procs |-> {}]
  /\ raced = {}

Goto(c, where) == pc' = [pc EXCEPT ![c] = where]
Active(c) == pc[c] \notin {"idle", "ended", "stopped"}
Here(c) == {d \in Calls \ {c} : Home[d] = Home[c] /\ Active(d)}
InMemory(p) == lru[p].value # NoValue /\ now <= lru[p].until
Remember(p, v, until) == lru' = [lru EXCEPT ![p] = [value |-> v, until |-> until]]
Forget(p) == lru' = [lru EXCEPT ![p] = Nothing]
Expired(e) == e.expiresAt # 0 /\ e.expiresAt < now

Race(c, changes) ==
  raced' = IF \E d \in Here(c) : (op[d] # "get") \/ changes
             THEN raced \cup {Home[c]} ELSE raced

\* get looks into memory first, and otherwise reads the file.
Get(c) ==
  /\ pc[c] = "idle" /\ "get" \in Asked[c]
  /\ op' = [op EXCEPT ![c] = "get"]
  /\ Race(c, FALSE)
  /\ IF InMemory(Home[c])
       THEN Goto(c, "ended") /\ hit' = [hit EXCEPT ![c] = lru[Home[c]].value]
       ELSE Goto(c, "reading") /\ UNCHANGED hit
  /\ UNCHANGED <<now, lru, disk, tmp, into, entry, raw, ttl, superseded>>

ReadFile(c) ==
  /\ pc[c] = "reading"
  /\ raw' = [raw EXCEPT ![c] = disk]
  /\ Goto(c, "read")
  /\ UNCHANGED <<now, lru, disk, tmp, into, op, entry, hit, ttl, superseded, raced>>

\* Mutant: an entry that has expired is promoted all the same.
PromoteExpired(c) ==
  /\ pc[c] = "read"
  /\ IF raw[c].state = "whole"
       THEN /\ Goto(c, "ended")
            /\ hit' = [hit EXCEPT ![c] = raw[c].value]
            /\ Remember(Home[c], raw[c].value, now + defaultTtl)
       ELSE /\ Goto(c, IF raw[c].state = "absent" THEN "ended" ELSE "unlinking")
            /\ UNCHANGED <<hit, lru>>
  /\ UNCHANGED <<now, disk, tmp, into, op, entry, raw, ttl, superseded, raced>>

\* The continuation of the read: a fresh entry is promoted, with the default time
\* to live; an expired one, or one that does not parse, is deleted.
Promote(c) ==
  /\ pc[c] = "read"
  /\ IF raw[c].state = "whole" /\ ~Expired(raw[c])
       THEN /\ Goto(c, "ended")
            /\ hit' = [hit EXCEPT ![c] = raw[c].value]
            /\ Remember(Home[c], raw[c].value, now + defaultTtl)
       ELSE /\ Goto(c, IF raw[c].state = "absent" THEN "ended" ELSE "unlinking")
            /\ UNCHANGED <<hit, lru>>
  /\ UNCHANGED <<now, disk, tmp, into, op, entry, raw, ttl, superseded, raced>>

\* A change of the entry by a process: what it holds is now out of date there.
Supersede(c) ==
  superseded' = [superseded EXCEPT ![Home[c]] =
                   (@ \cup {disk.value, lru[Home[c]].value}) \ {NoValue}]

\* set puts the entry into memory at once, and then writes the file.
Set(c, seconds) ==
  /\ pc[c] = "idle" /\ "set" \in Asked[c]
  /\ LET at == IF seconds > 0 THEN now + seconds ELSE 0
     IN /\ entry' = [entry EXCEPT ![c] = Entry(c, at)]
        /\ ttl' = [ttl EXCEPT ![c] = at]
        /\ Remember(Home[c], c, now + (IF seconds > 0 THEN seconds ELSE defaultTtl))
  /\ op' = [op EXCEPT ![c] = "set"]
  /\ Race(c, TRUE) /\ Supersede(c)
  /\ Goto(c, "opening")
  /\ UNCHANGED <<now, disk, tmp, into, raw, hit>>

OpenTmp(c) ==
  /\ pc[c] = "opening"
  /\ tmp' = [tmp EXCEPT ![Home[c]] = Half]
  /\ into' = [into EXCEPT ![c] = "tmp"]
  /\ Goto(c, "filling")
  /\ UNCHANGED <<now, lru, disk, op, entry, raw, hit, ttl, superseded, raced>>

\* What an entry leaves in a file it is written into: more than itself, if the file
\* held more.
Written(content, e) == {e} \cup (IF content.state = "whole" THEN {Half} ELSE {})

\* The entry goes into the file that was opened, wherever it is by now.
FillTmp(c) ==
  /\ pc[c] = "filling"
  /\ CASE into[c] = "tmp" ->
            /\ \E content \in Written(tmp[Home[c]], entry[c]) :
                 tmp' = [tmp EXCEPT ![Home[c]] = content]
            /\ UNCHANGED disk
       [] into[c] = "file" -> UNCHANGED tmp /\ disk' \in Written(disk, entry[c])
       [] OTHER -> UNCHANGED <<disk, tmp>>
  /\ into' = [into EXCEPT ![c] = "none"]
  /\ Goto(c, "renaming")
  /\ UNCHANGED <<now, lru, op, entry, raw, hit, ttl, superseded, raced>>

\* The entry's file is replaced or deleted.
Replaced(d) == IF into[d] = "file" THEN "gone" ELSE into[d]

\* pruneDisk follows: it unlinks files of other keys, see Evict.
Rename(c) ==
  /\ pc[c] = "renaming"
  /\ tmp[Home[c]] # Absent
  /\ disk' = tmp[Home[c]]
  /\ tmp' = [tmp EXCEPT ![Home[c]] = Absent]
  /\ into' = [d \in Calls |-> IF into[d] = "tmp" /\ Home[d] = Home[c] THEN "file"
                              ELSE Replaced(d)]
  /\ Goto(c, "ended")
  /\ UNCHANGED <<now, lru, op, entry, raw, hit, ttl, superseded, raced>>

\* delete and clear drop the entry from memory and then from the disk.
Delete(c, how) ==
  /\ pc[c] = "idle" /\ how \in Asked[c]
  /\ op' = [op EXCEPT ![c] = how]
  /\ Forget(Home[c])
  /\ Race(c, TRUE) /\ Supersede(c)
  /\ Goto(c, "unlinking")
  /\ UNCHANGED <<now, disk, tmp, into, entry, raw, hit, ttl>>

\* deleteByHash deletes the path, whatever is there by now; clear deletes the
\* directory, and what other calls are writing with it.
Unlink(c) ==
  /\ pc[c] = "unlinking"
  /\ disk' = Absent
  /\ tmp' = IF op[c] = "clear" THEN [p \in Procs |-> Absent] ELSE tmp
  /\ into' = [d \in Calls |-> IF op[c] = "clear" /\ into[d] = "tmp" THEN "gone"
                              ELSE Replaced(d)]
  /\ Goto(c, "ended")
  /\ UNCHANGED <<now, lru, op, entry, raw, hit, ttl, superseded, raced>>

\* A file operation fails and the call rejects, or its process is killed.
Stop(c) ==
  /\ Active(c)
  /\ Goto(c, "stopped")
  /\ raced' = raced \cup {Home[c]}
  /\ into' = [into EXCEPT ![c] = "none"]
  /\ UNCHANGED <<now, lru, disk, tmp, op, entry, raw, hit, ttl, superseded>>

\* The pruning of another key's set unlinks the file, or the map in memory is full.
Evict ==
  /\ \/ disk' = Absent /\ into' = [d \in Calls |-> Replaced(d)] /\ UNCHANGED lru
     \/ \E p \in Procs : Forget(p) /\ UNCHANGED <<disk, into>>
  /\ UNCHANGED <<now, tmp, pc, op, entry, raw, hit, ttl, superseded, raced>>

Tick ==
  /\ now < MaxTime
  /\ now' = now + 1
  /\ UNCHANGED <<lru, disk, tmp, into, pc, op, entry, raw, hit, ttl, superseded, raced>>

Next ==
  \/ \E c \in Calls :
       \/ Get(c) \/ ReadFile(c) \/ Promote(c)
       \/ \E seconds \in Ttls : Set(c, seconds)
       \/ OpenTmp(c) \/ FillTmp(c) \/ Rename(c)
       \/ Delete(c, "delete") \/ Delete(c, "clear") \/ Unlink(c)
       \/ Stop(c)
  \/ Evict
  \/ Tick

Spec == Init /\ [][Next]_vars

-----------------------------------------------------------------------------
TypeOK ==
  /\ now \in 1..MaxTime
  /\ \A p \in Procs : lru[p].value \in Calls \cup {NoValue}
  /\ disk.state \in {"absent", "half", "whole"} /\ disk.value \in Calls \cup {NoValue}
  /\ pc \in [Calls -> {"idle", "reading", "read", "opening", "filling", "renaming",
                       "unlinking", "ended", "stopped"}]
  /\ hit \in [Calls -> Calls \cup {NoValue}]
  /\ into \in [Calls -> {"none", "tmp", "file", "gone"}]

\* How stale an answer may be.  What memory holds is dropped no later than the
\* default time to live after it has expired (a promotion starts a new term), and
\* a process never holds a value again that it has set over or deleted, unless one
\* of its gets overlapped such a change or a change failed half way.
MemoryTrue ==
  \A p \in Procs : lru[p].value # NoValue =>
    /\ ttl[lru[p].value] # 0 => lru[p].until <= ttl[lru[p].value] + defaultTtl
    /\ p \notin raced => lru[p].value \notin superseded[p]
=============================================================================
