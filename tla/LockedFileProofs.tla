--------------------------- MODULE LockedFileProofs ---------------------------
(***************************************************************************)
(* Proofs about LockedFile, for any calls, processes, names and values.    *)
(***************************************************************************)
EXTENDS LockedFile, TLAPS

USE DEF Outside, Critical, Ended, Updating

LEMMA MapsFacts ==
  /\ Nothing \in Maps
  /\ NoRequest \notin Requests
  /\ Absent \in Files /\ Partial \in Files
  /\ \A m \in Maps : Whole(m) \in Files /\ Whole(m).map = m /\ Whole(m) # Absent
  /\ \A f \in Files : f.map \in Maps
  /\ \A m \in Maps, n \in Names : m[n] \in Entry \cup {NoEntry}
  /\ Absent.map = Nothing
BY NoneAssumption
   DEF Nothing, Maps, NoRequest, Requests, Absent, Partial, Files, Whole, Entry

LEMMA JobFacts ==
  \A j \in Jobs : /\ j.name \in Names
                  /\ j.op \in {"set", "delete", "get", "list", "init"}
                  /\ j.op = "set" => j.value \in Values
BY DEF Jobs, VaultJobs, ConfigJobs

LEMMA SealedFacts ==
  \A j \in Jobs, k \in Keys : j.op = "set" => Sealed(j, k) \in Requests
BY JobFacts DEF Sealed, Requests, Entry

LEMMA UpdatedFacts ==
  ASSUME NEW c \in Calls, NEW m \in Maps, request[c] \in Requests
  PROVE  Updated(c, m) \in Maps
BY DEF Updated, Maps, Requests

\* What a call asks for is fixed once, before it touches the file.
RequestInv ==
  \A c \in Calls :
    /\ pc[c] = "idle" => request[c] = NoRequest
    /\ pc[c] \notin {"idle", "dead"} => job[c] \in Jobs
    /\ pc[c] \in {"salting", "opening salt", "writing salt"} =>
         /\ job[c].op \in {"set", "get"}
         /\ job[c].op = "set" => request[c] = NoRequest
    /\ pc[c] \in {"ensuring", "creating"} /\ job[c].op \in Updating =>
         request[c] \in Requests
    /\ pc[c] \in {"locking"} \cup Critical => request[c] \in Requests
TypeInv == TypeOK /\ RequestInv

LEMMA InitType == Init => TypeInv
<1> SUFFICES ASSUME Init PROVE TypeInv
  OBVIOUS
<1>1. file \in Files /\ salt \in Salts \cup {"absent", "empty"}
  <2>1. CASE file = Absent /\ salt = "absent"
    BY <2>1, MapsFacts
  <2>2. CASE /\ salt = IF store = "vault" THEN "older" ELSE "absent"
             /\ \E v \in Values :
                  file = Whole([n \in Names |->
                    [value |-> v,
                     key |-> IF store = "vault" THEN "older" ELSE "plain"]])
    BY <2>2 DEF Whole, Files, Maps, Entry, Keys, Salts
  <2> QED BY <2>1, <2>2 DEF Init
<1>2. tmp \in [Procs -> Files] /\ mem \in [Calls -> Maps]
  BY MapsFacts DEF Init
<1>3. TypeOK
  BY <1>1, <1>2, RetriesAssumption DEF Init, TypeOK
<1>4. RequestInv
  BY DEF Init, RequestInv
<1> QED BY <1>3, <1>4 DEF TypeInv

LEMMA BeginType ==
  ASSUME TypeInv, NEW c \in Calls, NEW s, NEW ops, Begin(c, s, ops)
  PROVE  /\ pc[c] = "idle" /\ request[c] = NoRequest
         /\ job' \in [Calls -> Jobs \cup {NoJob}]
         /\ job'[c] \in Jobs /\ job'[c].op \in ops
         /\ \A d \in Calls : d # c => job'[d] = job[d]
         /\ UNCHANGED <<store, mem, tries, key, salt, file, tmp, holder, dead,
                        committed>>
BY DEF Begin, TypeInv, TypeOK, RequestInv

LEMMA SettleType ==
  ASSUME TypeInv, NEW c \in Calls, NEW how \in {"answered", "rejected"},
         Settle(c, how)
  PROVE  /\ pc' = [pc EXCEPT ![c] = how]
         /\ pc' \in [Calls -> {"idle"} \cup Outside \cup Critical \cup Ended]
         /\ mem' \in [Calls -> Maps]
         /\ tries' \in [Calls -> 0..retries]
<1>1. Nothing \in Maps /\ 0 \in 0..retries
  BY MapsFacts, RetriesAssumption
<1> QED BY <1>1 DEF Settle, Goto, TypeInv, TypeOK

LEMMA SettleRequest ==
  ASSUME TypeInv, NEW c \in Calls, NEW how \in {"answered", "rejected"},
         Settle(c, how), pc[c] \notin {"idle", "dead"}, UNCHANGED <<job, request>>
  PROVE  RequestInv'
<1>1. \A d \in Calls : pc'[d] = IF d = c THEN how ELSE pc[d]
  BY DEF Settle, Goto, TypeInv, TypeOK
<1> QED BY <1>1 DEF TypeInv, RequestInv

LEMMA NextType == TypeInv /\ [Next]_vars => TypeInv'
<1> SUFFICES ASSUME TypeInv, [Next]_vars PROVE TypeInv'
  OBVIOUS
<1> USE HomeAssumption, RetriesAssumption
<1>1. ASSUME NEW c \in Calls, VaultSet(c) PROVE TypeInv'
  <2>1. /\ pc[c] = "idle" /\ request[c] = NoRequest
        /\ job' \in [Calls -> Jobs \cup {NoJob}]
        /\ job'[c] \in Jobs /\ job'[c].op = "set"
        /\ \A d \in Calls : d # c => job'[d] = job[d]
        /\ UNCHANGED <<store, mem, tries, key, salt, file, tmp, holder, dead,
                       committed>>
    BY <1>1, BeginType DEF VaultSet
  <2>2. CASE Goto(c, "salting") /\ UNCHANGED request
    BY <2>1, <2>2 DEF TypeInv, TypeOK, RequestInv, Goto
  <2>3. CASE /\ key[Home[c]] # NoKey
             /\ Ask(c, Sealed(job'[c], key[Home[c]]))
             /\ Goto(c, "ensuring")
    <3>1. Sealed(job'[c], key[Home[c]]) \in Requests
      BY <2>1, <2>3, SealedFacts DEF TypeInv, TypeOK, Keys
    <3> QED BY <2>1, <2>3, <3>1 DEF TypeInv, TypeOK, RequestInv, Goto, Ask
  <2> QED BY <1>1, <2>2, <2>3 DEF VaultSet
<1>2. ASSUME NEW c \in Calls, VaultDelete(c) PROVE TypeInv'
  <2>1. /\ pc[c] = "idle" /\ request[c] = NoRequest
        /\ job' \in [Calls -> Jobs \cup {NoJob}]
        /\ job'[c] \in Jobs /\ job'[c].op = "delete"
        /\ \A d \in Calls : d # c => job'[d] = job[d]
        /\ UNCHANGED <<store, mem, tries, key, salt, file, tmp, holder, dead,
                       committed>>
    BY <1>2, BeginType DEF VaultDelete
  <2>2. [name |-> job'[c].name, entry |-> NoEntry] \in Requests
    BY <2>1, JobFacts DEF Requests
  <2> QED BY <1>2, <2>1, <2>2
          DEF VaultDelete, TypeInv, TypeOK, RequestInv, Goto, Ask
<1>3. ASSUME NEW c \in Calls, VaultRead(c) PROVE TypeInv'
  <2>1. /\ pc[c] = "idle" /\ request[c] = NoRequest
        /\ job' \in [Calls -> Jobs \cup {NoJob}]
        /\ job'[c] \in Jobs /\ job'[c].op \in {"get", "list"}
        /\ \A d \in Calls : d # c => job'[d] = job[d]
        /\ UNCHANGED <<store, mem, tries, key, salt, file, tmp, holder, dead,
                       committed>>
    BY <1>3, BeginType DEF VaultRead
  <2> QED BY <1>3, <2>1 DEF VaultRead, TypeInv, TypeOK, RequestInv, Goto
<1>4. ASSUME NEW c \in Calls, ConfigSet(c) PROVE TypeInv'
  <2>1. /\ pc[c] = "idle" /\ request[c] = NoRequest
        /\ job' \in [Calls -> Jobs \cup {NoJob}]
        /\ job'[c] \in Jobs /\ job'[c].op = "set"
        /\ \A d \in Calls : d # c => job'[d] = job[d]
        /\ UNCHANGED <<store, mem, tries, key, salt, file, tmp, holder, dead,
                       committed>>
    BY <1>4, BeginType DEF ConfigSet
  <2>2. Sealed(job'[c], "plain") \in Requests
    BY <2>1, SealedFacts DEF Keys
  <2> QED BY <1>4, <2>1, <2>2
          DEF ConfigSet, TypeInv, TypeOK, RequestInv, Goto, Ask
<1>5. ASSUME NEW c \in Calls, ConfigInit(c) PROVE TypeInv'
  <2>1. /\ pc[c] = "idle" /\ request[c] = NoRequest
        /\ job' \in [Calls -> Jobs \cup {NoJob}]
        /\ job'[c] \in Jobs /\ job'[c].op = "init"
        /\ \A d \in Calls : d # c => job'[d] = job[d]
        /\ UNCHANGED <<store, mem, tries, key, salt, file, tmp, holder, dead,
                       committed>>
    BY <1>5, BeginType DEF ConfigInit
  <2> QED BY <1>5, <2>1 DEF ConfigInit, TypeInv, TypeOK, RequestInv, Goto
<1>6. ASSUME NEW c \in Calls, NEW k \in Salts, Derived(c, k),
             pc[c] \in {"salting", "writing salt"},
             salt' \in Salts \cup {"absent", "empty"},
             UNCHANGED <<store, job, file, tmp, holder, dead, committed>>
      PROVE  TypeInv'
  <2>1. job[c] \in Jobs
    BY <1>6 DEF TypeInv, RequestInv
  <2>2. CASE /\ job[c].op = "set"
             /\ Ask(c, Sealed(job[c], k))
             /\ Goto(c, "ensuring")
             /\ UNCHANGED <<mem, tries>>
    <3>1. Sealed(job[c], k) \in Requests
      BY <2>1, <2>2, SealedFacts DEF Keys
    <3> QED BY <1>6, <2>2, <3>1
            DEF TypeInv, TypeOK, RequestInv, Goto, Ask, Derived
  <2>3. CASE /\ Settle(c, IF mem[c][job[c].name].key = k THEN "answered" ELSE "rejected")
             /\ UNCHANGED request
    <3>1. PICK how \in {"answered", "rejected"} : Settle(c, how)
      BY <2>3
    <3>2. key' \in [Procs -> Salts \cup {NoKey}]
      BY <1>6 DEF Derived, TypeInv, TypeOK
    <3>3. TypeOK'
      BY <1>6, <2>3, <3>1, <3>2, SettleType DEF TypeInv, TypeOK
    <3>4. RequestInv'
      BY <1>6, <2>3, <3>1, SettleRequest
    <3> QED BY <3>3, <3>4 DEF TypeInv
  <2> QED BY <1>6, <2>2, <2>3 DEF Derived
<1>7. ASSUME NEW c \in Calls, ReadSalt(c) PROVE TypeInv'
  <2>1. CASE salt = "absent" /\ Goto(c, "opening salt")
             /\ UNCHANGED <<request, mem, tries, key>>
    BY <1>7, <2>1 DEF ReadSalt, TypeInv, TypeOK, RequestInv, Goto
  <2>2. CASE Settle(c, "rejected") /\ UNCHANGED <<request, key>>
    BY <1>7, <2>2, SettleType DEF ReadSalt, TypeInv, TypeOK, RequestInv
  <2>3. CASE salt \in Salts /\ Derived(c, salt)
    BY <1>6, <1>7, <2>3 DEF ReadSalt, TypeInv, TypeOK
  <2> QED BY <1>7, <2>1, <2>2, <2>3 DEF ReadSalt
<1>8. ASSUME NEW c \in Calls, OpenSalt(c) PROVE TypeInv'
  BY <1>8 DEF OpenSalt, TypeInv, TypeOK, RequestInv, Goto
<1>9. ASSUME NEW c \in Calls, WriteSalt(c) PROVE TypeInv'
  BY <1>6, <1>9 DEF WriteSalt, Salts
<1>10. ASSUME NEW c \in Calls, Ensure(c) PROVE TypeInv'
  BY <1>10 DEF Ensure, AfterEnsure, TypeInv, TypeOK, RequestInv, Goto
<1>11. ASSUME NEW c \in Calls, CreateEmpty(c) PROVE TypeInv'
  BY <1>11, MapsFacts DEF CreateEmpty, AfterEnsure, TypeInv, TypeOK, RequestInv, Goto
<1>12. ASSUME NEW c \in Calls, Acquire(c) PROVE TypeInv'
  BY <1>12 DEF Acquire, TypeInv, TypeOK, RequestInv, Goto
<1>13. ASSUME NEW c \in Calls, Refused(c) PROVE TypeInv'
  <2>1. CASE /\ tries[c] < retries
             /\ tries' = [tries EXCEPT ![c] = @ + 1]
             /\ UNCHANGED <<pc, mem>>
    <3>1. tries[c] \in 0..retries /\ tries \in [Calls -> 0..retries]
      BY DEF TypeInv, TypeOK
    <3>2. tries[c] + 1 \in 0..retries
      BY <2>1, <3>1
    <3>3. tries' \in [Calls -> 0..retries]
      BY <2>1, <3>1, <3>2
    <3> QED BY <1>13, <2>1, <3>3 DEF Refused, TypeInv, TypeOK, RequestInv
  <2>2. CASE Settle(c, "rejected")
    BY <1>13, <2>2, SettleType DEF Refused, TypeInv, TypeOK, RequestInv
  <2> QED BY <1>13, <2>1, <2>2 DEF Refused
<1>14. ASSUME NEW c \in Calls, Read(c) PROVE TypeInv'
  <2>1. file.map \in Maps
    BY MapsFacts DEF TypeInv, TypeOK
  <2>2. ASSUME job[c].op = "get", mem' = [mem EXCEPT ![c] = file.map],
               Goto(c, "salting"), UNCHANGED tries
        PROVE  TypeInv'
    BY <1>14, <2>1, <2>2 DEF Read, TypeInv, TypeOK, RequestInv, Goto
  <2>3. ASSUME NEW how \in {"answered", "rejected"}, Settle(c, how)
        PROVE  TypeInv'
    <3>1. pc[c] = "reading"
          /\ UNCHANGED <<store, job, request, key, salt, file, tmp, holder, dead,
                         committed>>
      BY <1>14 DEF Read
    <3> QED BY <2>3, <3>1, SettleType DEF TypeInv, TypeOK, RequestInv
  <2> QED BY <1>14, <2>2, <2>3 DEF Read
<1>15. ASSUME NEW c \in Calls, Load(c) PROVE TypeInv'
  BY <1>15, MapsFacts DEF Load, TypeInv, TypeOK, RequestInv, Goto
<1>16. ASSUME NEW c \in Calls, Truncate(c) PROVE TypeInv'
  BY <1>16, MapsFacts DEF Truncate, TypeInv, TypeOK, RequestInv, Goto
<1>17. ASSUME NEW c \in Calls, Fill(c) PROVE TypeInv'
  <2>1. Updated(c, mem[c]) \in Maps
    BY <1>17, UpdatedFacts DEF Fill, TypeInv, TypeOK, RequestInv
  <2>2. Whole(Updated(c, mem[c])) \in Files
    BY <2>1, MapsFacts
  <2> QED BY <1>17, <2>2 DEF Fill, TypeInv, TypeOK, RequestInv, Goto
<1>18. ASSUME NEW c \in Calls, Rename(c) PROVE TypeInv'
  BY <1>18, MapsFacts DEF Rename, TypeInv, TypeOK, RequestInv, Goto
<1>19. ASSUME NEW c \in Calls, Release(c) PROVE TypeInv'
  <2>1. PICK how \in {"answered", "rejected"} : Settle(c, how)
    BY <1>19 DEF Release
  <2> QED BY <1>19, <2>1, SettleType DEF Release, TypeInv, TypeOK, RequestInv
<1>20. ASSUME NEW c \in Calls, Fail(c) PROVE TypeInv'
  <2>1. CASE Settle(c, "rejected") /\ pc[c] \in Outside
    <3>1. UNCHANGED <<store, job, request, key, salt, file, tmp, holder, dead,
                      committed>>
      BY <1>20 DEF Fail
    <3>2. TypeOK'
      BY <2>1, <3>1, SettleType DEF TypeInv, TypeOK
    <3>3. RequestInv'
      BY <2>1, <3>1, SettleRequest
    <3> QED BY <3>2, <3>3 DEF TypeInv
  <2>2. CASE /\ pc[c] \in {"loading", "truncating", "filling", "renaming"}
             /\ Goto(c, "aborting")
             /\ UNCHANGED <<mem, tries>>
    BY <1>20, <2>2 DEF Fail, TypeInv, TypeOK, RequestInv, Goto
  <2> QED BY <1>20, <2>1, <2>2 DEF Fail
<1>21. ASSUME NEW p \in Procs, Die(p) PROVE TypeInv'
  <2>1. Nothing \in Maps /\ 0 \in 0..retries
    BY MapsFacts
  <2>2. mem' \in [Calls -> Maps] /\ tries' \in [Calls -> 0..retries]
    BY <1>21, <2>1 DEF Die, TypeInv, TypeOK
  <2>3. key' \in [Procs -> Salts \cup {NoKey}] /\ dead' \subseteq Procs
    BY <1>21, DeathAssumption DEF Die, TypeInv, TypeOK
  <2>4. /\ pc' \in [Calls -> {"idle"} \cup Outside \cup Critical \cup Ended]
        /\ \A c \in Calls : pc'[c] = pc[c] \/ pc'[c] = "dead"
    BY <1>21 DEF Die, TypeInv, TypeOK
  <2>5. TypeOK'
    BY <1>21, <2>2, <2>3, <2>4 DEF Die, TypeInv, TypeOK
  <2>6. RequestInv'
    BY <1>21, <2>4 DEF Die, TypeInv, RequestInv
  <2> QED BY <2>5, <2>6 DEF TypeInv
<1>22. CASE UNCHANGED vars
  BY <1>22 DEF vars, TypeInv, TypeOK, RequestInv, Requests
<1> QED
  BY <1>1, <1>2, <1>3, <1>4, <1>5, <1>7, <1>8, <1>9, <1>10, <1>11, <1>12, <1>13,
     <1>14, <1>15, <1>16, <1>17, <1>18, <1>19, <1>20, <1>21, <1>22
  DEF Next, Operation, Step, Locked

LEMMA TypeInvariant == Spec => []TypeInv
BY InitType, NextType, PTL DEF Spec

\* Type correctness, whatever the processes do to the file and its lock.
THEOREM TypeCorrect == Spec => []TypeOK
<1>1. TypeInv => TypeOK
  BY DEF TypeInv
<1> QED BY <1>1, TypeInvariant, PTL

-----------------------------------------------------------------------------
\* The lock excludes, and what is renamed is the update of what was loaded.
LockInv ==
  /\ LockReturned
  /\ \A c \in Calls : pc[c] \in Critical => holder = c
  /\ \A c \in Calls : pc[c] = "renaming" => tmp[Home[c]] = Whole(Updated(c, mem[c]))
\* A rename is what commits, and only a committed update is answered.
CommitInv ==
  \A c \in Calls :
    /\ c \in committed => pc[c] \in {"releasing", "answered", "dead"}
    /\ pc[c] = "releasing" => c \in committed
\* While the file is missing one call is under way; it alone creates the file,
\* so what a call has loaded stays current until it renames.
AloneInv ==
  FirstAlone =>
    /\ file = Absent => \A c, d \in Calls : Active(c) /\ Active(d) => c = d
    /\ \A c \in Calls : pc[c] = "creating" => file = Absent
    /\ \A c \in Calls :
         pc[c] \in {"truncating", "filling", "renaming"} => mem[c] = file.map
AtomInv == LockInv /\ CommitInv /\ AloneInv /\ FileWhole

LEMMA InitAtom == Init => AtomInv
BY DEF Init, AtomInv, LockInv, CommitInv, AloneInv, FileWhole, LockReturned,
       Absent, Whole, Active

LEMMA Moves ==
  ASSUME TypeInv, NEW c \in Calls, NEW label, Goto(c, label)
  PROVE  \A d \in Calls : pc'[d] = IF d = c THEN label ELSE pc[d]
BY DEF Goto, TypeInv, TypeOK

\* Steps outside the lock that touch neither the file nor the lock.
LEMMA QuietStep ==
  ASSUME TypeInv, AtomInv, NEW c \in Calls, NEW label,
         Goto(c, label),
         pc[c] \notin Critical \cup {"answered", "rejected", "dead"},
         label \notin Critical \cup {"creating", "dead"},
         pc[c] = "idle" => (FirstAlone /\ file = Absent => \A d \in Calls : ~Active(d)),
         UNCHANGED <<file, tmp, holder, committed>>,
         \A d \in Calls : d # c => mem'[d] = mem[d] /\ request'[d] = request[d]
  PROVE  AtomInv'
<1>1. \A d \in Calls : pc'[d] = IF d = c THEN label ELSE pc[d]
  BY Moves
<1>2. LockInv'
  <2>1. LockReturned'
    BY <1>1 DEF LockReturned, AtomInv, LockInv, TypeInv, TypeOK
  <2>2. \A d \in Calls : pc'[d] \in Critical => holder' = d
    BY <1>1 DEF AtomInv, LockInv
  <2>3. ASSUME NEW d \in Calls, pc'[d] = "renaming"
        PROVE  tmp'[Home[d]] = Whole(Updated(d, mem[d]))'
    BY <1>1, <2>3 DEF AtomInv, LockInv, Updated
  <2> QED BY <2>1, <2>2, <2>3 DEF LockInv, Updated, Whole
<1>3. CommitInv'
  BY <1>1 DEF AtomInv, CommitInv
<1>4. AloneInv'
  BY <1>1 DEF AtomInv, AloneInv, Active
<1>5. FileWhole'
  BY DEF AtomInv, FileWhole
<1> QED BY <1>2, <1>3, <1>4, <1>5 DEF AtomInv

LEMMA BeginAlone ==
  ASSUME NEW c, NEW s, NEW ops, Begin(c, s, ops)
  PROVE  /\ pc[c] = "idle"
         /\ FirstAlone /\ file = Absent => \A d \in Calls : ~Active(d)
         /\ UNCHANGED <<mem, file, tmp, holder, committed>>
BY DEF Begin

LEMMA NextAtom == TypeInv /\ AtomInv /\ [Next]_vars => AtomInv'
<1> SUFFICES ASSUME TypeInv, AtomInv, [Next]_vars PROVE AtomInv'
  OBVIOUS
<1>1. ASSUME NEW c \in Calls, Operation(c) PROVE AtomInv'
  <2>1. /\ pc[c] = "idle"
        /\ FirstAlone /\ file = Absent => \A d \in Calls : ~Active(d)
        /\ UNCHANGED <<mem, file, tmp, holder, committed>>
    BY <1>1, BeginAlone
       DEF Operation, VaultSet, VaultDelete, VaultRead, ConfigSet, ConfigInit
  <2>2. PICK label \in {"salting", "ensuring", "reading"} : Goto(c, label)
    BY <1>1 DEF Operation, VaultSet, VaultDelete, VaultRead, ConfigSet, ConfigInit
  <2>3. \A d \in Calls : d # c => request'[d] = request[d]
    BY <1>1 DEF Operation, VaultSet, VaultDelete, VaultRead, ConfigSet, ConfigInit,
                Ask, TypeInv, TypeOK
  <2> QED BY <2>1, <2>2, <2>3, QuietStep
<1>2. ASSUME NEW c \in Calls, ReadSalt(c) \/ WriteSalt(c) PROVE AtomInv'
  <2>1. /\ pc[c] \in {"salting", "writing salt"}
        /\ UNCHANGED <<file, tmp, holder, committed>>
    BY <1>2 DEF ReadSalt, WriteSalt
  <2>2. PICK label \in {"opening salt", "ensuring", "answered", "rejected"} :
          Goto(c, label)
    BY <1>2 DEF ReadSalt, WriteSalt, Derived, Settle
  <2>3. \A d \in Calls : d # c => mem'[d] = mem[d] /\ request'[d] = request[d]
    BY <1>2 DEF ReadSalt, WriteSalt, Derived, Settle, Ask, TypeInv, TypeOK
  <2> QED BY <2>1, <2>2, <2>3, QuietStep
<1>3. ASSUME NEW c \in Calls, OpenSalt(c) PROVE AtomInv'
  <2>1. PICK label \in {"writing salt", "salting"} : Goto(c, label)
    BY <1>3 DEF OpenSalt
  <2> QED BY <1>3, <2>1, QuietStep DEF OpenSalt
<1>4. ASSUME NEW c \in Calls, Ensure(c) PROVE AtomInv'
  <2>1. CASE file = Absent
    <3>1. \A d \in Calls : pc'[d] = IF d = c THEN "creating" ELSE pc[d]
      BY <1>4, <2>1, Moves DEF Ensure
    <3> QED BY <1>4, <2>1, <3>1
            DEF Ensure, AtomInv, LockInv, CommitInv, AloneInv, FileWhole,
                LockReturned, Active, Updated, TypeInv, TypeOK
  <2>2. CASE file # Absent
    BY <1>4, <2>2, QuietStep DEF Ensure, AfterEnsure
  <2> QED BY <2>1, <2>2
<1>5. ASSUME NEW c \in Calls, CreateEmpty(c) PROVE AtomInv'
  <2>1. PICK label \in {"locking", "reading"} : Goto(c, label)
    BY <1>5 DEF CreateEmpty, AfterEnsure
  <2>2. \A d \in Calls : pc'[d] = IF d = c THEN label ELSE pc[d]
    BY <2>1, Moves
  <2>3. file'.state = "whole" /\ file' # Absent
    BY <1>5 DEF CreateEmpty, Whole, Absent
  <2>4. LockInv' /\ CommitInv'
    BY <1>5, <2>2 DEF CreateEmpty, AtomInv, LockInv, CommitInv, LockReturned,
                      Updated, TypeInv, TypeOK
  <2>5. AloneInv'
    <3>1. FirstAlone => \A d \in Calls : Active(d) => d = c
      BY <1>5 DEF CreateEmpty, AtomInv, AloneInv, Active
    <3> QED BY <2>2, <2>3, <3>1 DEF AloneInv, Active
  <2> QED BY <2>3, <2>4, <2>5 DEF AtomInv, FileWhole
<1>6. ASSUME NEW c \in Calls, Acquire(c) PROVE AtomInv'
  <2>1. \A d \in Calls : pc'[d] = IF d = c THEN "loading" ELSE pc[d]
    BY <1>6, Moves DEF Acquire
  <2>2. \A d \in Calls : pc[d] \notin Critical
    BY <1>6, CallsAssumption DEF Acquire, AtomInv, LockInv
  <2> QED BY <1>6, <2>1, <2>2
          DEF Acquire, AtomInv, LockInv, CommitInv, AloneInv, FileWhole,
              LockReturned, Active, Updated, TypeInv, TypeOK
<1>7. ASSUME NEW c \in Calls, Refused(c) PROVE AtomInv'
  <2>1. CASE UNCHANGED <<pc, mem>>
    BY <1>7, <2>1 DEF Refused, AtomInv, LockInv, CommitInv, AloneInv, FileWhole,
                      LockReturned, Active, Updated
  <2>2. CASE Settle(c, "rejected")
    BY <1>7, <2>2, QuietStep DEF Refused, Settle, TypeInv, TypeOK
  <2> QED BY <1>7, <2>1, <2>2 DEF Refused
<1>8. ASSUME NEW c \in Calls, Read(c) PROVE AtomInv'
  <2>1. PICK label \in {"salting", "answered", "rejected"} : Goto(c, label)
    BY <1>8 DEF Read, Settle
  <2>2. \A d \in Calls : d # c => mem'[d] = mem[d]
    BY <1>8 DEF Read, Settle, TypeInv, TypeOK
  <2>3. pc[c] = "reading" /\ UNCHANGED <<request, file, tmp, holder, committed>>
    BY <1>8 DEF Read
  <2> QED BY <2>1, <2>2, <2>3, QuietStep
<1>9. ASSUME NEW c \in Calls, Load(c) \/ Truncate(c) \/ Fill(c) PROVE AtomInv'
  <2>1. PICK label \in {"truncating", "filling", "renaming"} : Goto(c, label)
    BY <1>9 DEF Load, Truncate, Fill
  <2>2. \A d \in Calls : pc'[d] = IF d = c THEN label ELSE pc[d]
    BY <2>1, Moves
  <2>3. /\ pc[c] \in {"loading", "truncating", "filling"}
        /\ UNCHANGED <<request, file, holder, committed>>
        /\ \A d \in Calls : d # c => mem'[d] = mem[d]
    BY <1>9 DEF Load, Truncate, Fill, TypeInv, TypeOK
  <2>4. \A d \in Calls : d # c => pc[d] \notin Critical
    BY <2>3 DEF AtomInv, LockInv
  <2>5. LockReturned' /\ CommitInv' /\ FileWhole'
    BY <2>1, <2>2, <2>3
       DEF AtomInv, LockInv, LockReturned, CommitInv, FileWhole, TypeInv, TypeOK
  <2>6. ASSUME pc'[c] = "renaming" PROVE tmp'[Home[c]] = Whole(Updated(c, mem[c]))'
    BY <1>9, <2>6, HomeAssumption
       DEF Load, Truncate, Fill, Goto, TypeInv, TypeOK, Updated
  <2>7. LockInv'
    BY <2>1, <2>2, <2>3, <2>4, <2>5, <2>6 DEF AtomInv, LockInv
  <2>8. mem'[c] = file.map \/ (pc[c] # "loading" /\ mem'[c] = mem[c])
    BY <1>9 DEF Load, Truncate, Fill, TypeInv, TypeOK
  <2>9. AloneInv'
    BY <2>1, <2>2, <2>3, <2>4, <2>8 DEF AtomInv, AloneInv, Active
  <2> QED BY <2>5, <2>7, <2>9 DEF AtomInv
<1>10. ASSUME NEW c \in Calls, Rename(c) PROVE AtomInv'
  <2>1. \A d \in Calls : pc'[d] = IF d = c THEN "releasing" ELSE pc[d]
    BY <1>10, Moves DEF Rename
  <2>2. file' = Whole(Updated(c, mem[c])) /\ pc[c] = "renaming"
    BY <1>10 DEF Rename, AtomInv, LockInv
  <2>3. file'.state = "whole" /\ file' # Absent
    BY <2>2 DEF Whole, Absent
  <2>4. \A d \in Calls : d # c => pc[d] \notin Critical
    BY <2>2 DEF AtomInv, LockInv
  <2>5. LockInv' /\ CommitInv'
    BY <1>10, <2>1, <2>2, <2>4
       DEF Rename, AtomInv, LockInv, CommitInv, LockReturned, TypeInv, TypeOK
  <2>6. FirstAlone => \A d \in Calls : pc[d] # "creating"
    BY <2>2 DEF AtomInv, AloneInv, Active
  <2>7. AloneInv'
    BY <2>1, <2>3, <2>4, <2>6 DEF AloneInv
  <2> QED BY <2>3, <2>5, <2>7 DEF AtomInv, FileWhole
<1>11. ASSUME NEW c \in Calls, Release(c) PROVE AtomInv'
  <2>1. PICK label \in {"answered", "rejected"} :
          /\ Settle(c, label)
          /\ label = "answered" <=> pc[c] = "releasing"
    BY <1>11 DEF Release
  <2>2. \A d \in Calls : /\ pc'[d] = IF d = c THEN label ELSE pc[d]
                         /\ d # c => mem'[d] = mem[d]
    BY <2>1, Moves DEF Settle, TypeInv, TypeOK
  <2>3. \A d \in Calls : d # c => pc[d] \notin Critical
    BY <1>11 DEF Release, AtomInv, LockInv
  <2> QED BY <1>11, <2>1, <2>2, <2>3
          DEF Release, AtomInv, LockInv, CommitInv, AloneInv, FileWhole,
              LockReturned, Active
<1>12. ASSUME NEW c \in Calls, Fail(c) PROVE AtomInv'
  <2>1. CASE Settle(c, "rejected") /\ pc[c] \in Outside
    BY <1>12, <2>1, QuietStep DEF Fail, Settle, TypeInv, TypeOK
  <2>2. CASE /\ pc[c] \in {"loading", "truncating", "filling", "renaming"}
             /\ Goto(c, "aborting")
             /\ UNCHANGED <<mem, tries>>
    <3>1. \A d \in Calls : pc'[d] = IF d = c THEN "aborting" ELSE pc[d]
      BY <2>2, Moves
    <3> QED BY <1>12, <2>2, <3>1
            DEF Fail, AtomInv, LockInv, CommitInv, AloneInv, FileWhole,
                LockReturned, Active, Updated, TypeInv, TypeOK
  <2> QED BY <1>12, <2>1, <2>2 DEF Fail
<1>13. ASSUME NEW p \in Procs, Die(p) PROVE AtomInv'
  <2>1. \A d \in Calls :
          \/ pc'[d] = pc[d] /\ (pc[d] \notin Ended => mem'[d] = mem[d])
          \/ pc'[d] = "dead" /\ pc[d] \notin {"answered", "rejected"}
    BY <1>13 DEF Die, TypeInv, TypeOK
  <2>2. UNCHANGED <<request, file, tmp, holder, committed>>
    BY <1>13 DEF Die
  <2>3. LockReturned' /\ CommitInv' /\ FileWhole'
    BY <2>1, <2>2
       DEF AtomInv, LockInv, LockReturned, CommitInv, FileWhole, TypeInv, TypeOK
  <2>4. LockInv'
    BY <2>1, <2>2, <2>3 DEF AtomInv, LockInv, Updated
  <2>5. AloneInv'
    BY <2>1, <2>2 DEF AtomInv, AloneInv, Active
  <2> QED BY <2>3, <2>4, <2>5 DEF AtomInv
<1>14. CASE UNCHANGED vars
  BY <1>14 DEF vars, AtomInv, LockInv, CommitInv, AloneInv, FileWhole,
               LockReturned, Active, Updated
<1> QED
  BY <1>1, <1>2, <1>3, <1>4, <1>5, <1>6, <1>7, <1>8, <1>9, <1>10, <1>11, <1>12,
     <1>13, <1>14 DEF Next, Step, Locked

LEMMA AtomInvariant == Spec => [](TypeInv /\ AtomInv)
<1>1. Init => TypeInv /\ AtomInv
  BY InitType, InitAtom
<1>2. TypeInv /\ AtomInv /\ [Next]_vars => (TypeInv /\ AtomInv)'
  BY NextType, NextAtom
<1> QED BY <1>1, <1>2, PTL DEF Spec

\* Readers, who take no lock, never find a half-written file: the update is
\* written beside the file and renamed over it, whoever dies when.
THEOREM NeverHalfWritten == Spec => []FileWhole
<1>1. AtomInv => FileWhole
  BY DEF AtomInv
<1> QED BY <1>1, AtomInvariant, PTL

\* A call that fails or succeeds gives the lock back; only a death can keep it.
THEOREM LockAlwaysReturned == Spec => []LockReturned
<1>1. AtomInv => LockReturned
  BY DEF AtomInv, LockInv
<1> QED BY <1>1, AtomInvariant, PTL

-----------------------------------------------------------------------------
\* Calls that are told of their update.
Acknowledged == {c \in committed : pc[c] = "answered"}

LEMMA InitMap == Init /\ TypeInv => Map!Init
<1> SUFFICES ASSUME Init, TypeInv PROVE Map!Init
  OBVIOUS
<1>1. file.map \in [Names -> Entry \cup {NoEntry}]
  BY MapsFacts DEF TypeInv, TypeOK, Maps
<1> QED BY <1>1 DEF Init, Map!Init

\* Steps that fix no request, commit nothing and settle no committed call.
LEMMA MapStutters ==
  ASSUME UNCHANGED <<file, request, committed>>,
         \A c \in Calls : c \in committed => (pc'[c] = "answered" <=> pc[c] = "answered"),
         committed \subseteq Calls
  PROVE  UNCHANGED Map!vars
<1>1. Acknowledged' = Acknowledged
  BY DEF Acknowledged
<1> QED BY <1>1 DEF Map!vars, Acknowledged

LEMMA MapAsk ==
  ASSUME TypeInv, AtomInv, NEW c \in Calls, NEW r \in Requests, Ask(c, r),
         request[c] = NoRequest, Goto(c, "ensuring"),
         pc[c] \in {"idle", "salting", "writing salt"},
         UNCHANGED <<file, committed>>
  PROVE  Map!Ask(c)
<1>1. \A d \in Calls : pc'[d] = IF d = c THEN "ensuring" ELSE pc[d]
  BY Moves
<1>2. committed \subseteq Calls /\ c \notin committed
  BY DEF TypeInv, TypeOK, AtomInv, CommitInv
<1>3. Acknowledged' = Acknowledged
  BY <1>1, <1>2 DEF Acknowledged
<1>4. r \in Map!Requests
  BY DEF Requests, Map!Requests
<1> QED BY <1>3, <1>4 DEF Ask, Map!Ask, Acknowledged

LEMMA NextMap ==
  ASSUME FirstAlone
  PROVE  TypeInv /\ AtomInv /\ TypeInv' /\ [Next]_vars => [Map!Next]_(Map!vars)
<1> SUFFICES ASSUME TypeInv, AtomInv, TypeInv', [Next]_vars
             PROVE  [Map!Next]_(Map!vars)
  OBVIOUS
<1>0. committed \subseteq Calls
  BY DEF TypeInv, TypeOK
<1>1. ASSUME NEW c \in Calls, NEW label, Goto(c, label), label # "answered",
             pc[c] # "answered", UNCHANGED <<file, request, committed>>
      PROVE  UNCHANGED Map!vars
  BY <1>0, <1>1, Moves, MapStutters
<1>2. ASSUME NEW c \in Calls, NEW label, Goto(c, label), pc[c] \in Outside,
             UNCHANGED <<file, request, committed>>
      PROVE  UNCHANGED Map!vars
  <2>1. c \notin committed
    BY <1>2 DEF AtomInv, CommitInv
  <2> QED BY <1>0, <1>2, <2>1, Moves, MapStutters
<1>3. ASSUME NEW c \in Calls, Operation(c) PROVE [Map!Next]_(Map!vars)
  <2>1. /\ pc[c] = "idle" /\ request[c] = NoRequest
        /\ UNCHANGED <<file, committed>>
    BY <1>3, BeginType
       DEF Operation, VaultSet, VaultDelete, VaultRead, ConfigSet, ConfigInit
  <2>2. CASE UNCHANGED request
    <3>1. PICK label \in {"salting", "ensuring", "reading"} : Goto(c, label)
      BY <1>3 DEF Operation, VaultSet, VaultDelete, VaultRead, ConfigSet, ConfigInit
    <3> QED BY <1>1, <2>1, <2>2, <3>1
  <2>3. CASE request' # request
    <3>1. PICK r : Ask(c, r) /\ Goto(c, "ensuring")
      BY <1>3, <2>3
         DEF Operation, VaultSet, VaultDelete, VaultRead, ConfigSet, ConfigInit
    <3>2. r = request'[c]
      BY <3>1 DEF Ask, TypeInv, TypeOK
    <3>3. r \in Requests
      BY <2>1, <2>3, <3>1, <3>2 DEF Ask, TypeInv, TypeOK
    <3> QED BY <2>1, <3>1, <3>3, MapAsk DEF Map!Next
  <2> QED BY <2>2, <2>3
<1>4. ASSUME NEW c \in Calls, ReadSalt(c) \/ WriteSalt(c)
      PROVE  [Map!Next]_(Map!vars)
  <2>1. pc[c] \in {"salting", "writing salt"} /\ UNCHANGED <<file, committed>>
    BY <1>4 DEF ReadSalt, WriteSalt
  <2>2. PICK label \in {"opening salt", "ensuring", "answered", "rejected"} :
          Goto(c, label)
    BY <1>4 DEF ReadSalt, WriteSalt, Derived, Settle
  <2>3. CASE UNCHANGED request
    BY <1>2, <2>1, <2>2, <2>3
  <2>4. CASE request' # request
    <3>1. PICK r : Ask(c, r) /\ Goto(c, "ensuring") /\ job[c].op = "set"
      BY <1>4, <2>4 DEF ReadSalt, WriteSalt, Derived
    <3>2. request[c] = NoRequest
      BY <2>1, <3>1 DEF TypeInv, RequestInv
    <3>3. r = request'[c] /\ r # NoRequest
      BY <2>4, <3>1, <3>2 DEF Ask, TypeInv, TypeOK
    <3>4. r \in Requests
      BY <3>3 DEF TypeInv, TypeOK
    <3> QED BY <2>1, <3>1, <3>2, <3>4, MapAsk DEF Map!Next
  <2> QED BY <2>3, <2>4
<1>5. ASSUME NEW c \in Calls,
             OpenSalt(c) \/ Ensure(c) \/ Acquire(c) \/ Load(c) \/ Truncate(c) \/ Fill(c)
      PROVE  [Map!Next]_(Map!vars)
  <2>1. PICK label : Goto(c, label) /\ label # "answered" /\ pc[c] # "answered"
    BY <1>5 DEF OpenSalt, Ensure, AfterEnsure, Acquire, Load, Truncate, Fill
  <2>2. UNCHANGED <<file, request, committed>>
    BY <1>5 DEF OpenSalt, Ensure, Acquire, Load, Truncate, Fill
  <2> QED BY <1>1, <2>1, <2>2
<1>6. ASSUME NEW c \in Calls, CreateEmpty(c) PROVE [Map!Next]_(Map!vars)
  <2>1. file.map = Nothing /\ file'.map = Nothing
    BY <1>6 DEF CreateEmpty, AtomInv, AloneInv, Absent, Whole
  <2>2. \A d \in Calls : pc'[d] = "answered" <=> pc[d] = "answered"
    BY <1>6 DEF CreateEmpty, AfterEnsure, Goto, TypeInv, TypeOK
  <2>3. Acknowledged' = Acknowledged
    BY <1>0, <1>6, <2>2 DEF CreateEmpty, Acknowledged
  <2> QED BY <1>6, <2>1, <2>3 DEF CreateEmpty, Map!vars, Acknowledged
<1>7. ASSUME NEW c \in Calls, Refused(c) PROVE [Map!Next]_(Map!vars)
  <2>1. CASE UNCHANGED pc
    BY <1>0, <1>7, <2>1, MapStutters DEF Refused
  <2>2. CASE Settle(c, "rejected")
    BY <1>1, <1>7, <2>2 DEF Refused, Settle
  <2> QED BY <1>7, <2>1, <2>2 DEF Refused
<1>8. ASSUME NEW c \in Calls, Read(c) PROVE [Map!Next]_(Map!vars)
  <2>1. PICK label : Goto(c, label)
    BY <1>8 DEF Read, Settle
  <2> QED BY <1>2, <1>8, <2>1 DEF Read
<1>9. ASSUME NEW c \in Calls, Rename(c) PROVE [Map!Next]_(Map!vars)
  <2>1. /\ pc[c] = "renaming" /\ c \notin committed
        /\ request[c] \in Requests
        /\ file'.map = Updated(c, file.map)
    <3>1. pc[c] = "renaming" /\ file' = tmp[Home[c]]
      BY <1>9 DEF Rename
    <3>2. tmp[Home[c]] = Whole(Updated(c, mem[c])) /\ mem[c] = file.map
      BY <3>1 DEF AtomInv, LockInv, AloneInv
    <3>3. c \notin committed /\ request[c] \in Requests
      BY <3>1 DEF AtomInv, CommitInv, TypeInv, RequestInv
    <3> QED BY <3>1, <3>2, <3>3 DEF Whole
  <2>2. request[c] # NoRequest
    BY <2>1, MapsFacts
  <2>3. \A d \in Calls : pc'[d] = IF d = c THEN "releasing" ELSE pc[d]
    BY <1>9, Moves DEF Rename
  <2>4. Acknowledged' = Acknowledged
    BY <1>0, <1>9, <2>1, <2>3 DEF Rename, Acknowledged
  <2>5. Map!Commit(c)
    BY <1>9, <2>1, <2>2, <2>4 DEF Rename, Map!Commit, Updated, Acknowledged
  <2> QED BY <2>5 DEF Map!Next
<1>10. ASSUME NEW c \in Calls, Release(c) PROVE [Map!Next]_(Map!vars)
  <2>1. UNCHANGED <<file, request, committed>>
    BY <1>10 DEF Release
  <2>2. CASE pc[c] = "releasing"
    <3>1. \A d \in Calls : pc'[d] = IF d = c THEN "answered" ELSE pc[d]
      BY <1>10, <2>2, Moves DEF Release, Settle
    <3>2. c \in committed
      BY <2>2 DEF AtomInv, CommitInv
    <3>3. Acknowledged' = Acknowledged \cup {c}
      BY <1>0, <2>1, <3>1, <3>2 DEF Acknowledged
    <3>4. Map!Acknowledge(c)
      BY <2>1, <3>2, <3>3 DEF Map!Acknowledge, Acknowledged
    <3> QED BY <3>4 DEF Map!Next
  <2>3. CASE pc[c] = "aborting"
    BY <1>1, <1>10, <2>1, <2>3 DEF Release, Settle
  <2> QED BY <1>10, <2>2, <2>3 DEF Release
<1>11. ASSUME NEW c \in Calls, Fail(c) PROVE [Map!Next]_(Map!vars)
  <2>1. PICK label : Goto(c, label) /\ label # "answered" /\ pc[c] # "answered"
    BY <1>11 DEF Fail, Settle
  <2> QED BY <1>1, <1>11, <2>1 DEF Fail
<1>12. ASSUME NEW p \in Procs, Die(p) PROVE [Map!Next]_(Map!vars)
  BY <1>0, <1>12, MapStutters DEF Die
<1>13. CASE UNCHANGED vars
  BY <1>0, <1>13, MapStutters DEF vars
<1> QED
  BY <1>3, <1>4, <1>5, <1>6, <1>7, <1>8, <1>9, <1>10, <1>11, <1>12, <1>13
  DEF Next, Step, Locked

\* When nothing overlaps the call that creates it, the locked file is an atomic
\* map: every update takes effect once, at its rename, on the bindings of that
\* moment; nothing else changes a binding, and only an update that took effect
\* is acknowledged.
THEOREM Implementation == FirstAlone /\ Spec => ImplementsAtomicMap
<1> SUFFICES ASSUME FirstAlone PROVE Spec => Map!Spec
  BY DEF ImplementsAtomicMap
<1>1. Init => Map!Init
  BY InitType, InitMap
<1>2. TypeInv /\ AtomInv /\ TypeInv' /\ [Next]_vars => [Map!Next]_(Map!vars)
  BY NextMap
<1> QED BY <1>1, <1>2, AtomInvariant, TypeInvariant, PTL DEF Spec, Map!Spec

-----------------------------------------------------------------------------
\* A name is free, or bound under the key of a salt that is on disk, whole.
Sound(e) == e = NoEntry \/ (e.key = salt /\ salt \in Salts)
SoundMap(m) == \A n \in Names : Sound(m[n])
\* The file that was created with "wx" has one writer.
SaltInv ==
  /\ \A p \in Procs : key[p] = NoKey \/ (key[p] = salt /\ salt \in Salts)
  /\ \A c \in Calls : pc[c] = "writing salt" =>
       salt = "empty" /\ \A d \in Calls : pc[d] = "writing salt" => d = c
  /\ store = "vault" =>
       /\ SoundMap(file.map)
       /\ \A c \in Calls : SoundMap(mem[c]) /\ Sound(request[c].entry)
       /\ \A p \in Procs : SoundMap(tmp[p].map)

LEMMA InitSalt == Init => SaltInv
<1> SUFFICES ASSUME Init PROVE SaltInv
  OBVIOUS
<1>1. SoundMap(Nothing) /\ Sound(NoRequest.entry) /\ SoundMap(Absent.map)
  BY DEF SoundMap, Sound, Nothing, NoRequest, Absent
<1>2. store = "vault" => SoundMap(file.map)
  BY <1>1 DEF Init, SoundMap, Sound, Whole, Salts
<1> QED BY <1>1, <1>2 DEF Init, SaltInv

LEMMA NothingSound ==
  /\ SoundMap(Nothing) /\ Sound(NoEntry)
  /\ SoundMap(Nothing)' /\ Sound(NoEntry)'
BY DEF SoundMap, Sound, Nothing

\* Steps that leave the salt file alone: what they copy was sound already.
LEMMA SameSalt ==
  ASSUME SaltInv, UNCHANGED <<store, salt>>,
         \A p \in Procs : key'[p] \in {key[p], NoKey} \/ (key'[p] = salt /\ salt \in Salts),
         \A c \in Calls : pc'[c] = "writing salt" => pc[c] = "writing salt",
         store = "vault" =>
           /\ SoundMap(file'.map)
           /\ \A c \in Calls : SoundMap(mem'[c]) /\ Sound(request'[c].entry)
           /\ \A p \in Procs : SoundMap(tmp'[p].map)
  PROVE  SaltInv'
BY DEF SaltInv, SoundMap, Sound

\* Steps that move one call and change neither maps nor keys.
LEMMA SaltMoves ==
  ASSUME TypeInv, SaltInv, NEW c \in Calls, NEW label, Goto(c, label),
         label # "writing salt", UNCHANGED <<store, salt, key, file, request, tmp>>,
         \A d \in Calls : mem'[d] \in {mem[d], Nothing, file.map}
  PROVE  SaltInv'
<1>1. \A d \in Calls : pc'[d] = "writing salt" => pc[d] = "writing salt"
  BY Moves
<1>2. store = "vault" =>
        /\ SoundMap(file'.map)
        /\ \A d \in Calls : SoundMap(mem'[d]) /\ Sound(request'[d].entry)
        /\ \A p \in Procs : SoundMap(tmp'[p].map)
  BY NothingSound DEF SaltInv
<1> QED BY <1>1, <1>2, SameSalt

LEMMA SaltAsk ==
  ASSUME TypeInv, SaltInv, NEW c \in Calls, NEW r, Ask(c, r), Goto(c, "ensuring"),
         store = "vault" => Sound(r.entry), UNCHANGED <<store, salt, file, tmp, mem>>,
         \A p \in Procs : key'[p] = key[p] \/ (key'[p] = salt /\ salt \in Salts)
  PROVE  SaltInv'
<1>0. \A d \in Calls : request'[d] = IF d = c THEN r ELSE request[d]
  BY DEF Ask, TypeInv, TypeOK
<1>1. \A d \in Calls : /\ pc'[d] = "writing salt" => pc[d] = "writing salt"
                       /\ request'[d] = IF d = c THEN r ELSE request[d]
  BY <1>0, Moves
<1>2. store = "vault" =>
        /\ SoundMap(file'.map)
        /\ \A d \in Calls : SoundMap(mem'[d]) /\ Sound(request'[d].entry)
        /\ \A p \in Procs : SoundMap(tmp'[p].map)
  BY <1>1 DEF SaltInv
<1> QED BY <1>1, <1>2, SameSalt

LEMMA SealedSound ==
  \A j, k : k = salt /\ salt \in Salts => Sound(Sealed(j, k).entry)
BY DEF Sound, Sealed

LEMMA NextSalt == TypeInv /\ SaltInv /\ TypeInv' /\ [Next]_vars => SaltInv'
<1> SUFFICES ASSUME TypeInv, SaltInv, TypeInv', [Next]_vars PROVE SaltInv'
  OBVIOUS
<1> USE HomeAssumption
<1>0. NoKey \notin Salts /\ "absent" \notin Salts /\ "empty" \notin Salts
  BY CallsAssumption DEF Salts, NoKey
<1>1. ASSUME NEW c \in Calls, Operation(c) PROVE SaltInv'
  <2>1. UNCHANGED <<store, mem, key, salt, file, tmp>>
    BY <1>1, BeginType
       DEF Operation, VaultSet, VaultDelete, VaultRead, ConfigSet, ConfigInit
  <2>2. CASE UNCHANGED request
    <3>1. PICK label \in {"salting", "ensuring", "reading"} : Goto(c, label)
      BY <1>1 DEF Operation, VaultSet, VaultDelete, VaultRead, ConfigSet, ConfigInit
    <3> QED BY <2>1, <2>2, <3>1, SaltMoves
  <2>3. CASE VaultSet(c) /\ request' # request
    <3>1. /\ key[Home[c]] # NoKey
          /\ Ask(c, Sealed(job'[c], key[Home[c]]))
          /\ Goto(c, "ensuring")
      BY <2>3 DEF VaultSet
    <3>2. Sound(Sealed(job'[c], key[Home[c]]).entry)
      BY <3>1, SealedSound DEF SaltInv
    <3> QED BY <2>1, <3>1, <3>2, SaltAsk
  <2>4. CASE VaultDelete(c)
    <3>1. Ask(c, [name |-> job'[c].name, entry |-> NoEntry]) /\ Goto(c, "ensuring")
      BY <2>4 DEF VaultDelete
    <3> QED BY <2>1, <3>1, SaltAsk, NothingSound
  <2>5. CASE ConfigSet(c)
    <3>1. /\ Ask(c, Sealed(job'[c], "plain")) /\ Goto(c, "ensuring")
          /\ store = "config"
      BY <2>5 DEF ConfigSet, Begin
    <3> QED BY <2>1, <3>1, SaltAsk
  <2> QED BY <1>1, <2>2, <2>3, <2>4, <2>5 DEF Operation, VaultRead, ConfigInit
<1>2. ASSUME NEW c \in Calls, Derived(c, salt), salt \in Salts,
             UNCHANGED <<store, salt, file, tmp>>
      PROVE  SaltInv'
  <2>1. \A p \in Procs : key'[p] = key[p] \/ (key'[p] = salt /\ salt \in Salts)
    BY <1>2 DEF Derived, TypeInv, TypeOK
  <2>2. CASE Ask(c, Sealed(job[c], salt)) /\ Goto(c, "ensuring") /\ UNCHANGED <<mem, tries>>
    BY <1>2, <2>1, <2>2, SaltAsk, SealedSound
  <2>3. CASE (\E how \in {"answered", "rejected"} : Settle(c, how)) /\ UNCHANGED request
    <3>1. PICK how \in {"answered", "rejected"} : Settle(c, how)
      BY <2>3
    <3>2. \A d \in Calls : pc'[d] = "writing salt" => pc[d] = "writing salt"
      BY <3>1, Moves DEF Settle
    <3>3. \A d \in Calls : mem'[d] \in {mem[d], Nothing}
      BY <3>1 DEF Settle, TypeInv, TypeOK
    <3>4. store = "vault" =>
            /\ SoundMap(file'.map)
            /\ \A d \in Calls : SoundMap(mem'[d]) /\ Sound(request'[d].entry)
            /\ \A p \in Procs : SoundMap(tmp'[p].map)
      BY <1>2, <2>3, <3>3, NothingSound DEF SaltInv
    <3> QED BY <1>2, <2>1, <3>2, <3>4, SameSalt
  <2> QED BY <1>2, <2>2, <2>3 DEF Derived
<1>3. ASSUME NEW c \in Calls, ReadSalt(c) PROVE SaltInv'
  <2>1. UNCHANGED <<store, salt, file, tmp>>
    BY <1>3 DEF ReadSalt
  <2>2. CASE Goto(c, "opening salt") /\ UNCHANGED <<request, mem, tries, key>>
    BY <2>1, <2>2, SaltMoves
  <2>3. CASE Settle(c, "rejected") /\ UNCHANGED <<request, key>>
    <3>1. \A d \in Calls : mem'[d] \in {mem[d], Nothing}
      BY <2>3 DEF Settle, TypeInv, TypeOK
    <3> QED BY <2>1, <2>3, <3>1, SaltMoves DEF Settle
  <2>4. CASE salt \in Salts /\ Derived(c, salt)
    BY <1>2, <2>1, <2>4
  <2> QED BY <1>3, <2>2, <2>3, <2>4 DEF ReadSalt
<1>4. ASSUME NEW c \in Calls, OpenSalt(c) PROVE SaltInv'
  <2>1. CASE salt # "absent"
    BY <1>4, <2>1, SaltMoves DEF OpenSalt
  <2>2. CASE salt = "absent"
    <3>1. \A d \in Calls : pc'[d] = IF d = c THEN "writing salt" ELSE pc[d]
      BY <1>4, <2>2, Moves DEF OpenSalt
    <3>2. \A d \in Calls : pc[d] # "writing salt"
      BY <2>2 DEF SaltInv
    <3>3. salt' = "empty"
      BY <1>4, <2>2 DEF OpenSalt
    <3> QED BY <1>0, <1>4, <2>2, <3>1, <3>2, <3>3
            DEF OpenSalt, SaltInv, SoundMap, Sound
  <2> QED BY <2>1, <2>2
<1>5. ASSUME NEW c \in Calls, WriteSalt(c) PROVE SaltInv'
  <2>1. /\ salt = "empty" /\ salt \notin Salts /\ salt' = c /\ c \in Salts
        /\ UNCHANGED <<store, file, tmp>>
        /\ \A d \in Calls : pc[d] = "writing salt" => d = c
    BY <1>0, <1>5 DEF WriteSalt, SaltInv, Salts
  <2>2. \A p \in Procs : key'[p] = NoKey \/ key'[p] = c
    BY <1>5, <2>1 DEF WriteSalt, Derived, SaltInv, TypeInv, TypeOK
  <2>3. \A d \in Calls : pc'[d] # "writing salt"
    <3>1. PICK label \in {"ensuring", "answered", "rejected"} : Goto(c, label)
      BY <1>5 DEF WriteSalt, Derived, Settle
    <3> QED BY <2>1, <3>1, Moves
  <2>4. \A e : Sound(e) => (e = NoEntry \/ (e.key = c /\ c \in Salts))
    BY <2>1 DEF Sound
  <2>5. \A d \in Calls : mem'[d] \in {mem[d], Nothing}
    BY <1>5 DEF WriteSalt, Derived, Settle, TypeInv, TypeOK
  <2>6. \A d \in Calls : request'[d] = request[d] \/ request'[d] = Sealed(job[d], c)
    <3>1. UNCHANGED request \/ Ask(c, Sealed(job[c], c))
      BY <1>5 DEF WriteSalt, Derived
    <3>2. \A r : Ask(c, r) => \A d \in Calls : request'[d] = IF d = c THEN r ELSE request[d]
      BY DEF Ask, TypeInv, TypeOK
    <3> QED BY <3>1, <3>2
  <2>7. \A d \in Calls : store = "vault" => Sound(request[d].entry)
    BY DEF SaltInv
  <2>8. \A d \in Calls : store = "vault" => Sound(request[d].entry)'
    <3> SUFFICES ASSUME NEW d \in Calls, store = "vault"
                 PROVE  \/ request'[d].entry = NoEntry
                        \/ request'[d].entry.key = c /\ c \in Salts
      BY <2>1 DEF Sound
    <3>1. CASE request'[d] = request[d]
      BY <2>4, <2>7, <3>1
    <3>2. CASE request'[d] = Sealed(job[d], c)
      <4>1. Sealed(job[d], c).entry.key = c
        BY DEF Sealed
      <4> QED BY <2>1, <3>2, <4>1
    <3> QED BY <2>6, <3>1, <3>2
  <2>9. store = "vault" =>
          /\ SoundMap(file.map)'
          /\ \A p \in Procs : SoundMap(tmp[p].map)'
    BY <2>1, <2>4 DEF SaltInv, SoundMap, Sound
  <2>10. ASSUME NEW d \in Calls, store = "vault" PROVE SoundMap(mem[d])'
    <3>1. SoundMap(mem[d]) /\ SoundMap(Nothing)
      BY <2>10, NothingSound DEF SaltInv
    <3>2. \A n \in Names : Sound(mem'[d][n])
      BY <2>5, <3>1 DEF SoundMap
    <3> QED BY <2>1, <2>4, <3>2 DEF SoundMap, Sound
  <2> QED BY <2>1, <2>2, <2>3, <2>8, <2>9, <2>10 DEF SaltInv
<1>6. ASSUME NEW c \in Calls, Ensure(c) \/ Acquire(c) PROVE SaltInv'
  BY <1>6, SaltMoves DEF Ensure, AfterEnsure, Acquire
<1>7. ASSUME NEW c \in Calls, CreateEmpty(c) PROVE SaltInv'
  <2>1. UNCHANGED <<store, salt, key, request, tmp, mem>> /\ file'.map = Nothing
    BY <1>7 DEF CreateEmpty, Whole
  <2>2. \A d \in Calls : pc'[d] = "writing salt" => pc[d] = "writing salt"
    <3>1. PICK label \in {"locking", "reading"} : Goto(c, label)
      BY <1>7 DEF CreateEmpty, AfterEnsure
    <3> QED BY <3>1, Moves
  <2>3. store = "vault" =>
          /\ SoundMap(file'.map)
          /\ \A d \in Calls : SoundMap(mem'[d]) /\ Sound(request'[d].entry)
          /\ \A p \in Procs : SoundMap(tmp'[p].map)
    BY <2>1, NothingSound DEF SaltInv
  <2> QED BY <2>1, <2>2, <2>3, SameSalt
<1>8. ASSUME NEW c \in Calls, Refused(c) \/ Release(c) \/ Fail(c) PROVE SaltInv'
  <2>1. UNCHANGED <<store, salt, key, file, request, tmp>>
    BY <1>8 DEF Refused, Release, Fail
  <2>2. CASE UNCHANGED <<pc, mem>>
    BY <2>1, <2>2, SameSalt DEF SaltInv
  <2>3. CASE \E how \in {"answered", "rejected"} : Settle(c, how)
    <3>1. \A d \in Calls : mem'[d] \in {mem[d], Nothing}
      BY <2>3 DEF Settle, TypeInv, TypeOK
    <3> QED BY <2>1, <2>3, <3>1, SaltMoves DEF Settle
  <2>4. CASE Goto(c, "aborting") /\ UNCHANGED mem
    BY <2>1, <2>4, SaltMoves
  <2> QED BY <1>8, <2>2, <2>3, <2>4 DEF Refused, Release, Fail
<1>9. ASSUME NEW c \in Calls, Read(c) \/ Load(c) PROVE SaltInv'
  <2>1. UNCHANGED <<store, salt, key, file, request, tmp>>
    BY <1>9 DEF Read, Load
  <2>2. \A d \in Calls : mem'[d] \in {mem[d], Nothing, file.map}
    BY <1>9 DEF Read, Load, Settle, TypeInv, TypeOK
  <2>3. PICK label \in {"salting", "answered", "rejected", "truncating"} : Goto(c, label)
    BY <1>9 DEF Read, Load, Settle
  <2> QED BY <2>1, <2>2, <2>3, SaltMoves
<1>10. ASSUME NEW c \in Calls, Truncate(c) \/ Fill(c) \/ Rename(c) PROVE SaltInv'
  <2>1. UNCHANGED <<store, salt, key, request, mem>>
    BY <1>10 DEF Truncate, Fill, Rename
  <2>2. PICK label \in {"filling", "renaming", "releasing"} : Goto(c, label)
    BY <1>10 DEF Truncate, Fill, Rename
  <2>3. \A d \in Calls : pc'[d] = "writing salt" => pc[d] = "writing salt"
    BY <2>2, Moves
  <2>4. store = "vault" => SoundMap(Updated(c, mem[c]))
    BY DEF SaltInv, SoundMap, Updated, TypeInv, TypeOK, Maps
  <2>5. \A p \in Procs : tmp'[p].map \in {tmp[p].map, Nothing, Updated(c, mem[c])}
    <3>1. PICK f \in {Partial, Whole(Updated(c, mem[c])), Absent} :
            tmp' = [tmp EXCEPT ![Home[c]] = f]
      BY <1>10 DEF Truncate, Fill, Rename
    <3>2. f.map \in {Nothing, Updated(c, mem[c])}
      BY DEF Whole, Absent, Partial
    <3>3. \A p \in Procs : tmp'[p] = tmp[p] \/ tmp'[p] = f
      BY <3>1 DEF TypeInv, TypeOK
    <3> QED BY <3>2, <3>3
  <2>6. file' = file \/ file' = tmp[Home[c]]
    BY <1>10 DEF Truncate, Fill, Rename
  <2>7. store = "vault" =>
          /\ SoundMap(file'.map)
          /\ \A d \in Calls : SoundMap(mem'[d]) /\ Sound(request'[d].entry)
          /\ \A p \in Procs : SoundMap(tmp'[p].map)
    BY <2>1, <2>4, <2>5, <2>6, NothingSound DEF SaltInv
  <2> QED BY <2>1, <2>3, <2>7, SameSalt
<1>11. ASSUME NEW p \in Procs, Die(p) PROVE SaltInv'
  <2>1. UNCHANGED <<store, salt, request, file, tmp>>
    BY <1>11 DEF Die
  <2>2. /\ \A q \in Procs : key'[q] \in {key[q], NoKey}
        /\ \A d \in Calls : mem'[d] \in {mem[d], Nothing}
        /\ \A d \in Calls : pc'[d] = "writing salt" => pc[d] = "writing salt"
    BY <1>11 DEF Die, TypeInv, TypeOK
  <2>3. store = "vault" =>
          /\ SoundMap(file'.map)
          /\ \A d \in Calls : SoundMap(mem'[d]) /\ Sound(request'[d].entry)
          /\ \A q \in Procs : SoundMap(tmp'[q].map)
    BY <2>1, <2>2, NothingSound DEF SaltInv
  <2> QED BY <2>1, <2>2, <2>3, SameSalt
<1>12. CASE UNCHANGED vars
  BY <1>12, SameSalt DEF vars, SaltInv
<1> QED
  BY <1>1, <1>3, <1>4, <1>5, <1>6, <1>7, <1>8, <1>9, <1>10, <1>11, <1>12
  DEF Next, Step, Locked

\* However many processes race to create the salt, with files already there or
\* not, every key in use and every stored entry belongs to the salt on disk.
THEOREM OneSaltForAll == Spec => []OneSalt
<1>1. Init => TypeInv /\ SaltInv
  BY InitType, InitSalt
<1>2. TypeInv /\ SaltInv /\ [Next]_vars => (TypeInv /\ SaltInv)'
  BY NextType, NextSalt
<1>3. SaltInv => OneSalt
  BY DEF SaltInv, OneSalt, SoundMap, Sound
<1> QED BY <1>1, <1>2, <1>3, PTL DEF Spec
=============================================================================
