-------------------------------- MODULE Local --------------------------------
(***************************************************************************)
(* The stores a command keeps in files of its own without a lock, each     *)
(* checked on its own: the IDL store, the index of the keyring, the cache, *)
(* and the file of events.  "part" says which one a behaviour is about.    *)
(* The commands of the IDL store are the calls on the other stores.        *)
(***************************************************************************)
EXTENDS IdlStore

CONSTANTS
  Home,          \* the process of each call on the keyring and the cache
  Names,         \* names of secrets
  SecretsAsked,  \* the jobs each call on the keyring may be given
  CacheAsked,    \* what each call on the cache may be asked for
  Ttls,          \* times to live a cache entry may be given; 0 is for ever
  defaultTtl,    \* time to live in memory of an entry that asks for none
  MaxTime,       \* bound on the clock
  Waiters,       \* calls of flush and close
  MaxLines,      \* bound on the lines written
  MayFail        \* TRUE when the file of events may refuse

\* A call that changes a secret names one.
ASSUME SecretsAssumption ==
  \A c \in Cmds : \A j \in SecretsAsked[c] : j.op # "list" => j.name \in Names

VARIABLES
  part,
  keyring, index, kTmp, kInto, kPc, kJob, kMem, kListing, kStale, kClobbered,
  kMixed, kCut, kShared,
  now, lru, disk, tmp, cInto, cPc, cOp, cEntry, cRaw, hit, ttl, superseded, raced,
  written, settled, opening, handle, file, waiter, failed

Keyring == INSTANCE KeyringIndex WITH
  Calls <- Cmds, Asked <- SecretsAsked, tmp <- kTmp, into <- kInto, pc <- kPc,
  job <- kJob, mem <- kMem, listing <- kListing, stale <- kStale, clobbered <- kClobbered,
  mixed <- kMixed, cut <- kCut, shared <- kShared

Cache == INSTANCE TwoTierCache WITH
  Calls <- Cmds, Asked <- CacheAsked, into <- cInto, pc <- cPc, op <- cOp,
  entry <- cEntry, raw <- cRaw

Sink == INSTANCE EventFile

ASSUME CacheAssumption ==
  /\ defaultTtl \in Nat /\ Ttls \subseteq Nat /\ MaxTime \in Nat \ {0}
  /\ Cache!NoValue \notin Cmds

keyringVars == <<keyring, index, kTmp, kInto, kPc, kJob, kMem, kListing, kStale,
                 kClobbered, kMixed, kCut, kShared>>
cacheVars == <<now, lru, disk, tmp, cInto, cPc, cOp, cEntry, cRaw, hit, ttl, superseded,
               raced>>
sinkVars == <<written, settled, opening, handle, file, waiter, failed>>
vars == <<part, idlVars, keyringVars, cacheVars, sinkVars>>

\* Exactly one store is worked on; the others are at rest.
Init ==
  /\ part \in {"idl", "keyring", "cache", "sink"}
  /\ IF part = "idl" THEN IdlInit
     ELSE IdlInit /\ files = [p \in Pids |-> Absent]
  /\ Keyring!Init /\ (part # "keyring" => keyring = {})
  /\ Cache!Init
  /\ Sink!Init

Next ==
  \/ /\ part = "idl" /\ IdlNext
     /\ UNCHANGED <<part, keyringVars, cacheVars, sinkVars>>
  \/ /\ part = "keyring" /\ Keyring!Next
     /\ UNCHANGED <<part, idlVars, cacheVars, sinkVars>>
  \/ /\ part = "cache" /\ Cache!Next
     /\ UNCHANGED <<part, idlVars, keyringVars, sinkVars>>
  \/ /\ part = "sink" /\ Sink!Next
     /\ UNCHANGED <<part, idlVars, keyringVars, cacheVars>>

Spec == Init /\ [][Next]_vars

-----------------------------------------------------------------------------
\* Every store keeps its variables in the sets they are declared for.
TypeOK == IdlTypeOK /\ Keyring!TypeOK /\ Cache!TypeOK /\ Sink!TypeOK

\* The cache's memory is never staler than the time to live allows, and does not
\* come back to a value its process has replaced (TwoTierCache).
MemoryTrue == Cache!MemoryTrue

\* The list of secrets tells what the keyring holds (KeyringIndex).
IndexTrue == Keyring!IndexTrue

\* A flushed or closed event sink has every earlier line, in order (EventFile).
LinesKept == Sink!LinesKept
=============================================================================
