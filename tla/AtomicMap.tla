------------------------------ MODULE AtomicMap ------------------------------
(***************************************************************************)
(* What a shared file promises to its users: a map from names to entries   *)
(* that calls change one name at a time.  A call first fixes what it       *)
(* wants, its change then takes effect at one instant or never, and it is  *)
(* acknowledged only after that instant.  Nothing else changes the map.    *)
(***************************************************************************)
CONSTANTS
  Calls,     \* calls that may change the map
  Names,     \* names of the map
  Entries,   \* what a name may be bound to, the absence of a binding included
  NoRequest  \* the request of a call that has not fixed one

Requests == [name : Names, entry : Entries]

VARIABLES
  map,          \* the bindings
  request,      \* what each call asks for
  committed,    \* calls whose change took effect
  acknowledged  \* calls that were told so

vars == <<map, request, committed, acknowledged>>

Init ==
  /\ map \in [Names -> Entries]
  /\ request = [c \in Calls |-> NoRequest]
  /\ committed = {}
  /\ acknowledged = {}

Ask(c) ==
  /\ request[c] = NoRequest
  /\ \E r \in Requests : request' = [request EXCEPT ![c] = r]
  /\ UNCHANGED <<map, committed, acknowledged>>

Commit(c) ==
  /\ request[c] # NoRequest
  /\ c \notin committed
  /\ map' = [map EXCEPT ![request[c].name] = request[c].entry]
  /\ committed' = committed \cup {c}
  /\ UNCHANGED <<request, acknowledged>>

Acknowledge(c) ==
  /\ c \in committed
  /\ acknowledged' = acknowledged \cup {c}
  /\ UNCHANGED <<map, request, committed>>

Next == \E c \in Calls : Ask(c) \/ Commit(c) \/ Acknowledge(c)

Spec == Init /\ [][Next]_vars
=============================================================================
