---------------------------- MODULE CommandsProofs ----------------------------
(***************************************************************************)
(* Proofs about Transfer, for any settings, requests, reasons of an abort  *)
(* and network fee, and about Config, for any profiles, keys, values and   *)
(* environments.                                                           *)
(***************************************************************************)
EXTENDS Transfer, Config, TLAPS, WellFoundedInduction

Unsubmitted == {"bootstrap", "run", "looking up", "asking", "simulating", "pre-flight"}

\* What was submitted is in the service's hands, or was: the errors that can follow
\* are the one that wraps those it returns, those it rejects with, and that of an
\* abort, and none has the exit code of a refusal.
SubmittedInv ==
  sent.submitted =>
    /\ pc \notin Unsubmitted
    /\ pc = "failed" => exitCode[normalizeError(error)] \notin RefusalExits
    /\ pc = "reported" => exitCode[reported] \notin RefusalExits
    /\ pc = "left" => exit \notin RefusalExits

\* The exit code is that of the envelope, but for an answer and for a signal.
ExitInv ==
  /\ exit # Running => pc = "left"
  /\ exit \in {Running, 0, 130, 143} \/ exit = exitCode[reported]

Inv == SubmittedInv /\ ExitInv

LEMMA InitInv == CommandInit => Inv
BY DEF CommandInit, Init, NotSent, Inv, SubmittedInv, ExitInv, Running

\* No answer, signal or missing exit code is that of a refusal.
LEMMA OtherExits == \A x \in {Running, 0, 130, 143} : x \notin RefusalExits
<1>1. RefusalExits = {65, 78, 10, 31}
  BY DEF RefusalExits, exitCode
<1> QED
  BY <1>1 DEF Running

\* Nor is that of an error the service rejects with, of the error that wraps those
\* it returns, or of an abort.
LEMMA NoRefusal ==
  \A e \in Rejections \cup {"INTERNAL", "AbortError"} :
     exitCode[normalizeError(e)] \notin RefusalExits
<1>1. RefusalExits = {65, 78, 10, 31}
  BY DEF RefusalExits, exitCode
<1>2. exitCode[normalizeError("INTERNAL")] = 70 /\ exitCode[normalizeError("AbortError")] = 70
      /\ exitCode[normalizeError("Error")] = 70
  BY DEF normalizeError, toSolcliError, ERROR_CODES, exitCode
<1>3. exitCode[normalizeError("RPC")] = 20 /\ exitCode[normalizeError("INPUT_INVALID")] = 2
      /\ exitCode[normalizeError("SECRET")] = 11 /\ exitCode[normalizeError("NO_INPUT")] = 40
  BY DEF normalizeError, toSolcliError, ERROR_CODES, exitCode
<1>4. exitCode[normalizeError("SIGNER_NOT_AVAILABLE")] = 69
      /\ exitCode[normalizeError("SIGNER_REFUSED")] = 77
      /\ exitCode[normalizeError("SIGNER_PERMISSIONS_INSECURE")] = 77
  BY DEF normalizeError, toSolcliError, ERROR_CODES, exitCode
<1> QED
  BY <1>1, <1>2, <1>3, <1>4 DEF Rejections

\* A step before the service is called leaves it uncalled and nothing submitted.
LEMMA EarlyStep ==
  ASSUME Inv, pc \in Unsubmitted, pc' # "left",
         exit' = exit, reported' = reported, sent' = sent
  PROVE  Inv'
BY DEF Inv, SubmittedInv, ExitInv, Unsubmitted

LEMMA BuiltStep == ASSUME Built PROVE pc' # "left" /\ exit' = exit /\ reported' = reported
BY DEF Built, Throw, Goto

LEMMA ProcessInv == ASSUME Inv, ProcessNext, UNCHANGED payVars PROVE Inv'
<1>0. sent' = sent
  BY DEF payVars
<1>1. CASE Register
  BY <1>0, <1>1 DEF Register, processVars, Inv, SubmittedInv, ExitInv
<1>2. CASE Bootstrapped
  BY <1>0, <1>2, EarlyStep DEF Bootstrapped, Goto, Unsubmitted
<1>3. CASE BeginRead
  <2>1. pc = "run" /\ pc' # "left" /\ exit' = exit /\ reported' = reported
    BY <1>3 DEF BeginRead, Goto, Throw
  <2> QED BY <1>0, <2>1, EarlyStep DEF Unsubmitted
<1>4. CASE Ask
  <2>1. pc = "asking" /\ pc' # "left" /\ exit' = exit /\ reported' = reported
    BY <1>4 DEF Ask, Goto, Throw
  <2> QED BY <1>0, <2>1, EarlyStep DEF Unsubmitted
<1>5. CASE HandleError
  BY <1>0, <1>5 DEF HandleError, Inv, SubmittedInv, ExitInv, Unsubmitted
<1>6. CASE Leave
  BY <1>0, <1>6, OtherExits DEF Leave, Inv, SubmittedInv, ExitInv, Unsubmitted
<1>7. CASE Signal
  BY <1>0, <1>7 DEF Signal, processVars, Inv, SubmittedInv, ExitInv
<1>8. CASE Killed
  <2>1. pc' = "left" /\ exit' \in {130, 143} /\ sent' = sent
    BY <1>0, <1>8 DEF Killed
  <2>2. exit' \notin RefusalExits
    BY <2>1, OtherExits
  <2>3. ExitInv'
    BY <2>1 DEF ExitInv
  <2>4. SubmittedInv'
    BY <2>1, <2>2 DEF SubmittedInv, Unsubmitted
  <2> QED BY <2>3, <2>4 DEF Inv
<1> QED BY <1>1, <1>2, <1>3, <1>4, <1>5, <1>6, <1>7, <1>8 DEF ProcessNext

LEMMA TransferInv == ASSUME Inv, TransferNext PROVE Inv'
<1>1. CASE BeginTransfer
  <2>1. pc = "run" /\ pc' # "left" /\ exit' = exit /\ reported' = reported /\ sent' = sent
    BY <1>1, BuiltStep DEF BeginTransfer, Goto, Throw, payVars
  <2> QED BY <2>1, EarlyStep DEF Unsubmitted
<1>2. CASE LookUpMint
  <2>1. pc = "looking up" /\ pc' # "left" /\ exit' = exit /\ reported' = reported
        /\ sent' = sent
    BY <1>2, BuiltStep DEF LookUpMint, payVars
  <2> QED BY <2>1, EarlyStep DEF Unsubmitted
<1>3. CASE SimulateOnly
  BY <1>3, EarlyStep DEF SimulateOnly, Goto, payVars, Unsubmitted
<1>4. CASE PreFlight
  <2>1. /\ pc = "pre-flight" /\ exit' = exit /\ reported' = reported
        /\ \/ pc' = "executing"
           \/ pc' = "failed" /\ sent' = sent
    BY <1>4 DEF PreFlight, Goto, Throw
  <2>2. ~sent.submitted /\ exit = Running
    BY <2>1 DEF Inv, SubmittedInv, ExitInv, Unsubmitted
  <2> QED BY <2>1, <2>2 DEF Inv, SubmittedInv, ExitInv, Unsubmitted
<1>5. CASE Submit
  <2>1. pc = "executing" /\ UNCHANGED <<pc, exit, reported>>
    BY <1>5 DEF Submit, processVars
  <2>2. exit = Running
    BY <2>1 DEF Inv, ExitInv
  <2> QED BY <2>1, <2>2 DEF Inv, SubmittedInv, ExitInv, Unsubmitted
<1>6. CASE Executed
  <2>1. pc = "executing" /\ exit' = exit /\ reported' = reported /\ sent' = sent
    BY <1>6 DEF Executed, Goto, Throw, payVars
  <2>2. \/ pc' = "answered"
        \/ pc' = "failed" /\ error' \in Rejections \cup {"INTERNAL", "AbortError"}
    BY <1>6 DEF Executed, Goto, Throw, wrapped
  <2> QED BY <2>1, <2>2, NoRefusal DEF Inv, SubmittedInv, ExitInv, Unsubmitted
<1> QED BY <1>1, <1>2, <1>3, <1>4, <1>5, <1>6 DEF TransferNext

LEMMA StepInv == Inv /\ [CommandNext]_allVars => Inv'
<1> SUFFICES ASSUME Inv, [CommandNext]_allVars PROVE Inv'
  OBVIOUS
<1>1. CASE UNCHANGED allVars
  BY <1>1 DEF allVars, processVars, payVars, Inv, SubmittedInv, ExitInv
<1> QED BY <1>1, ProcessInv, TransferInv DEF CommandNext

\* The exit code of a refusal, by the arguments' intent, a gate, a failed simulation,
\* the configuration or a missing port, says that nothing was submitted and is that
\* of the envelope, whatever the settings, the request, the moment of a signal and
\* what the service returns or rejects with (transfer.command.ts, tx-execute.ts,
\* main.ts).
THEOREM ExitCodeTells == CommandSpec => []RefusedIsUnsent
<1>1. Inv => RefusedIsUnsent
  <2> SUFFICES ASSUME Inv, exit \in RefusalExits
               PROVE  ~sent.submitted /\ exit = exitCode[reported]
    BY DEF RefusedIsUnsent
  <2> QED BY OtherExits DEF Inv, SubmittedInv, ExitInv
<1> QED BY InitInv, StepInv, <1>1, PTL DEF CommandSpec

-----------------------------------------------------------------------------
(* The providers of a port, in their order.                                *)

\* A set of naturals that is not empty has a least member.
LEMMA Least ==
  ASSUME NEW S, S \subseteq Nat, S # {}
  PROVE  \E m \in S : \A n \in S : m <= n
<1> DEFINE R == {ss \in Nat \X Nat : ss[1] < ss[2]}
<1>1. R = OpToRel(<, Nat)
  BY Zenon DEF OpToRel
<1>2. IsWellFoundedOn(R, Nat)
  BY <1>1, NatLessThanWellFounded, Zenon
<1> HIDE DEF R
<1>3. PICK m \in S : \A n \in S : <<n, m>> \notin R
  BY <1>2, WFMin
<1>4. ASSUME NEW n \in S, n < m PROVE FALSE
  <2>1. <<n, m>> \in Nat \X Nat /\ <<n, m>>[1] < <<n, m>>[2]
    BY <1>4
  <2>2. <<n, m>> \in R
    BY <2>1, Zenon DEF R
  <2> QED
    BY <1>3, <2>2
<1> QED
  BY <1>4

\* There is no refusal among those whose first is none.
LEMMA FirstNone ==
  ASSUME NEW k \in Nat, NEW refusals, DOMAIN refusals = 1..k, First(refusals) = "none"
  PROVE  \A i \in 1..k : refusals[i] = "none"
<1> DEFINE real == {i \in DOMAIN refusals : refusals[i] # "none"}
<1>1. ASSUME real # {} PROVE FALSE
  <2>1. \E m \in real : \A n \in real : m <= n
    <3>1. real \subseteq Nat
      OBVIOUS
    <3> HIDE DEF real
    <3> QED
      BY <1>1, <3>1, Least
  <2>2. Min(real) \in real
    BY <2>1 DEF Min
  <2>3. First(refusals) = refusals[Min(real)]
    BY <1>1 DEF First
  <2> QED
    BY <2>2, <2>3
<1> QED
  BY <1>1

\* What the loop of capableFor has after each name of the order.
Builds(out, k, port) ==
  out = [i \in 0..k |-> IF i = 0 THEN << >> ELSE Keep(out[i - 1], Order[i], port)]

\* What was built for k names can be built for one more.
LEMMA BuildsOn ==
  ASSUME NEW k \in Nat, NEW out, NEW port, Builds(out, k, port)
  PROVE  \E more : Builds(more, k + 1, port)
<1> DEFINE more == [i \in 0..k + 1 |-> IF i = k + 1 THEN Keep(out[k], Order[k + 1], port)
                                      ELSE out[i]]
<1>1. more[0] = << >>
  BY DEF Builds
<1>2. ASSUME NEW i \in 0..k + 1, i # 0 PROVE more[i] = Keep(more[i - 1], Order[i], port)
  <2>1. CASE i = k + 1
    BY <2>1
  <2>2. CASE i # k + 1
    <3>1. i \in 0..k /\ i - 1 \in 0..k /\ i - 1 # k + 1
      BY <1>2, <2>2
    <3>2. out[i] = Keep(out[i - 1], Order[i], port)
      BY <1>2, <3>1 DEF Builds
    <3> QED
      BY <2>2, <3>1, <3>2
  <2> QED
    BY <2>1, <2>2
<1>3. more = [i \in 0..k + 1 |-> more[i]]
  OBVIOUS
<1> HIDE DEF more
<1> QED
  BY <1>1, <1>2, <1>3 DEF Builds

\* By induction, so that the recursive function of capableFor exists.
LEMMA BuildsAll == ASSUME NEW k \in Nat, NEW port PROVE \E out : Builds(out, k, port)
<1> DEFINE bad == {n \in Nat : ~ \E out : Builds(out, n, port)}
<1>1. 0 \notin bad
  <2> DEFINE none == [i \in 0..0 |-> << >>]
  <2>1. Builds(none, 0, port)
    BY DEF Builds
  <2> QED
    BY <2>1
<1>2. ASSUME bad # {} PROVE FALSE
  <2>1. PICK m \in bad : \A n \in bad : m <= n
    BY <1>2, Least
  <2>2. m - 1 \in Nat /\ m - 1 \notin bad /\ (m - 1) + 1 = m
    BY <1>1, <2>1
  <2>3. PICK out : Builds(out, m - 1, port)
    BY <2>2
  <2>4. \E more : Builds(more, m, port)
    <3>1. \E more : Builds(more, (m - 1) + 1, port)
      BY <2>2, <2>3, BuildsOn
    <3> QED
      BY <2>2, <3>1
  <2> QED
    BY <2>1, <2>4
<1> QED
  BY <1>2

\* The names a provider may be called by, with two that the provers know as such.
Names == STRING \cup {"helius", "triton"}

Ordered ==
  /\ registered \in Seq(Names)
  /\ settings.active \in Names /\ settings.fallback \in Seq(Names)

\* A list of different names that are capable, with all such of the first k of the
\* order, and the first of the order in front.
Gathered(names, k, port) ==
  /\ names \in Seq(Names) /\ IsInjective(names)
  /\ \A i \in 1..Len(names) : Capable(names[i], port)
  /\ \A j \in 1..k : Capable(Order[j], port) => Order[j] \in ToSet(names)
  /\ k = 0 => names = << >>
  /\ k # 0 /\ Capable(Order[1], port) => names # << >> /\ names[1] = Order[1]

\* The loop's next turn gathers one more name of the order.
LEMMA KeepGathers ==
  ASSUME NEW k \in Nat, NEW names, NEW port, Gathered(names, k, port),
         Order[k + 1] \in Names
  PROVE  Gathered(Keep(names, Order[k + 1], port), k + 1, port)
<1> DEFINE n == Order[k + 1]
           kept == Keep(names, n, port)
<1>0. names \in Seq(Names)
  BY DEF Gathered
<1>1. CASE Capable(n, port) /\ n \notin ToSet(names)
  <2>1. kept = Append(names, n)
    BY <1>1 DEF Keep
  <2>2. /\ kept \in Seq(Names) /\ Len(kept) = Len(names) + 1
        /\ kept[Len(names) + 1] = n
        /\ \A i \in 1..Len(names) : kept[i] = names[i]
    BY <1>0, <2>1
  <2>3. \A i \in 1..Len(names) : names[i] # n
    BY <1>0, <1>1 DEF ToSet
  <2>4. k = 0 => kept[1] = n
    BY <2>2 DEF Gathered
  <2> HIDE DEF kept, n
  <2>5. IsInjective(kept)
    BY <1>0, <2>2, <2>3 DEF Gathered, IsInjective
  <2>6. \A i \in 1..Len(kept) : Capable(kept[i], port)
    BY <1>0, <1>1, <2>2 DEF Gathered
  <2>7. ASSUME NEW j \in 1..k + 1, Capable(Order[j], port) PROVE Order[j] \in ToSet(kept)
    <3>1. CASE j = k + 1
      BY <1>0, <2>2, <3>1 DEF ToSet, n
    <3>2. CASE j # k + 1
      <4>1. Order[j] \in ToSet(names)
        BY <2>7, <3>2 DEF Gathered
      <4>2. PICK i \in 1..Len(names) : names[i] = Order[j]
        BY <1>0, <4>1 DEF ToSet
      <4> QED
        BY <1>0, <2>2, <4>2 DEF ToSet
    <3> QED
      BY <3>1, <3>2
  <2>8. Capable(Order[1], port) => kept # << >> /\ kept[1] = Order[1]
    <3>1. CASE k = 0
      BY <1>0, <2>2, <2>4, <3>1 DEF n
    <3>2. CASE k # 0
      BY <1>0, <2>2, <3>2 DEF Gathered
    <3> QED
      BY <3>1, <3>2
  <2> QED
    BY <2>2, <2>5, <2>6, <2>7, <2>8 DEF Gathered, kept, n
<1>2. CASE ~(Capable(n, port) /\ n \notin ToSet(names))
  <2>1. kept = names
    BY <1>2 DEF Keep
  <2>2. \A j \in 1..k + 1 : Capable(Order[j], port) => Order[j] \in ToSet(names)
    BY <1>2 DEF Gathered
  <2>3. Capable(Order[1], port) => names # << >> /\ names[1] = Order[1]
    <3>1. CASE k = 0
      <4>1. names = << >>
        BY <3>1 DEF Gathered
      <4>2. ToSet(names) = {}
        BY <4>1 DEF ToSet
      <4> QED
        BY <1>2, <3>1, <4>2
    <3>2. CASE k # 0
      BY <3>2 DEF Gathered
    <3> QED
      BY <3>1, <3>2
  <2> HIDE DEF kept, n
  <2> QED
    BY <2>1, <2>2, <2>3 DEF Gathered, kept, n
<1> QED
  BY <1>1, <1>2

\* The providers of a port are those registered that have it, each once, with the
\* active one in front if it is among them.
LEMMA CapableFor ==
  ASSUME Ordered, NEW port
  PROVE  /\ capableFor(port) \in Seq(Names)
         /\ IsInjective(capableFor(port))
         /\ ToSet(capableFor(port)) = {n \in ToSet(registered) : port \in Manifest(n)}
         /\ Capable(settings.active, port) =>
              capableFor(port) # << >> /\ capableFor(port)[1] = settings.active
<1> DEFINE L == Len(Order)
<1>0. /\ Order \in Seq(Names) /\ L \in Nat /\ L # 0
      /\ Order[1] = settings.active
      /\ \A i \in 1..Len(registered) : \E j \in 1..L : Order[j] = registered[i]
  <2> DEFINE front == <<settings.active>> \o settings.fallback
  <2>1. /\ front \in Seq(Names) /\ Len(front) # 0 /\ front[1] = settings.active
        /\ Order = front \o registered /\ registered \in Seq(Names)
    BY DEF Ordered, Order
  <2> HIDE DEF front
  <2>2. Order \in Seq(Names) /\ L = Len(front) + Len(registered) /\ Order[1] = front[1]
    BY <2>1
  <2>3. ASSUME NEW i \in 1..Len(registered) PROVE \E j \in 1..L : Order[j] = registered[i]
    <3>1. Len(front) + i \in 1..L /\ Order[Len(front) + i] = registered[i]
      BY <2>1, <2>2
    <3> QED
      BY <3>1
  <2> QED
    BY <2>1, <2>2, <2>3
<1>1. PICK out : Builds(out, L, port)
  BY <1>0, BuildsAll
<1> DEFINE all == CHOOSE g : g = [i \in 0..L |-> IF i = 0 THEN << >>
                                               ELSE Keep(g[i - 1], Order[i], port)]
<1>2. Builds(all, L, port) /\ capableFor(port) = all[L]
  <2>1. Builds(all, L, port)
    BY <1>1 DEF Builds
  <2> QED
    BY <2>1 DEF capableFor
<1> HIDE DEF all, L
<1>3. all[0] = << >> /\ \A i \in 1..L : all[i] = Keep(all[i - 1], Order[i], port)
  BY <1>0, <1>2 DEF Builds
<1>4. \A k \in 0..L : Gathered(all[k], k, port)
  <2> DEFINE bad == {k \in 0..L : ~Gathered(all[k], k, port)}
  <2>1. SUFFICES ASSUME bad # {} PROVE FALSE
    OBVIOUS
  <2>2. PICK m \in bad : \A n \in bad : m <= n
    <3>1. bad \subseteq Nat
      BY <1>0
    <3> QED
      BY <2>1, <3>1, Least
  <2>3. Gathered(all[0], 0, port)
    BY <1>3 DEF Gathered, IsInjective
  <2>4. m \in 1..L /\ m - 1 \in 0..L /\ (m - 1) + 1 = m /\ m - 1 \in Nat
    BY <1>0, <2>2, <2>3
  <2>5. Gathered(all[m - 1], m - 1, port)
    BY <2>2, <2>4
  <2>6. Order[(m - 1) + 1] \in Names
    BY <1>0, <2>4 DEF L
  <2>7. Gathered(Keep(all[m - 1], Order[(m - 1) + 1], port), (m - 1) + 1, port)
    BY <2>4, <2>5, <2>6, KeepGathers
  <2>8. Gathered(all[m], m, port)
    BY <1>3, <2>4, <2>7
  <2> QED
    BY <2>2, <2>8
<1>5. Gathered(capableFor(port), L, port)
  BY <1>0, <1>2, <1>4
<1> DEFINE names == capableFor(port)
           able == {n \in ToSet(registered) : port \in Manifest(n)}
<1>6. names \in Seq(Names)
  BY <1>5 DEF Gathered
<1> HIDE DEF names
<1>7. ToSet(names) \subseteq able
  BY <1>5, <1>6 DEF Gathered, Capable, ToSet, names
<1>8. ASSUME NEW n \in able PROVE n \in ToSet(names)
  <2>1. PICK i \in 1..Len(registered) : registered[i] = n
    BY DEF Ordered, ToSet
  <2>2. PICK j \in 1..L : Order[j] = n
    BY <1>0, <2>1
  <2>3. Capable(Order[j], port)
    BY <2>2 DEF Capable
  <2> QED
    BY <1>5, <2>2, <2>3 DEF Gathered, names
<1>9. Capable(settings.active, port) => names # << >> /\ names[1] = settings.active
  BY <1>0, <1>5 DEF Gathered, names
<1> QED
  BY <1>5, <1>6, <1>7, <1>8, <1>9 DEF Gathered, names

-----------------------------------------------------------------------------
(* Reading: the last answer stands.                                        *)

\* The providers a reading command has to ask, in turn, and why it may not.
Resolved ==
  IF request.walks THEN resolvePortCandidates(request.port, request.pinned)
  ELSE resolvePort(request.port)
Line == Resolved.names

\* The first providers of the line were asked, the others are left.
InLine ==
  /\ Resolved.error = "none"
  /\ candidates \in Seq(Names) /\ candidates # << >>
  /\ Len(asked) + Len(candidates) = Len(Line)
  /\ \A i \in 1..Len(asked) : asked[i].name = Line[i] /\ asked[i].outcome = "RPC"
  /\ \A j \in 1..Len(candidates) : candidates[j] = Line[Len(asked) + j]

\* All but the last of those asked had failed, and so have all, if it has.
Settled ==
  /\ Resolved.error = "none"
  /\ Len(asked) <= Len(Line)
  /\ \A i \in 1..Len(asked) : asked[i].name = Line[i]
  /\ \A i \in 1..Len(asked) - 1 : asked[i].outcome = "RPC"
  /\ LET final == asked[Len(asked)].outcome
     IN /\ final = "answer" <=> pc = "answered"
        /\ final # "answer" => error = final
        /\ final = "RPC" => Len(asked) = Len(Line)

Calls == [port : Names, name : Names,
          outcome : {"answer", "RPC", "AbortError", "Error"}]

RegistryInv ==
  /\ settings \in Settings /\ request \in Reads \cup Writes
  /\ pending \in Seq(Names) /\ registered \in Seq(Names)

ReadInv ==
  /\ RegistryInv
  /\ request \in Reads =>
       /\ pc \in {"bootstrap", "run", "asking", "answered", "failed", "reported", "left"}
       /\ asked \in Seq(Calls)
       /\ pc \in {"bootstrap", "run"} => asked = << >>
       /\ pc = "asking" => InLine
       /\ pc \in {"answered", "failed"} /\ asked # << >> => Settled

\* Settings and registry hold names.
LEMMA OrderedNames == RegistryInv => Ordered
<1> SUFFICES ASSUME RegistryInv PROVE Ordered
  OBVIOUS
<1>1. settings.active \in STRING /\ settings.fallback \in Seq(STRING)
  BY SettingsAssumption DEF RegistryInv
<1>2. settings.active \in Names /\ settings.fallback \in Seq(Names)
  BY <1>1 DEF Names
<1> QED
  BY <1>2 DEF RegistryInv, Ordered

\* The providers of each port depend on the settings and the registry alone.
LEMMA PortsSame ==
  ASSUME UNCHANGED registryVars
  PROVE  /\ \A port : capableFor(port)' = capableFor(port)
         /\ \A n, port : Capable(n, port)' <=> Capable(n, port)
         /\ registered' = registered /\ settings' = settings /\ pending' = pending
<1>1. registered' = registered /\ settings' = settings /\ pending' = pending
  BY DEF registryVars
<1>2. \A port : capableFor(port)' = capableFor(port)
  BY <1>1 DEF capableFor, Order, Keep, Capable
<1>3. \A n, port : Capable(n, port)' <=> Capable(n, port)
  BY <1>1 DEF Capable
<1> QED
  BY <1>1, <1>2, <1>3

\* The line is what the registry and the request make it.
LEMMA LineSame ==
  ASSUME UNCHANGED registryVars, UNCHANGED request
  PROVE  Resolved' = Resolved /\ Line' = Line
<1>1. Resolved' = Resolved
  BY PortsSame DEF Resolved, resolvePort, resolvePortCandidates
<1> QED
  BY <1>1 DEF Line

\* A line has providers of the port only, each once: the one that is pinned, or the
\* active one first, or all of them.
LEMMA LineFacts ==
  ASSUME RegistryInv, request \in Reads, Resolved.error = "none"
  PROVE  LET able == {n \in ToSet(registered) : request.port \in Manifest(n)}
         IN /\ Line \in Seq(Names) /\ Line # << >>
            /\ IsInjective(Line) /\ ToSet(Line) \subseteq able
            /\ IF request.pinned # "none" THEN Line = <<request.pinned>>
               ELSE /\ settings.active \in able => Line[1] = settings.active
                    /\ request.walks => ToSet(Line) = able
<1> DEFINE able == {n \in ToSet(registered) : request.port \in Manifest(n)}
           names == capableFor(request.port)
<1>1. /\ names \in Seq(Names) /\ IsInjective(names) /\ ToSet(names) = able
      /\ settings.active \in able => names # << >> /\ names[1] = settings.active
  BY OrderedNames, CapableFor DEF Capable
<1>2. request.pinned \in Names /\ request.walks \in BOOLEAN
      /\ (request.pinned # "none" => request.walks)
  BY ReadsAssumption DEF Names
<1>3. CASE request.pinned # "none"
  <2>1. Resolved = resolvePortCandidates(request.port, request.pinned)
    BY <1>2, <1>3 DEF Resolved
  <2>2. Line = <<request.pinned>>
    BY <1>3, <2>1 DEF Line, resolvePortCandidates
  <2>3. Capable(request.pinned, request.port)
    BY <1>3, <2>1 DEF resolvePortCandidates, Capable
  <2>4. ToSet(Line) = {request.pinned} /\ IsInjective(Line)
    BY <2>2 DEF ToSet, IsInjective
  <2> QED
    BY <1>2, <1>3, <2>2, <2>3, <2>4 DEF Capable
<1>4. CASE request.pinned = "none" /\ request.walks
  <2>1. Resolved = resolvePortCandidates(request.port, request.pinned)
    BY <1>4 DEF Resolved
  <2>2. Line = names /\ names # << >>
    BY <1>4, <2>1 DEF Line, resolvePortCandidates
  <2> HIDE DEF names
  <2> QED
    BY <1>1, <1>4, <2>2
<1>5. CASE request.pinned = "none" /\ ~request.walks
  <2>1. names # << >> /\ Line = <<Head(names)>>
    BY <1>5 DEF Line, Resolved, resolvePort, resolvePortCandidates
  <2> HIDE DEF names
  <2>2. Head(names) = names[1] /\ names[1] \in ToSet(names) /\ names[1] \in Names
    BY <1>1, <2>1 DEF ToSet
  <2>3. ToSet(Line) = {names[1]} /\ IsInjective(Line)
    BY <2>1, <2>2 DEF ToSet, IsInjective
  <2> QED
    BY <1>1, <1>5, <2>1, <2>2, <2>3
<1> QED
  BY <1>2, <1>3, <1>4, <1>5

LEMMA ReadInit == CommandInit => ReadInv
<1> SUFFICES ASSUME CommandInit PROVE ReadInv
  OBVIOUS
<1>1. knownProviderNames \in Seq(Names)
  BY DEF knownProviderNames, Names
<1>2. /\ settings \in Settings /\ request \in Reads \cup Writes
      /\ pending = knownProviderNames /\ registered = << >>
      /\ pc = "bootstrap" /\ asked = << >>
  BY DEF CommandInit, Init
<1> QED
  BY <1>1, <1>2 DEF ReadInv, RegistryInv

\* A step that asks nobody keeps what was asked and, while the command goes on, the
\* line.
LEMMA QuietStep ==
  ASSUME ReadInv, RegistryInv', UNCHANGED <<request, asked>>,
         pc' \in {"bootstrap", "run", "answered", "failed", "reported", "left"},
         pc' \in {"bootstrap", "run"} => pc \in {"bootstrap", "run"},
         pc' \in {"answered", "failed"} => asked = << >> \/ request \notin Reads
  PROVE  ReadInv'
BY DEF ReadInv

\* One provider is asked.
LEMMA AskStep ==
  ASSUME ReadInv, Ask
  PROVE  ReadInv'
<1>1. pc = "asking" /\ UNCHANGED registryVars /\ UNCHANGED request
  BY DEF Ask
<1>2. RegistryInv' /\ Resolved' = Resolved /\ Line' = Line
  BY <1>1, LineSame, PortsSame DEF ReadInv, RegistryInv
<1>3. ASSUME request \in Reads PROVE ReadInv'
  <2>1. PICK o \in Outcomes(request.port) :
          /\ Call(request.port, Head(candidates), o)
          /\ CASE o = "answer" -> Goto("answered") /\ UNCHANGED candidates
               [] o # "answer" /\ isFallbackError(o) /\ Len(candidates) > 1
                    /\ request.pinned = "none" ->
                    Goto("asking") /\ candidates' = Tail(candidates)
               [] OTHER -> Throw(o) /\ UNCHANGED candidates
    BY DEF Ask
  <2>2. InLine /\ asked \in Seq(Calls)
    BY <1>1, <1>3 DEF ReadInv
  <2>3. o \in {"answer", "RPC", "AbortError", "Error"}
    BY <2>1 DEF Outcomes, callRpc
  <2>4. request.port \in Names
    BY <1>3, ReadsAssumption DEF Names
  <2> DEFINE n == Len(asked)
             call == [port |-> request.port, name |-> Head(candidates), outcome |-> o]
  <2>5. asked' = Append(asked, call)
    BY <2>1 DEF Call
  <2>6. Head(candidates) = Line[n + 1] /\ Head(candidates) \in Names
        /\ n \in Nat /\ n + 1 <= Len(Line) /\ n + Len(candidates) = Len(Line)
    BY <2>2 DEF InLine
  <2>7. call \in Calls
    BY <2>3, <2>4, <2>6 DEF Calls
  <2>8. call.name = Line[n + 1] /\ call.outcome = o
    BY <2>6
  <2> HIDE DEF call
  <2>9. /\ asked' \in Seq(Calls) /\ Len(asked') = n + 1 /\ asked' # << >>
        /\ asked'[n + 1] = call /\ \A i \in 1..n : asked'[i] = asked[i]
    BY <2>2, <2>5, <2>7
  <2> HIDE DEF n
  <2>10. ASSUME NEW i \in 1..Len(asked') PROVE asked'[i].name = Line[i]
    <3>1. CASE i = n + 1
      BY <2>8, <2>9, <3>1
    <3>2. CASE i # n + 1
      <4>1. i \in 1..n
        BY <2>6, <2>9, <3>2
      <4> QED
        BY <2>2, <2>9, <4>1 DEF InLine, n
    <3> QED
      BY <3>1, <3>2
  <2>11. \A i \in 1..Len(asked') - 1 : asked'[i].outcome = "RPC"
    BY <2>2, <2>6, <2>9 DEF InLine, n
  <2>12. CASE o = "RPC" /\ Len(candidates) > 1 /\ request.pinned = "none"
    <3>1. pc' = "asking" /\ candidates' = Tail(candidates)
      BY <2>1, <2>12 DEF isFallbackError, Goto
    <3>2. /\ candidates' \in Seq(Names) /\ candidates' # << >>
          /\ Len(asked') + Len(candidates') = Len(Line)
          /\ \A j \in 1..Len(candidates') : candidates'[j] = Line[Len(asked') + j]
      <4>1. /\ candidates' \in Seq(Names) /\ Len(candidates') = Len(candidates) - 1
            /\ \A j \in 1..Len(candidates') : candidates'[j] = candidates[j + 1]
        BY <2>2, <2>12, <3>1 DEF InLine
      <4>2. Len(candidates) \in Nat /\ Len(candidates) > 1
        BY <2>2, <2>12 DEF InLine
      <4>3. Len(asked') + Len(candidates') = Len(Line)
        <5>1. Len(asked') = n + 1 /\ Len(candidates') = Len(candidates) - 1
          BY <2>9, <4>1
        <5> HIDE DEF n
        <5> QED
          BY <2>6, <4>2, <5>1
      <4>4. ASSUME NEW j \in 1..Len(candidates')
            PROVE  candidates'[j] = Line[Len(asked') + j]
        <5>1. j + 1 \in 1..Len(candidates) /\ n + (j + 1) = Len(asked') + j
          BY <2>6, <2>9, <4>1, <4>2
        <5>2. candidates[j + 1] = Line[n + (j + 1)]
          BY <2>2, <5>1 DEF InLine, n
        <5> QED
          BY <4>1, <5>1, <5>2
      <4> QED
        BY <4>1, <4>2, <4>3, <4>4
    <3>3. \A i \in 1..Len(asked') : asked'[i].outcome = "RPC"
      BY <2>6, <2>8, <2>9, <2>11, <2>12
    <3>4. InLine'
      BY <1>2, <2>2, <2>10, <3>2, <3>3 DEF InLine
    <3> QED
      BY <1>1, <1>2, <2>9, <3>1, <3>4 DEF ReadInv
  <2>13. CASE ~(o = "RPC" /\ Len(candidates) > 1 /\ request.pinned = "none")
    <3>1. \/ o = "answer" /\ pc' = "answered"
          \/ o # "answer" /\ pc' = "failed" /\ error' = o
      BY <2>1, <2>3, <2>13 DEF isFallbackError, Goto, Throw
    <3>2. ASSUME o = "RPC" PROVE Len(asked') = Len(Line)
      <4>1. CASE Len(candidates) <= 1
        BY <2>2, <2>9, <4>1 DEF InLine, n
      <4>2. CASE request.pinned # "none"
        <5>1. Len(Line) = 1
          BY <1>3, <2>2, <4>2, LineFacts DEF InLine, ReadInv
        <5> QED
          BY <2>6, <2>9, <5>1
      <4>3. Len(candidates) \in Nat
        BY <2>2 DEF InLine
      <4> QED
        BY <2>13, <3>2, <4>1, <4>2, <4>3
    <3>3. Settled'
      <4>1. asked'[Len(asked')].outcome = o
        BY <2>8, <2>9
      <4>2. Len(asked') <= Len(Line) /\ Resolved.error = "none"
        BY <2>2, <2>6, <2>9 DEF InLine
      <4> QED
        BY <1>2, <2>10, <2>11, <3>1, <3>2, <4>1, <4>2 DEF Settled
    <3> QED
      BY <1>1, <1>2, <2>9, <3>1, <3>3 DEF ReadInv
  <2> QED
    BY <2>12, <2>13
<1>4. ASSUME request \notin Reads PROVE ReadInv'
  BY <1>1, <1>2, <1>4 DEF ReadInv
<1> QED
  BY <1>3, <1>4

\* A vendor is registered, or passed over, before anybody is asked.
LEMMA RegisterStep == ASSUME RegistryInv, Register PROVE RegistryInv'
<1>1. /\ pending # << >> /\ pending' = Tail(pending)
      /\ registered' = Append(registered, Head(pending)) \/ registered' = registered
      /\ UNCHANGED <<settings, request>>
  BY DEF Register
<1>2. Head(pending) \in Names /\ Tail(pending) \in Seq(Names)
  BY <1>1 DEF RegistryInv
<1> QED
  BY <1>1, <1>2 DEF RegistryInv

\* Any other step leaves the registry and the request as they are.
LEMMA RegistrySame ==
  ASSUME RegistryInv, UNCHANGED registryVars, UNCHANGED request
  PROVE  RegistryInv'
BY PortsSame DEF RegistryInv

\* Every step of the process keeps what holds of a reading command.
LEMMA ReadProcess == ASSUME ReadInv, ProcessNext, UNCHANGED payVars PROVE ReadInv'
<1>0. RegistryInv
  BY DEF ReadInv
<1>1. CASE Register
  BY <1>0, <1>1, RegisterStep, QuietStep DEF Register, processVars, askVars, ReadInv
<1>2. CASE Bootstrapped
  BY <1>0, <1>2, RegistrySame, QuietStep DEF Bootstrapped, Goto, askVars
<1>3. CASE BeginRead
  <2>1. /\ pc = "run" /\ request \in Reads /\ UNCHANGED registryVars
        /\ UNCHANGED <<request, asked>>
    BY <1>3 DEF BeginRead
  <2>2. asked = << >>
    BY <2>1 DEF ReadInv
  <2>3. RegistryInv' /\ Resolved' = Resolved /\ Line' = Line
    BY <1>0, <2>1, RegistrySame, LineSame
  <2> DEFINE refusals == <<IF request.valid THEN "none" ELSE "INPUT_INVALID", Resolved.error>>
  <2>4. IF First(refusals) # "none" THEN pc' = "failed"
        ELSE pc' = "asking" /\ candidates' = Line
    BY <1>3 DEF BeginRead, Resolved, Line, Goto, Throw
  <2>5. CASE First(refusals) # "none"
    BY <2>1, <2>2, <2>3, <2>4, <2>5, QuietStep
  <2>6. CASE First(refusals) = "none"
    <3>1. DOMAIN refusals = 1..2 /\ refusals[2] = Resolved.error
      OBVIOUS
    <3> HIDE DEF refusals
    <3>2. Resolved.error = "none"
      <4>1. \A i \in 1..2 : refusals[i] = "none"
        BY <2>6, <3>1, FirstNone
      <4> QED
        BY <3>1, <4>1
    <3>3. Line \in Seq(Names) /\ Line # << >>
      BY <1>0, <2>1, <3>2, LineFacts
    <3>4. Len(asked') = 0 /\ candidates' = Line
      BY <2>1, <2>2, <2>4, <2>6
    <3>5. InLine'
      BY <2>3, <3>2, <3>3, <3>4 DEF InLine
    <3> QED
      BY <2>1, <2>2, <2>3, <2>4, <2>6, <3>5 DEF ReadInv
  <2> QED
    BY <2>5, <2>6
<1>4. CASE Ask
  BY <1>4, AskStep
<1>5. CASE HandleError
  BY <1>0, <1>5, RegistrySame, QuietStep DEF HandleError, askVars
<1>6. CASE Leave
  BY <1>0, <1>6, RegistrySame, QuietStep DEF Leave, askVars
<1>7. CASE Signal
  <2>1. UNCHANGED registryVars /\ UNCHANGED <<request, pc, error, candidates, asked>>
    BY <1>7 DEF Signal, processVars, askVars
  <2>2. RegistryInv' /\ Resolved' = Resolved /\ Line' = Line
    BY <1>0, <2>1, RegistrySame, LineSame
  <2> QED
    BY <2>1, <2>2 DEF ReadInv, InLine, Settled
<1>8. CASE Killed
  BY <1>0, <1>8, RegistrySame, QuietStep DEF Killed, askVars
<1> QED
  BY <1>1, <1>2, <1>3, <1>4, <1>5, <1>6, <1>7, <1>8 DEF ProcessNext

\* A paying command is no reading one.
LEMMA ReadTransfer == ASSUME ReadInv, TransferNext PROVE ReadInv'
<1>1. UNCHANGED registryVars /\ UNCHANGED request
  BY DEF TransferNext, BeginTransfer, LookUpMint, SimulateOnly, PreFlight, Submit, Executed
<1>2. request \notin Reads
  <2>1. \/ request \in Writes
        \/ pc \in {"looking up", "simulating", "pre-flight", "executing"}
    BY DEF TransferNext, BeginTransfer, LookUpMint, SimulateOnly, PreFlight, Submit, Executed
  <2> QED
    BY <2>1, ReadsAssumption DEF ReadInv
<1>3. RegistryInv'
  BY <1>1, RegistrySame DEF ReadInv
<1> QED
  BY <1>1, <1>2, <1>3 DEF ReadInv

LEMMA ReadStep == ReadInv /\ [CommandNext]_allVars => ReadInv'
<1> SUFFICES ASSUME ReadInv, [CommandNext]_allVars PROVE ReadInv'
  OBVIOUS
<1>1. CASE UNCHANGED allVars
  <2>1. UNCHANGED registryVars /\ UNCHANGED <<request, pc, error, candidates, asked>>
    BY <1>1 DEF allVars, processVars, askVars
  <2>2. RegistryInv' /\ Resolved' = Resolved /\ Line' = Line
    BY <2>1, RegistrySame, LineSame DEF ReadInv
  <2> QED
    BY <2>1, <2>2 DEF ReadInv, InLine, Settled
<1> QED
  BY <1>1, ReadProcess, ReadTransfer DEF CommandNext

\* Whatever is configured, registered and pinned, a reading command ends with what
\* the last provider it asked said; those before had failed in a way another may
\* make good, nobody was asked twice, the active provider came first, and such a
\* failure is final for an operation only when every provider of the port was asked.
THEOREM LastAnswerStands == CommandSpec => []FinalAnswerStands
<1>1. ReadInv => FinalAnswerStands
  <2> SUFFICES ASSUME ReadInv, request \in Reads, pc \in {"answered", "failed"},
                      asked # << >>
               PROVE  FinalAnswerStands
    BY DEF FinalAnswerStands
  <2> DEFINE k == Len(asked)
             whom == [i \in 1..k |-> asked[i].name]
             able == {n \in ToSet(registered) : request.port \in Manifest(n)}
  <2>1. Settled /\ asked \in Seq(Calls) /\ RegistryInv
    BY DEF ReadInv
  <2>2. k \in Nat /\ k >= 1 /\ Last(asked) = asked[k]
    BY <2>1 DEF Last
  <2>3. /\ Line \in Seq(Names) /\ Line # << >>
        /\ IsInjective(Line) /\ ToSet(Line) \subseteq able
        /\ IF request.pinned # "none" THEN Line = <<request.pinned>>
           ELSE /\ settings.active \in able => Line[1] = settings.active
                /\ request.walks => ToSet(Line) = able
    BY <2>1, LineFacts DEF Settled
  <2>4. Len(Line) \in Nat /\ k <= Len(Line) /\ \A i \in 1..k : whom[i] = Line[i]
    BY <2>1, <2>3 DEF Settled
  <2>5. DOMAIN whom = 1..k /\ whom \in Seq(Names) /\ Len(whom) = k
    <3>1. \A i \in 1..k : whom[i] \in Names
      BY <2>3, <2>4
    <3> QED
      BY <2>2, <3>1
  <2> HIDE DEF whom, k, able
  <2>6. IsInjective(whom)
    BY <2>2, <2>3, <2>4, <2>5 DEF IsInjective
  <2>7. ToSet(whom) \subseteq ToSet(Line) /\ (k = Len(Line) => ToSet(whom) = ToSet(Line))
    BY <2>3, <2>4, <2>5 DEF ToSet
  <2>8. ASSUME request.pinned # "none" PROVE whom = <<request.pinned>>
    <3>1. k = 1 /\ whom[1] = request.pinned
      <4>1. Len(Line) = 1 /\ Line[1] = request.pinned
        BY <2>3, <2>8
      <4> QED
        BY <2>2, <2>4, <4>1
    <3> QED
      BY <2>5, <3>1
  <2>9. whom[1] = Line[1]
    BY <2>2, <2>4
  <2>10. LET final == Last(asked).outcome
         IN /\ \A i \in 1..Len(asked) - 1 : asked[i].outcome = "RPC"
            /\ final = "answer" <=> pc = "answered"
            /\ final # "answer" => error = final
            /\ final = "RPC" => k = Len(Line)
    BY <2>1, <2>2 DEF Settled, k
  <2> QED
    BY <2>3, <2>6, <2>7, <2>8, <2>9, <2>10 DEF FinalAnswerStands, whom, k, able
<1> QED
  BY <1>1, ReadInit, ReadStep, PTL DEF CommandSpec

-----------------------------------------------------------------------------
(* Paying: nothing is sent around the gates.                               *)

\* What has been checked when the command comes to each of its awaits.
SendInv ==
  /\ RegistryInv
  /\ pc \in Unsubmitted => sent = NotSent
  /\ pc \in {"looking up", "pre-flight"} =>
       request \in Writes /\ IntentRefusal = "none" /\ InputRefusal = "none"
  /\ pc = "pre-flight" =>
       /\ request.execute /\ PlanRefusal = "none" /\ PolicyRefusal = "none"
       /\ CeilingRefusal = "none"
       /\ resolvePort("simulateTransaction").error = "none"
       /\ candidates = resolvePort("simulateTransaction").names
  /\ pc = "executing" =>
       sent # NotSent /\ "by" \in DOMAIN sent /\ "programs" \in DOMAIN sent
  /\ SentThroughGates

\* A simulation that says nothing of the accounts has no outflow.
LEMMA NoOutflow == ASSUME NEW name, NEW ok PROVE Outflow(simulate(name, ok)) = 0
<1>1. simulate(name, ok).deltas = << >> /\ DOMAIN << >> = {}
  BY DEF simulate
<1> QED
  BY <1>1 DEF Outflow, FoldLeft, MapThenFoldSet

LEMMA SendInit == CommandInit => SendInv
<1> SUFFICES ASSUME CommandInit PROVE SendInv
  OBVIOUS
<1>1. pc = "bootstrap" /\ sent = NotSent
  BY DEF CommandInit, Init
<1>2. RegistryInv
  BY ReadInit DEF ReadInv
<1> QED
  BY <1>1, <1>2 DEF SendInv, SentThroughGates

\* What is checked depends on the request, and the provider that simulates on the
\* registry too.
LEMMA ChecksSame ==
  ASSUME UNCHANGED request
  PROVE  /\ IntentRefusal' = IntentRefusal /\ InputRefusal' = InputRefusal
         /\ PlanRefusal' = PlanRefusal /\ PolicyRefusal' = PolicyRefusal
         /\ CeilingRefusal' = CeilingRefusal
         /\ Program' = Program
BY DEF IntentRefusal, InputRefusal, PlanRefusal, PolicyRefusal, CeilingRefusal, Program, IsToken

LEMMA PortSame ==
  ASSUME UNCHANGED registryVars, NEW port
  PROVE  resolvePort(port)' = resolvePort(port)
BY PortsSame DEF resolvePort, resolvePortCandidates

\* A step that calls no service and comes to no gate keeps what was sent.
LEMMA PlainStep ==
  ASSUME SendInv, UNCHANGED <<request, sent, simulation>>,
         RegistryInv', ToSet(registered) \subseteq ToSet(registered'),
         pc' \in Unsubmitted => pc \in Unsubmitted,
         pc' \notin {"looking up", "pre-flight", "executing"}
  PROVE  SendInv'
<1>1. SentThroughGates'
  BY ChecksSame DEF SendInv, SentThroughGates
<1> QED
  BY <1>1 DEF SendInv

LEMMA RegisterGrows ==
  ASSUME RegistryInv, Register
  PROVE  ToSet(registered) \subseteq ToSet(registered')
<1>1. registered' = Append(registered, Head(pending)) \/ registered' = registered
  BY DEF Register
<1> QED
  BY <1>1 DEF RegistryInv, ToSet

LEMMA SendProcess == ASSUME SendInv, ProcessNext, UNCHANGED payVars PROVE SendInv'
<1>0. RegistryInv /\ UNCHANGED <<sent, simulation>>
  BY DEF SendInv, payVars
<1>1. CASE Register
  BY <1>0, <1>1, RegisterStep, RegisterGrows, PlainStep DEF Register, processVars
<1>2. CASE Bootstrapped \/ BeginRead \/ Ask \/ HandleError \/ Leave \/ Killed
  <2>1. UNCHANGED registryVars /\ UNCHANGED request
    BY <1>2 DEF Bootstrapped, BeginRead, Ask, HandleError, Leave, Killed
  <2>2. pc' \in {"run", "asking", "answered", "failed", "reported", "left"}
    BY <1>2 DEF Bootstrapped, BeginRead, Ask, HandleError, Leave, Killed, Goto, Throw
  <2>3. pc \in Unsubmitted \/ pc' \in {"reported", "left"}
    BY <1>2 DEF Bootstrapped, BeginRead, Ask, HandleError, Leave, Killed, Unsubmitted
  <2> QED
    BY <1>0, <2>1, <2>2, <2>3, RegistrySame, PortsSame, PlainStep DEF Unsubmitted
<1>3. CASE Signal
  <2>1. UNCHANGED registryVars /\ UNCHANGED <<request, pc, candidates>>
    BY <1>3 DEF Signal, processVars, askVars
  <2>2. RegistryInv' /\ UNCHANGED registered
    BY <1>0, <2>1, RegistrySame, PortsSame
  <2>3. resolvePort("simulateTransaction")' = resolvePort("simulateTransaction")
    BY <2>1, PortSame
  <2>4. SentThroughGates'
    BY <1>0, <2>1, <2>2, ChecksSame DEF SendInv, SentThroughGates
  <2> QED
    BY <1>0, <2>1, <2>2, <2>3, <2>4, ChecksSame DEF SendInv
<1> QED
  BY <1>1, <1>2, <1>3 DEF ProcessNext

\* What the rest of the checks before the first simulation lets through.
LEMMA BuiltGates ==
  ASSUME SendInv, Built, UNCHANGED registryVars, UNCHANGED <<request, payVars>>,
         pc \in Unsubmitted, request \in Writes,
         IntentRefusal = "none", InputRefusal = "none"
  PROVE  SendInv'
<1> DEFINE port == resolvePort("simulateTransaction")
<1>0. RegistryInv' /\ UNCHANGED <<registered, sent, simulation>>
  BY RegistrySame, PortsSame DEF SendInv, payVars
<1>1. SentThroughGates'
  BY <1>0, ChecksSame DEF SendInv, SentThroughGates
<1>2. CASE pc' # "pre-flight"
  <2>1. pc' \in {"failed", "simulating", "answered"}
    BY <1>2 DEF Built, Throw, Goto
  <2> QED
    BY <1>0, <1>2, <2>1, PlainStep DEF Unsubmitted
<1>3. CASE pc' = "pre-flight"
  <2> DEFINE policies == <<PlanRefusal, PolicyRefusal>>
             refusals == <<First(policies), CeilingRefusal, BuildRefusal>>
  <2>1. /\ request.execute /\ First(refusals) = "none" /\ candidates' = port.names
        /\ First(policies) = "none"
    BY <1>3 DEF Built, Throw, Goto
  <2>2. CeilingRefusal = "none" /\ BuildRefusal = "none"
    <3>1. DOMAIN refusals = 1..3 /\ refusals[2] = CeilingRefusal
          /\ refusals[3] = BuildRefusal
      OBVIOUS
    <3> HIDE DEF refusals
    <3>2. \A i \in 1..3 : refusals[i] = "none"
      BY <2>1, <3>1, FirstNone
    <3> QED
      BY <3>1, <3>2
  <2>3. port.error = "none"
    <3> DEFINE verdict == evaluateBuild(Plan, Options)
               last == IF verdict = "none" THEN "none" ELSE toSafetyError(verdict)
               builds == <<IF Aborted THEN "INTERNAL" ELSE "none", port.error, last>>
    <3>1. First(builds) = "none"
      BY <2>2 DEF BuildRefusal
    <3>2. DOMAIN builds = 1..3 /\ builds[2] = port.error
      OBVIOUS
    <3> HIDE DEF builds
    <3>3. \A i \in 1..3 : builds[i] = "none"
      BY <3>1, <3>2, FirstNone
    <3> QED
      BY <3>2, <3>3
  <2>4. port' = port
    BY PortSame
  <2>5. PlanRefusal = "none" /\ PolicyRefusal = "none"
    <3>1. DOMAIN policies = 1..2 /\ policies[1] = PlanRefusal /\ policies[2] = PolicyRefusal
      OBVIOUS
    <3> HIDE DEF policies, refusals
    <3>2. \A i \in 1..2 : policies[i] = "none"
      BY <2>1, <3>1, FirstNone
    <3> QED
      BY <3>1, <3>2
  <2> QED
    BY <1>0, <1>1, <1>3, <2>1, <2>2, <2>3, <2>4, <2>5, ChecksSame DEF SendInv, Unsubmitted
<1> QED
  BY <1>2, <1>3

\* The command's first checks: the intent, the arguments and the named program.
LEMMA SendBegin == ASSUME SendInv, BeginTransfer PROVE SendInv'
<1> DEFINE refusals == <<IntentRefusal, InputRefusal, MintRefusal>>
           lookup == resolvePort("getAccountInfo")
<1>1. /\ pc = "run" /\ request \in Writes /\ UNCHANGED registryVars
      /\ UNCHANGED <<request, payVars>>
      /\ IF First(refusals) # "none" THEN Throw(First(refusals)) /\ UNCHANGED candidates
         ELSE IF IsToken /\ request.mintProgram = "none" /\ lookup.error = "none"
              THEN Goto("looking up") /\ candidates' = lookup.names
              ELSE Built
  BY DEF BeginTransfer
<1>2. RegistryInv' /\ UNCHANGED <<registered, sent, simulation>>
  BY <1>1, RegistrySame, PortsSame DEF SendInv, payVars
<1>3. CASE First(refusals) # "none"
  BY <1>1, <1>2, <1>3, PlainStep DEF Throw, Unsubmitted
<1>4. CASE First(refusals) = "none"
  <2>1. IntentRefusal = "none" /\ InputRefusal = "none"
    <3>1. DOMAIN refusals = 1..3 /\ refusals[1] = IntentRefusal
          /\ refusals[2] = InputRefusal
      OBVIOUS
    <3> HIDE DEF refusals
    <3>2. \A i \in 1..3 : refusals[i] = "none"
      BY <1>4, <3>1, FirstNone
    <3> QED
      BY <3>1, <3>2
  <2>2. CASE Built
    BY <1>1, <2>1, <2>2, BuiltGates DEF Unsubmitted
  <2>3. CASE ~Built
    <3>1. pc' = "looking up"
      BY <1>1, <1>4, <2>3 DEF Goto
    <3>2. SentThroughGates'
      BY <1>1, <1>2, ChecksSame DEF SendInv, SentThroughGates
    <3> QED
      BY <1>1, <1>2, <2>1, <3>1, <3>2, ChecksSame DEF SendInv, Unsubmitted
  <2> QED
    BY <2>2, <2>3
<1> QED
  BY <1>3, <1>4

\* The gate on the simulation, and the service that is made for the active provider.
LEMMA SendPreFlight == ASSUME SendInv, PreFlight PROVE SendInv'
<1>1. /\ pc = "pre-flight" /\ UNCHANGED registryVars /\ UNCHANGED request
  BY DEF PreFlight
<1>2. RegistryInv' /\ UNCHANGED registered /\ UNCHANGED settings /\ sent = NotSent
  BY <1>1, RegistrySame, PortsSame DEF SendInv, Unsubmitted
<1> DEFINE simulator == Head(candidates)
<1>3. PICK o \in Outcomes("simulateTransaction"), ok \in BOOLEAN :
        LET sim == simulate(simulator, ok)
            verdict == evaluateSimulation(Plan, sim, Options)
            refusal == First(<<IF o = "answer" THEN "none" ELSE o,
                               IF ok THEN "none" ELSE "TX_SIMULATE_FAILED",
                               IF verdict = "none" THEN "none" ELSE toSafetyError(verdict),
                               IF Aborted THEN "INTERNAL" ELSE "none",
                               ServiceRefusal>>)
        IN /\ simulation' = IF o = "answer" THEN sim ELSE NoSimulation
           /\ IF refusal = "none"
              THEN /\ Goto("executing")
                   /\ sent' = [by |-> settings.active, programs |-> Plan.programs,
                               submitted |-> FALSE]
              ELSE Throw(refusal) /\ UNCHANGED sent
  BY DEF PreFlight
<1> DEFINE sim == simulate(simulator, ok)
           verdict == evaluateSimulation(Plan, sim, Options)
           refusals == <<IF o = "answer" THEN "none" ELSE o,
                         IF ok THEN "none" ELSE "TX_SIMULATE_FAILED",
                         IF verdict = "none" THEN "none" ELSE toSafetyError(verdict),
                         IF Aborted THEN "INTERNAL" ELSE "none",
                         ServiceRefusal>>
<1>4. CASE First(refusals) # "none"
  <2>1. sent' = NotSent /\ pc' = "failed"
    BY <1>2, <1>3, <1>4 DEF Throw
  <2> QED
    BY <1>2, <2>1 DEF SendInv, SentThroughGates, Unsubmitted
<1>5. CASE First(refusals) = "none"
  <2>1. /\ pc' = "executing"
        /\ sent' = [by |-> settings.active, programs |-> Plan.programs, submitted |-> FALSE]
        /\ simulation' = IF o = "answer" THEN sim ELSE NoSimulation
    BY <1>3, <1>5 DEF Goto
  <2>2. o = "answer" /\ ok /\ verdict = "none" /\ ServiceRefusal = "none"
    <3>1. /\ DOMAIN refusals = 1..5
          /\ refusals[1] = IF o = "answer" THEN "none" ELSE o
          /\ refusals[2] = IF ok THEN "none" ELSE "TX_SIMULATE_FAILED"
          /\ refusals[3] = IF verdict = "none" THEN "none" ELSE toSafetyError(verdict)
          /\ refusals[5] = ServiceRefusal
      OBVIOUS
    <3> HIDE DEF refusals, verdict
    <3>2. \A i \in 1..5 : refusals[i] = "none"
      BY <1>5, <3>1, FirstNone
    <3>3. o \in {"answer", "RPC", "AbortError", "Error"}
      BY DEF Outcomes, callRpc
    <3>4. toSafetyError(verdict) # "none"
      BY DEF toSafetyError
    <3> QED
      BY <3>1, <3>2, <3>3, <3>4
  <2>3. sim = [by |-> simulator, ok |-> TRUE, feeLamports |-> 0, deltas |-> << >>]
    BY <2>2 DEF simulate
  <2>4. request \in WriteRequests /\ request \in Writes
    BY <1>1, RequestsAssumption DEF SendInv
  <2>5. /\ request.execute /\ IntentRefusal = "none" /\ InputRefusal = "none"
        /\ PlanRefusal = "none" /\ PolicyRefusal = "none" /\ CeilingRefusal = "none"
    BY <1>1 DEF SendInv
  <2>6. /\ request.key # "none" /\ request.ceiling.state = "integer"
        /\ request.malformed = "none" /\ request.payer
        /\ request.ceiling.lamports \in Int
    BY <2>4, <2>5
       DEF WriteRequests, IntentRefusal, InputRefusal, PlanRefusal, PolicyRefusal,
           CeilingRefusal
  <2>7. sim.feeLamports <= request.ceiling.lamports
    <3> DEFINE cost == evaluateCostBudget(sim, Options.ceiling, Outflow(sim))
               gates == <<cost, evaluateAllowedPrograms(Plan, Options.allowed)>>
    <3>1. First(gates) = "none"
      BY <2>2 DEF evaluateSimulation, compose
    <3>2. DOMAIN gates = 1..2 /\ gates[1] = cost
      OBVIOUS
    <3>3. cost = "none"
      <4> HIDE DEF gates, cost
      <4>1. \A i \in 1..2 : gates[i] = "none"
        BY <3>1, <3>2, FirstNone
      <4> QED
        BY <3>2, <4>1
    <3>4. Outflow(sim) = 0 /\ Options.ceiling = request.ceiling.lamports
          /\ sim.feeLamports = 0
      BY <2>3, NoOutflow DEF Options
    <3> HIDE DEF sim
    <3> QED
      BY <2>6, <3>3, <3>4 DEF evaluateCostBudget
  <2>8. Plan.programs = {Program}
    BY DEF Plan, Program, buildTransferMessage, buildTokenTransferMessage
  <2>9. settings.active \in ToSet(registered) /\ simulator = settings.active
    <3>1. Capable(settings.active, "simulateTransaction")
      BY <2>2 DEF ServiceRefusal, Capable
    <3> DEFINE names == capableFor("simulateTransaction")
    <3>2. names # << >> /\ names[1] = settings.active /\ names \in Seq(Names)
      BY <3>1, OrderedNames, CapableFor DEF SendInv
    <3>3. candidates = <<Head(names)>>
      BY <1>1, <3>2 DEF SendInv, resolvePort, resolvePortCandidates
    <3> HIDE DEF names
    <3>4. Head(names) = names[1]
      BY <3>2
    <3> QED
      BY <3>1, <3>2, <3>3, <3>4 DEF Capable
  <2>10. /\ simulation' = sim
         /\ sent'.by = settings.active /\ sent'.programs = {Program}
         /\ "by" \in DOMAIN sent' /\ "programs" \in DOMAIN sent'
    BY <2>1, <2>2, <2>8
  <2> HIDE DEF simulator, verdict, refusals
  <2>11. SentThroughGates'
    BY <1>1, <1>2, <2>3, <2>4, <2>5, <2>6, <2>7, <2>9, <2>10, ChecksSame
       DEF SentThroughGates
  <2>12. sent' # NotSent
    BY <2>10 DEF NotSent
  <2> QED
    BY <1>2, <2>1, <2>10, <2>11, <2>12 DEF SendInv, Unsubmitted
<1> QED
  BY <1>4, <1>5

LEMMA SendTransfer == ASSUME SendInv, TransferNext PROVE SendInv'
<1>1. CASE BeginTransfer
  BY <1>1, SendBegin
<1>2. CASE LookUpMint
  BY <1>2, BuiltGates DEF LookUpMint, SendInv, Unsubmitted
<1>3. CASE PreFlight
  BY <1>3, SendPreFlight
<1>4. CASE SimulateOnly \/ Executed
  <2>1. UNCHANGED registryVars /\ UNCHANGED <<request, payVars>>
    BY <1>4 DEF SimulateOnly, Executed
  <2>2. pc' \in {"answered", "failed"}
    BY <1>4 DEF SimulateOnly, Executed, Goto, Throw
  <2>3. RegistryInv' /\ UNCHANGED <<registered, sent, simulation>>
    BY <2>1, RegistrySame, PortsSame DEF SendInv, payVars
  <2> QED
    BY <2>1, <2>2, <2>3, PlainStep DEF Unsubmitted
<1>5. CASE Submit
  <2>1. /\ pc = "executing" /\ pc' = pc /\ UNCHANGED registryVars
        /\ UNCHANGED <<request, simulation>> /\ sent' = [sent EXCEPT !.submitted = TRUE]
    BY <1>5 DEF Submit, processVars
  <2>2. RegistryInv' /\ UNCHANGED registered
    BY <2>1, RegistrySame, PortsSame DEF SendInv
  <2>3. /\ sent # NotSent /\ DOMAIN sent' = DOMAIN sent
        /\ sent'.by = sent.by /\ sent'.programs = sent.programs
    BY <2>1 DEF SendInv
  <2>4. SentThroughGates'
    BY <2>1, <2>2, <2>3, ChecksSame DEF SendInv, SentThroughGates
  <2>5. sent' # NotSent
    <3>1. SentThroughGates
      BY DEF SendInv
    <3>2. sent'.programs = {Program}
      BY <2>3, <3>1 DEF SentThroughGates
    <3> QED
      BY <3>2 DEF NotSent
  <2> QED
    BY <2>1, <2>2, <2>3, <2>4, <2>5 DEF SendInv, Unsubmitted
<1> QED
  BY <1>1, <1>2, <1>3, <1>4, <1>5 DEF TransferNext

LEMMA SendStep == SendInv /\ [CommandNext]_allVars => SendInv'
<1> SUFFICES ASSUME SendInv, [CommandNext]_allVars PROVE SendInv'
  OBVIOUS
<1>1. CASE UNCHANGED allVars
  <2>1. UNCHANGED registryVars
        /\ UNCHANGED <<request, pc, candidates, sent, simulation>>
    BY <1>1 DEF allVars, processVars, askVars, payVars
  <2>2. RegistryInv' /\ UNCHANGED registered
    BY <2>1, RegistrySame, PortsSame DEF SendInv
  <2>3. resolvePort("simulateTransaction")' = resolvePort("simulateTransaction")
    BY <2>1, PortSame
  <2>4. SentThroughGates'
    BY <2>1, <2>2, ChecksSame DEF SendInv, SentThroughGates
  <2> QED
    BY <2>1, <2>2, <2>3, <2>4, ChecksSame DEF SendInv
<1> QED
  BY <1>1, SendProcess, SendTransfer DEF CommandNext

\* The transaction service is only ever called with intent, a key, an integer ceiling
\* and well-formed arguments, for the plan's own program, after a simulation that
\* went well, and the provider that submits is the one that simulated: the registry's
\* first choice for the port and its active entry are the same wherever both exist.
THEOREM NothingAroundTheGates == CommandSpec => []SentThroughGates
<1>1. SendInv => SentThroughGates
  BY DEF SendInv
<1> QED
  BY <1>1, SendInit, SendStep, PTL DEF CommandSpec

-----------------------------------------------------------------------------
(* Config: what was set is what is read.                                   *)

\* A section holds everything that was asserted for it, and nothing else but
\* built-in values.
Kept(section, given) ==
  /\ DOMAIN given \subseteq DOMAIN section
  /\ \A k \in DOMAIN section : section[k] = ValueOf(given, k)

SettingsInv ==
  /\ disk = [default_profile |-> disk.default_profile, profiles |-> disk.profiles]
  /\ asserted = [p \in Profiles |-> asserted[p]]
  /\ \A p \in Profiles : Kept(Section(disk, p), asserted[p])

\* A leaf that is written to a section and asserted for it keeps the two together.
LEMMA MergeKeeps ==
  ASSUME NEW section, NEW given, NEW leaf, Kept(section, given)
  PROVE  Kept(deepMerge(section, leaf), deepMerge(given, leaf))
BY DEF Kept, ValueOf, deepMerge

\* What the schema fills in are built-in values beside the section's own.
LEMMA ParsingKeeps ==
  ASSUME NEW section, NEW given, NEW whole, Kept(section, given)
  PROVE  Kept(ParsedSection(section, whole), given)
<1> DEFINE tables == {k[1] : k \in DOMAIN section} \ {""}
           filled == [k \in {d \in DOMAIN DEFAULT_CONFIG : whole \/ d[1] \in tables}
                        |-> "built-in"]
<1>1. ParsedSection(section, whole) = deepMerge(filled, section)
  BY DEF ParsedSection
<1>2. \A k \in DOMAIN filled : filled[k] = "built-in"
  OBVIOUS
<1> HIDE DEF filled
<1>3. /\ DOMAIN deepMerge(filled, section) = DOMAIN filled \cup DOMAIN section
      /\ \A k \in DOMAIN section : deepMerge(filled, section)[k] = section[k]
      /\ \A k \in DOMAIN filled \ DOMAIN section :
           deepMerge(filled, section)[k] = "built-in"
  BY <1>2 DEF deepMerge
<1> QED
  BY <1>1, <1>3 DEF Kept, ValueOf

\* The sections of a file that is read hold what the file on disk holds.
LEMMA ReadingKeeps ==
  ASSUME SettingsInv, NEW whole, NEW p \in Profiles
  PROVE  Kept(Section(Parsed(disk, whole), p), asserted[p])
<1>1. Parsed(disk, whole).profiles =
        [q \in DOMAIN disk.profiles |-> ParsedSection(disk.profiles[q], whole)]
  BY DEF Parsed, SettingsInv
<1>2. Kept(Section(disk, p), asserted[p])
  BY DEF SettingsInv
<1>3. CASE p \in DOMAIN disk.profiles
  <2>1. Section(Parsed(disk, whole), p) = ParsedSection(Section(disk, p), whole)
    BY <1>1, <1>3 DEF Section
  <2> QED
    BY <1>2, <2>1, ParsingKeeps
<1>4. CASE p \notin DOMAIN disk.profiles
  BY <1>1, <1>2, <1>4 DEF Section
<1> QED
  BY <1>3, <1>4

\* Nothing has been set and the file is empty.
LEMMA InitSettings == ConfigInit => SettingsInv
BY DEF ConfigInit, SettingsInv, Empty, Section, NoConfig, Kept, ValueOf

\* A file that is written with the sections that were read keeps what was asserted.
LEMMA Written ==
  ASSUME SettingsInv, UNCHANGED asserted,
         disk' = [default_profile |-> disk'.default_profile, profiles |-> disk'.profiles],
         \A p \in Profiles : Section(disk', p) = Section(Current, p)
  PROVE  SettingsInv'
<1>1. ASSUME NEW p \in Profiles PROVE Kept(Section(disk', p), asserted'[p])
  BY ReadingKeeps DEF Current
<1> QED
  BY <1>1 DEF SettingsInv

\* `config set` writes one leaf over what it has just read.
LEMMA SetStep ==
  ASSUME SettingsInv, NEW k, NEW v, Set(k, v)
  PROVE  SettingsInv'
<1> DEFINE p == process.profile
           leaf == [j \in {k} |-> v]
           written == [q \in {p} |-> writeDottedPath(Section(Current, p), k, v)]
           next == [Current EXCEPT !.profiles = deepMerge(Current.profiles, written)]
<1>1. /\ disk' = next
      /\ asserted' = [asserted EXCEPT ![p] = deepMerge(@, leaf)]
  BY DEF Set, Save
<1>2. /\ Current.profiles = [q \in DOMAIN disk.profiles |->
                               ParsedSection(disk.profiles[q], fills)]
      /\ Current = [default_profile |-> Current.default_profile,
                    profiles |-> Current.profiles]
  BY DEF SettingsInv, Current, Parsed
<1>3. /\ next.profiles = deepMerge(Current.profiles, written)
      /\ next = [default_profile |-> next.default_profile, profiles |-> next.profiles]
  <2> HIDE DEF written
  <2> QED
    BY <1>2
<1>4. ASSUME NEW q \in Profiles, q # p
      PROVE  Kept(Section(disk', q), asserted'[q])
  <2>1. Section(next, q) = Section(Current, q)
    BY <1>3, <1>4 DEF deepMerge, Section
  <2>2. asserted'[q] = asserted[q]
    BY <1>1, <1>4 DEF SettingsInv
  <2> QED
    BY <1>1, <2>1, <2>2, ReadingKeeps DEF Current
<1>5. ASSUME p \in Profiles
      PROVE  Kept(Section(disk', p), asserted'[p])
  <2>1. Section(next, p) = deepMerge(Section(Current, p), leaf)
    BY <1>3 DEF deepMerge, Section, writeDottedPath
  <2>2. asserted'[p] = deepMerge(asserted[p], leaf)
    BY <1>1, <1>5 DEF SettingsInv
  <2>3. Kept(Section(Current, p), asserted[p])
    BY <1>5, ReadingKeeps DEF Current
  <2>4. Kept(deepMerge(Section(Current, p), leaf), deepMerge(asserted[p], leaf))
    BY <2>3, MergeKeeps
  <2> QED
    BY <1>1, <2>1, <2>2, <2>4
<1>6. asserted' = [q \in Profiles |-> asserted'[q]]
  BY <1>1 DEF SettingsInv
<1> HIDE DEF next, p
<1> QED
  BY <1>1, <1>3, <1>4, <1>5, <1>6 DEF SettingsInv

\* The other commands write back what they have read, or nothing.
LEMMA SettingsStep == SettingsInv /\ [ConfigNext]_configVars => SettingsInv'
<1> SUFFICES ASSUME SettingsInv, [ConfigNext]_configVars PROVE SettingsInv'
  OBVIOUS
<1>C. /\ Current.profiles = [q \in DOMAIN disk.profiles |->
                               ParsedSection(disk.profiles[q], fills)]
      /\ Current = [default_profile |-> Current.default_profile,
                    profiles |-> Current.profiles]
  BY DEF SettingsInv, Current, Parsed
<1>1. ASSUME NEW k, NEW v, Set(k, v) PROVE SettingsInv'
  BY <1>1, SetStep
<1>2. ASSUME NEW p, SetDefault(p) PROVE SettingsInv'
  <2>1. disk' = [Current EXCEPT !.default_profile = p] /\ UNCHANGED asserted
    BY <1>2 DEF SetDefault, Save
  <2>2. /\ disk'.profiles = Current.profiles
        /\ disk' = [default_profile |-> p, profiles |-> Current.profiles]
    BY <1>C, <2>1
  <2>3. \A q \in Profiles : Section(disk', q) = Section(Current, q)
    BY <2>2 DEF Section
  <2> QED
    BY <2>1, <2>2, <2>3, Written
<1>3. ASSUME NEW p, SwitchProfile(p) PROVE SettingsInv'
  <2>1. /\ disk' = [default_profile |-> p,
                    profiles |-> deepMerge([q \in {p} |-> NoConfig], Current.profiles)]
        /\ UNCHANGED asserted
    BY <1>3 DEF SwitchProfile
  <2>2. /\ disk'.profiles = deepMerge([q \in {p} |-> NoConfig], Current.profiles)
        /\ disk' = [default_profile |-> p, profiles |-> disk'.profiles]
    BY <2>1
  <2>3. ASSUME NEW q \in Profiles PROVE Section(disk', q) = Section(Current, q)
    BY <2>2 DEF deepMerge, Section
  <2> QED
    BY <2>1, <2>2, <2>3, Written
<1>4. ASSUME UNCHANGED <<disk, asserted>> PROVE SettingsInv'
  BY <1>4 DEF SettingsInv
<1> QED
  BY <1>1, <1>2, <1>3, <1>4 DEF ConfigNext, Start, SetRefused, Exit, configVars

\* What `config set` has written under a profile is what any later process reads
\* there, in any environment that names no variable of its table, whatever has been
\* set or switched in between; what was not set comes from the default profile or
\* is built in.
THEOREM SetValuesAreRead == ConfigSpec => []SetIsRead
<1>1. SettingsInv => SetIsRead
  <2> SUFFICES ASSUME SettingsInv, NEW p \in Profiles, NEW k \in Settable,
                      NEW env \in Environments, k \notin envKeys(env)
               PROVE  LET got == ValueOf(Read(Parsed(disk, fills), p, env, NoConfig), k)
                      IN IF k \in DOMAIN asserted[p] THEN got = asserted[p][k]
                         ELSE got \in {"built-in", ValueOf(asserted["default"], k)}
    BY DEF SetIsRead
  <2> DEFINE f == Parsed(disk, fills)
             flat == flattenedFileConfig(f, p)
  <2>1. Kept(Section(f, p), asserted[p]) /\ Kept(Section(f, "default"), asserted["default"])
    BY ReadingKeeps, ProfilesAssumption
  <2>2. \A j \in DOMAIN DEFAULT_CONFIG : DEFAULT_CONFIG[j] = "built-in"
    BY DEF DEFAULT_CONFIG
  <2> HIDE DEF f
  <2>3. ValueOf(Read(f, p, env, NoConfig), k) = ValueOf(flat, k)
    <3>1. DOMAIN envOverrides(env) = envKeys(env) /\ DOMAIN NoConfig = {}
      BY DEF envOverrides, NoConfig
    <3> HIDE DEF flat
    <3>2. k \in DOMAIN flat =>
            /\ k \in DOMAIN Read(f, p, env, NoConfig)
            /\ Read(f, p, env, NoConfig)[k] = flat[k]
      BY <3>1 DEF deepMerge, Read, resolveConfig, flat
    <3>3. k \notin DOMAIN flat /\ k \in DOMAIN Read(f, p, env, NoConfig) =>
            Read(f, p, env, NoConfig)[k] = "built-in"
      BY <2>2, <3>1 DEF deepMerge, Read, resolveConfig, flat
    <3> QED
      BY <3>2, <3>3 DEF ValueOf
  <2> DEFINE Right == IF k \in DOMAIN asserted[p] THEN ValueOf(flat, k) = asserted[p][k]
                      ELSE ValueOf(flat, k) \in {"built-in", ValueOf(asserted["default"], k)}
  <2>4. ASSUME p = "default" PROVE Right
    BY <2>1, <2>3, <2>4 DEF flattenedFileConfig, Kept, ValueOf
  <2>5. ASSUME p # "default" PROVE Right
    <3> DEFINE base == deepMerge(DEFAULT_CONFIG, Section(f, "default"))
    <3>1. flat = deepMerge(base, Section(f, p))
      BY <2>5 DEF flattenedFileConfig
    <3>2. ValueOf(base, k) \in {"built-in", ValueOf(asserted["default"], k)}
      BY <2>1, <2>2 DEF deepMerge, Kept, ValueOf
    <3> HIDE DEF base, flat
    <3>3. ValueOf(flat, k) = IF k \in DOMAIN Section(f, p) THEN Section(f, p)[k]
                             ELSE ValueOf(base, k)
      BY <3>1 DEF deepMerge, ValueOf
    <3> QED
      BY <2>1, <2>3, <3>2, <3>3 DEF Kept, ValueOf
  <2> QED
    BY <2>3, <2>4, <2>5 DEF f
<1> QED
  BY <1>1, InitSettings, SettingsStep, PTL DEF ConfigSpec
===============================================================================
