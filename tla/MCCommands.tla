------------------------------ MODULE MCCommands ------------------------------
(***************************************************************************)
(* The commands over their providers, and the configuration, each checked  *)
(* on its own: "part" says which one a behaviour is about.                 *)
(***************************************************************************)
EXTENDS Transfer, Config, TLC

CONSTANT Parts

VARIABLE part

NoVariables == << >>
FallbackOnly == <<"rpc", "fallback">> :> "url"
TeamProfile == <<"", "profile">> :> "team"
BadLevel == <<"log", "level">> :> "invalid" @@ <<"", "noInput">> :> "1"

AllEnvironments == {NoVariables, FallbackOnly, TeamProfile, BadLevel}

\* The rest of the state while a part is not the one checked.
Resting ==
  /\ settings = [active |-> "none", fallback |-> << >>,
                 section |-> [v \in {"helius", "triton"} |-> NoSection]]
  /\ request = CHOOSE r \in Reads : TRUE
  /\ pc = "left" /\ pending = << >> /\ registered = << >> /\ failures = {}
  /\ candidates = << >> /\ asked = << >> /\ error = "none" /\ abort = "none" /\ heard = 0
  /\ reported = "none" /\ exit = 0
  /\ simulation = NoSimulation /\ sent = NotSent

Vars == <<part, allVars, configVars>>

MCInit ==
  /\ part \in Parts
  /\ IF part = "commands" THEN CommandInit ELSE Resting
  /\ ConfigInit /\ (part = "commands" => ~fills)

MCNext ==
  \/ /\ part = "commands" /\ CommandNext
     /\ UNCHANGED <<part, configVars>>
  \/ /\ part = "config" /\ ConfigNext
     /\ UNCHANGED <<part, allVars>>

MCSpec == MCInit /\ [][MCNext]_Vars

-----------------------------------------------------------------------------
OwnSection(k, b, e) == [apiKey |-> k, bearer |-> b, endpoint |-> e]
HeliusSections == {NoSection, OwnSection("value", "none", "none"),
                   OwnSection("missing", "none", "http"), OwnSection("empty", "none", "none"),
                   OwnSection("none", "refused", "http"), OwnSection("value", "none", "other"),
                   OwnSection("none", "none", "http")}
TritonSections == {NoSection, OwnSection("none", "value", "http"),
                   OwnSection("value", "none", "none")}
AllSettings ==
  { [active |-> a, fallback |-> f, section |-> [helius |-> h, triton |-> t]] :
      a \in {"rpc-only", "helius", "triton"},
      f \in {<< >>, <<"triton">>, <<"helius", "unknown", "triton">>},
      h \in HeliusSections, t \in TritonSections }

Reading(p, w, n, v) == [port |-> p, walks |-> w, pinned |-> n, valid |-> v]
AllReads ==
  {Reading("getBalance", TRUE, n, v) : n \in {"none", "helius", "other"}, v \in BOOLEAN}
  \cup {Reading("getPortfolio", TRUE, "none", TRUE), Reading("getPortfolio", TRUE, "helius", TRUE),
        Reading("getTokenBalances", FALSE, "none", TRUE),
        Reading("getAccountInfo", FALSE, "none", TRUE)}

Ceiling(s, n) == [state |-> s, lamports |-> n]
Paying(c, x, k, n, m, p, mp, mo) ==
  [command |-> c, execute |-> x, key |-> k, ceiling |-> n, malformed |-> m,
   payer |-> p, mintProgram |-> mp, mintOwner |-> mo]
Ceilings == {Ceiling("none", 0), Ceiling("other", 0), Ceiling("integer", -1),
             Ceiling("integer", 0), Ceiling("integer", 1)}
AllWrites ==
  {Paying("transfer", x, k, n, "none", TRUE, "none", "none") :
     x \in BOOLEAN, k \in {"none", "key"}, n \in Ceilings}
  \cup {Paying("transfer", x, "key", Ceiling("integer", 1), m, p, "none", "none") :
     x \in BOOLEAN, m \in {"none", "input", "plan", "policy"}, p \in BOOLEAN}
  \cup {Paying("token transfer", x, "key", Ceiling("integer", 1), m, TRUE, mp, mo) :
     x \in BOOLEAN, m \in {"none", "policy"}, mp \in {"none", "token", "token-2022"},
     mo \in {"token", "token-2022"}}

OwnKeys == {<<"", "network">>, <<"rpc", "primary">>, <<"rpc", "timeoutMs">>}
ProviderKeys == {<<"provider", "active">>, <<"provider", "endpoint">>}
=============================================================================
