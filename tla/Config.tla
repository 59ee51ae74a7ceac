-------------------------------- MODULE Config --------------------------------
(***************************************************************************)
(* Where a setting comes from: packages/config merges the built-in         *)
(* defaults, a profile of config.toml, the environment and the flags, and  *)
(* `config set` writes a profile back.  One process runs at a time here;   *)
(* LockedFile has the overlapping updates.                                 *)
(*                                                                         *)
(* A key is a pair of a table and a leaf; a top-level key has the table    *)
(* "".  A configuration is a function from some keys to where the value    *)
(* comes from: "built-in", "env", "flag", or a value a user has set.       *)
(***************************************************************************)
EXTENDS Naturals

CONSTANTS
  Profiles,      \* names of profiles; "default" is one
  Settable,      \* keys that `config set` is tried with
  Values,        \* values that may be set, none of them an origin's name
  Environments   \* environments a process may run in: variable -> raw value

ASSUME ProfilesAssumption == "default" \in Profiles

\* A value the schema of the file refuses.
Invalid == "invalid"

TopLevel(leaves) == {""} \X leaves
DEFAULT_CONFIG ==
  [ k \in TopLevel({"network", "profile", "noInput", "noColor", "noUpdateNotifier"})
          \cup {"rpc"} \X {"timeoutMs"}
          \cup {"provider"} \X {"active"}
          \cup {"cache"} \X {"enabled", "ttlSecondsDefault"}
          \cup {"log"} \X {"level", "fileMaxSizeMb", "fileMaxFiles"}
      |-> "built-in" ]

\* The keys that have an environment variable of their own.
ENV_VAR_NAMES ==
  TopLevel({"network", "profile", "noInput", "noColor", "noUpdateNotifier"})
  \cup {"rpc"} \X {"primary", "fallback", "timeoutMs"}
  \cup {"provider"} \X {"active"}
  \cup {"cache"} \X {"enabled", "ttlSecondsDefault"}
  \cup {"log"} \X {"level"}

NoConfig == [k \in {} |-> "built-in"]

\* deepMerge of two sources: nested tables merge leaf by leaf.
deepMerge(lower, higher) ==
  [k \in DOMAIN lower \cup DOMAIN higher |->
     IF k \in DOMAIN higher THEN higher[k] ELSE lower[k]]

\* One variable of a table fills the other leaves that have a default, and an
\* unknown log level drops everything that is read after it.
envKeys(env) ==
  LET named == ENV_VAR_NAMES \cap DOMAIN env
      touched == {k[1] : k \in named} \ {""}
      level == <<"log", "level">>
      cut == level \in named /\ env[level] = Invalid
  IN (named \cup {k \in DOMAIN DEFAULT_CONFIG : k[1] \in touched})
     \ IF cut THEN {"log"} \X {"level", "fileMaxSizeMb", "fileMaxFiles"}
                   \cup TopLevel({"noInput", "noColor", "noUpdateNotifier"})
              ELSE {}

envOverrides(env) ==
  [k \in envKeys(env) |->
     IF k \in DOMAIN env /\ env[k] # Invalid THEN "env" ELSE "built-in"]

\* The overlay of the flags always names noInput and noColor, false when absent.
cliOverlay(flags) ==
  [k \in flags \cup TopLevel({"noInput", "noColor"}) |->
     IF k \in flags THEN "flag" ELSE "built-in"]

resolveConfig(fileConfig, env, flags) ==
  deepMerge(deepMerge(deepMerge(DEFAULT_CONFIG, fileConfig), env), flags)

-----------------------------------------------------------------------------
(* The file: the default profile's name and a section for some profiles. *)

\* An absent file reads as an empty one, which an update creates first.
Empty == [default_profile |-> "default", profiles |-> << >>]

\* Parsing with the schema fills the defaults of a table that is present, and of
\* the whole section when the schema library does so within optional fields.
ParsedSection(s, whole) ==
  LET tables == {k[1] : k \in DOMAIN s} \ {""}
  IN deepMerge([k \in {d \in DOMAIN DEFAULT_CONFIG : whole \/ d[1] \in tables}
                  |-> "built-in"], s)
Parsed(f, whole) ==
  [f EXCEPT !.profiles = [p \in DOMAIN f.profiles |->
                            ParsedSection(f.profiles[p], whole)]]

\* Any value the schema refuses, in any section, makes the whole file unreadable.
Loads(f) == \A p \in DOMAIN f.profiles :
              \A k \in DOMAIN f.profiles[p] : f.profiles[p][k] # Invalid

Section(f, p) == IF p \in DOMAIN f.profiles THEN f.profiles[p] ELSE NoConfig

\* FileConfigManager.flattenedFileConfig
flattenedFileConfig(f, p) ==
  IF p = "default" THEN Section(f, "default")
  ELSE deepMerge(deepMerge(DEFAULT_CONFIG, Section(f, "default")), Section(f, p))

\* FileConfigManager.read and resolve under a profile.
Read(f, p, env, flags) ==
  resolveConfig(flattenedFileConfig(f, p), envOverrides(env), flags)

\* Mutant: the table is replaced by one that holds the new leaf only.
WriteTable(s, k, v) ==
  deepMerge([j \in {i \in DOMAIN s : i[1] # k[1]} |-> s[j]], [j \in {k} |-> v])

writeDottedPath(s, k, v) == deepMerge(s, [j \in {k} |-> v])

-----------------------------------------------------------------------------
VARIABLES
  disk,      \* config.toml as it was last written
  fills,     \* whether parsing fills whole sections with defaults
  process,   \* the running command: its profile, environment, and cached file
  asserted   \* history: what was last set under each profile

configVars == <<disk, fills, process, asserted>>

NoProcess == [state |-> "none", profile |-> "default", env |-> << >>,
              cached |-> Empty]

ConfigInit ==
  /\ disk = Empty
  /\ fills \in BOOLEAN
  /\ process = NoProcess
  /\ asserted = [p \in Profiles |-> NoConfig]

\* createConfigManager and init: the environment's profile, or the file's.
Start(env) ==
  /\ process.state # "running"
  /\ process' =
       IF Loads(disk)
       THEN LET f == Parsed(disk, fills)
            IN [state |-> "running", env |-> env, cached |-> f,
                profile |-> IF <<"", "profile">> \in DOMAIN env
                            THEN env[<<"", "profile">>] ELSE f.default_profile]
       ELSE [NoProcess EXCEPT !.state = "CONFIG", !.env = env]
  /\ UNCHANGED <<disk, fills, asserted>>

\* What an update starts from: the file as it is now.
Current == Parsed(disk, fills)

Save(next) ==
  /\ disk' = next
  /\ process' = [process EXCEPT !.cached = next]

\* `config set`: what is written is not checked against the schema.
Set(k, v) ==
  /\ process.state = "running"
  /\ Loads(disk)
  /\ LET p == process.profile
     IN /\ Save([Current EXCEPT !.profiles =
                   deepMerge(Current.profiles,
                             [q \in {p} |-> writeDottedPath(Section(Current, p), k, v)])])
        /\ asserted' = [asserted EXCEPT ![p] = deepMerge(@, [j \in {k} |-> v])]
  /\ UNCHANGED fills

\* `config set default_profile`
SetDefault(p) ==
  /\ process.state = "running"
  /\ Loads(disk)
  /\ Save([Current EXCEPT !.default_profile = p])
  /\ UNCHANGED <<fills, asserted>>

\* switchProfile makes a profile the file's default, and this process's own.
SwitchProfile(p) ==
  /\ process.state = "running"
  /\ Loads(disk)
  /\ LET next == [default_profile |-> p,
                 profiles |-> deepMerge([q \in {p} |-> NoConfig], Current.profiles)]
     IN /\ disk' = next
        /\ process' = [process EXCEPT !.cached = next, !.profile = p]
  /\ UNCHANGED <<fills, asserted>>

\* An update that cannot read the file ends the command.
SetRefused ==
  /\ process.state = "running"
  /\ ~Loads(disk)
  /\ process' = [NoProcess EXCEPT !.state = "CONFIG"]
  /\ UNCHANGED <<disk, fills, asserted>>

Exit ==
  /\ process.state = "running"
  /\ process' = NoProcess
  /\ UNCHANGED <<disk, fills, asserted>>

ConfigNext ==
  \/ \E env \in Environments : Start(env)
  \/ \E k \in Settable, v \in Values \cup {Invalid} : Set(k, v)
  \/ \E p \in Profiles : SetDefault(p)
  \/ \E p \in Profiles : SwitchProfile(p)
  \/ SetRefused
  \/ Exit

ConfigSpec == ConfigInit /\ [][ConfigNext]_configVars

-----------------------------------------------------------------------------
ValueOf(c, k) == IF k \in DOMAIN c THEN c[k] ELSE "built-in"

\* What was set under a profile is what a later process reads under it, whatever
\* was set elsewhere since, unless the environment names a variable of the same
\* table; what was not set there is the default profile's or the built-in value,
\* never another profile's (manager.ts, precedence.ts, loader.ts together).
SetIsRead ==
  Loads(disk) =>
    \A p \in Profiles, k \in Settable, env \in Environments :
      LET got == ValueOf(Read(Parsed(disk, fills), p, env, NoConfig), k)
      IN k \notin envKeys(env) =>
           IF k \in DOMAIN asserted[p]
           THEN got = asserted[p][k]
           ELSE got \in {"built-in", ValueOf(asserted["default"], k)}

\* A comment of context.ts (402-404) says that commands whose purpose is to fix
\* the configuration keep working when a provider is misconfigured: no process
\* ends with a configuration error because of what `config set` accepted.
StaysRepairable == process.state # "CONFIG"

\* The documentation's order: a flag, then the environment, then the file, then
\* the built-in value, for every key by itself (apps/cli/README.md:109).
PrecedenceKept ==
  process.state = "running" =>
    LET p == process.profile
        got == Read(process.cached, p, process.env, cliOverlay({}))
        section == flattenedFileConfig(process.cached, p)
    IN \A k \in ENV_VAR_NAMES :
         ValueOf(got, k) = IF k \in DOMAIN process.env /\ process.env[k] # Invalid
                           THEN "env" ELSE ValueOf(section, k)
=============================================================================
