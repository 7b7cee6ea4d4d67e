------------------------------ MODULE Settings ------------------------------
(***************************************************************************)
(* The portal's configuration (internal/config, cmd/vire-portal/main.go):  *)
(* defaults, then every TOML file in order, then the environment, then the *)
(* command line, then validation.  The settings that decide how the portal *)
(* starts are followed; the others are read in the same way.               *)
(*                                                                         *)
(* A source is a function from the settings it names to their values.  A   *)
(* text is empty (""), "blank" or one of a few values.                     *)
(***************************************************************************)
EXTENDS Integers, Sequences

CONSTANTS Bad,         \* a file that cannot be read or parsed
          NotANumber   \* a text for the port that strconv.Atoi refuses

\* NewDefaultConfig.
DefaultConfig ==
  [environment |-> "prod", port |-> 8080, apiURL |-> "url", jwtSecret |-> "", serviceKey |-> ""]

Setting == DOMAIN DefaultConfig

\* What a source does to a configuration: it sets what it names.
Override(cfg, source) ==
  [s \in Setting |-> IF s \in DOMAIN source THEN source[s] ELSE cfg[s]]

\* applyEnvOverrides: an empty variable, and a port that is not a number, are as if
\* they were not set.
EnvSource(env) ==
  [s \in {t \in DOMAIN env : env[t] # IF t = "port" THEN NotANumber ELSE ""} |-> env[s]]

\* normalizeEnvironment, which keeps other values as they are.
normalizeEnvironment(env) ==
  IF env = "development" THEN "dev" ELSE IF env = "production" THEN "prod" ELSE env

\* The loop over the files, each of which overrides what came before it.
Merge(base, files) ==
  LET cfg[i \in 0..Len(files)] ==
        IF i = 0 THEN base ELSE Override(cfg[i - 1], files[i])
  IN  cfg[Len(files)]

\* LoadFromFiles as it would be with the environment before the files.
LoadEnvFirst(files, env) ==
  LET cfg == Merge(Override(DefaultConfig, EnvSource(env)), files)
  IN  [cfg EXCEPT !.environment = normalizeEnvironment(@)]

\* LoadFromFiles, of files none of which is bad.
LoadFromFiles(files, env) ==
  LET cfg == Override(Merge(DefaultConfig, files), EnvSource(env))
  IN  [cfg EXCEPT !.environment = normalizeEnvironment(@)]

\* ApplyFlagOverrides, with main's merge of -p and -port: -p wins when it is not
\* zero, and a port that is not positive is no port.
ApplyFlagOverrides(cfg, flags) ==
  LET port == IF flags.p # 0 THEN flags.p ELSE flags.port
  IN  IF port > 0 THEN [cfg EXCEPT !.port = port] ELSE cfg

\* IsDevMode compares case-insensitively; "DEV" is such a spelling.
IsDevMode(cfg) == cfg.environment \in {"dev", "DEV"}

\* Validate finds no issue.
Valid(cfg) ==
  /\ cfg.apiURL \notin {"", "blank"}
  /\ IsDevMode(cfg) \/ cfg.jwtSecret \notin {"", "blank"}
  /\ cfg.port \in 1..65535

\* main, up to the logger: {} when it exits, else the configuration.
Configure(files, env, flags) ==
  IF \E i \in DOMAIN files : files[i] = Bad THEN {}
  ELSE LET cfg == ApplyFlagOverrides(LoadFromFiles(files, env), flags)
       IN  IF Valid(cfg) THEN {cfg} ELSE {}
-----------------------------------------------------------------------------
\* The reference: the value of a setting is that of the strongest source that
\* names it, the command line before the environment, the environment before the
\* files, a later file before an earlier one, and the default last.
Strongest(files, env, flags, s) ==
  LET flag == IF flags.p # 0 THEN flags.p ELSE flags.port
      naming == {i \in DOMAIN files : s \in DOMAIN files[i]}
      value == IF s = "port" /\ flag > 0 THEN flag
               ELSE IF s \in DOMAIN EnvSource(env) THEN env[s]
               ELSE IF naming # {} THEN files[CHOOSE i \in naming : \A j \in naming : j <= i][s]
               ELSE DefaultConfig[s]
  IN  IF s = "environment" THEN normalizeEnvironment(value) ELSE value
=============================================================================
