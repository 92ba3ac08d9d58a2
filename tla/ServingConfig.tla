--------------------------- MODULE ServingConfig ----------------------------
(***************************************************************************)
(* With which settings vLLM is started: VllmConfig (serving/server.py), the   *)
(* start script server.sh, the run_config.json a collection leaves behind     *)
(* (utils/config.py), and what a replay takes from it (trace_loader.py).      *)
(* A source of settings is a function from keys to values; Unset is a key it   *)
(* does not have.                                                          *)
(***************************************************************************)
EXTENDS Integers

CONSTANTS
    ConfigKeys,     \* the keys of VllmConfig
    Values,
    Unset

ASSUME ConfigConstants == Unset \notin Values

Source == [ConfigKeys -> Values \cup {Unset}]

\* What the parts that ask later do not say is left as it was.
Over(later, former) == [k \in DOMAIN former |-> IF later[k] = Unset THEN former[k] ELSE later[k]]

\* VllmConfig.resolve: _SERVER_DEFAULTS, .env, os.environ, the arguments.  A
\* definition X_... before X is a bug X does not have, put in the place of X by a
\* mutant of PROJECT.json.
Resolve_EnvironLast(defaults, dotenv, environ, overrides) ==
    Over(environ, Over(overrides, Over(dotenv, defaults)))
Resolve(defaults, dotenv, environ, overrides) ==
    Over(overrides, Over(environ, Over(dotenv, defaults)))

\* VllmServer gives server.sh os.environ, and over it env_vars of the resolved
\* settings; for what is set there the script does not look at .env.
Started(dotenv, environ, config) == Over(config, Over(environ, dotenv))

\* save_config: run_config.json with serving_config and the arguments, written
\* unless it is there.
NoConfig == [k \in {} |-> Unset]
SaveConfig(run_config, config, arguments) ==
    IF run_config # NoConfig THEN run_config
    ELSE [serving_config |-> config, args |-> arguments]

\* build_server_config_from_capture: serving_config, and args for what it lacks.
CapturedOverrides(run_config) == Over(run_config.serving_config, run_config.args)
=============================================================================
