--------------------------- MODULE Configuration ---------------------------
(***************************************************************************)
(* What init() makes of its argument and of the environment: the snapshot  *)
(* of the argument (application/config/ConfigSnapshot.ts), the variables   *)
(* read from the environment and the merge of the two (utils.ts), the      *)
(* validation and the defaults (application/services/ConfigService.ts).    *)
(*                                                                         *)
(* A configuration is a function from the options that are present to      *)
(* their values; the sections of the code are flattened, as they are       *)
(* merged key by key.  An option that is present with the value Undefined  *)
(* still hides the one it is merged over.  env maps the variables that are *)
(* set to their text; what parseInt() makes of a number, NaN if it is none.  *)
(***************************************************************************)
EXTENDS Integers, Sequences, FiniteSets

CONSTANTS Undefined, NaN, Infinity

\* { ...below, ...above }
Over(above, below) ==
  [key \in DOMAIN above \union DOMAIN below |->
     IF key \in DOMAIN above THEN above[key] ELSE below[key]]

Truthy(c, key) == key \in DOMAIN c /\ c[key] \notin {Undefined, ""}
Get(c, key, default) ==
  IF key \in DOMAIN c /\ c[key] # Undefined THEN c[key] ELSE default

(***************************************************************************)
(* The numeric options: the range the environment parser takes (empty when *)
(* there is no variable), what validate() checks, and the default: that a  *)
(* number is finite and in a range, that it is not below a floor, which    *)
(* NaN and Infinity are not, or nothing at all.                            *)
(* Numbers are whole: where the code takes fractions (maxMemoryMB and      *)
(* maxFileSizeMB, from 0.001), the smallest whole one it takes is 1.       *)
(***************************************************************************)
Option(envMin, envMax, min, max, default) ==
  [envMin |-> envMin, envMax |-> envMax, min |-> min, max |-> max,
   default |-> default, check |-> "range"]
Floor(envMin, envMax, min, default) ==
  [Option(envMin, envMax, min, 0, default) EXCEPT !.check = "floor"]
Unchecked(envMin, envMax, default) ==
  [Option(envMin, envMax, 0, 0, default) EXCEPT !.check = "none"]

Options == [
  timeout               |-> Option(0, 600000, 1, 60000, 5000),
  sendTimeoutMillis     |-> Option(1, 0, 1, 60000, 30000),
  maxRetries            |-> Option(0, 20, 0, 5, 1),
  retryDelay            |-> Option(0, 120000, 0, 10000, 1000),
  maxWorkers            |-> Option(1, 64, 1, 16, Undefined),
  maxSockets            |-> Option(1, 1024, 1, 128, 10),
  workerTimeout         |-> Option(1000, 300000, 1, 60000, 30000),
  performanceMaxWorkers       |-> Option(1, 64, 1, 16, Undefined),
  performanceWorkerTimeout    |-> Option(1000, 300000, 1, 60000, 30000),
  performanceCompressionLevel |-> Unchecked(0, 11, 6),
  maxSize               |-> Option(1, 1000000, 1, 10000, 100),
  flushInterval         |-> Option(1, 300000, 1, 3600000, 5000),
  maxMemoryMB           |-> Option(1, 32768, 1, 4096, 32),
  maxAge                |-> Option(100, 86400000, 1, 3600000, 30000),
  maxMessageLength      |-> Option(64, 1000000, 1, 1048576, 8192),
  maxContextBytes       |-> Option(256, 1048576, 1, 1048576, 16384),
  maxConcurrentFlushes  |-> Option(1, 256, 1, 32, 2),
  maxPendingBatches     |-> Option(1, 1024, 1, 64, 2),
  shutdownTimeoutMillis |-> Option(1, 0, 1, 60000, 10000),
  dlqMaxFileSizeMB      |-> Option(1, 0, 1, 100, Undefined),
  dlqMaxSize            |-> Option(1, 1000000, 1, 10000, Undefined),
  failureThreshold      |-> Floor(1, 100000, 1, 50),
  resetTimeout          |-> Floor(1000, 3600000, 1, 30000),
  halfOpenRequests      |-> Floor(1, 100, 1, 3),
  compressionLevel      |-> Floor(0, 11, 0, 6)]

(* Options of the transport that the section "performance" has as well: of *)
(* those two, the variable of the environment is the same.                 *)
Twins == [maxWorkers       |-> "performanceMaxWorkers",
          workerTimeout    |-> "performanceWorkerTimeout",
          compressionLevel |-> "performanceCompressionLevel"]
Twin(o) == IF o \in DOMAIN Twins THEN Twins[o] ELSE o
Variable(o) == CASE o = "performanceMaxWorkers" -> "maxWorkers"
                 [] o = "performanceWorkerTimeout" -> "workerTimeout"
                 [] o = "performanceCompressionLevel" -> "compressionLevel"
                 [] OTHER -> o

\* What the parser falls back on where that is not the default above.
EnvDefault(o) == CASE Variable(o) = "maxWorkers" -> 2
                   [] o = "dlqMaxSize" -> 1000
                   [] OTHER -> Options[o].default

(***************************************************************************)
(* The environment.                                                        *)
(***************************************************************************)
ParseBool(env, name, default) ==
  CASE Get(env, name, "") \in {"true", "1", "yes", "on"} -> TRUE
    [] Get(env, name, "") \in {"false", "0", "no", "off"} -> FALSE
    [] OTHER -> default

ParseIntRange(env, o) ==
  LET text == Get(env, Variable(o), NaN)
  IN IF text \in Options[o].envMin .. Options[o].envMax THEN text
     ELSE EnvDefault(o)

TransportType(env) ==
  LET configured == Get(env, "LOGS_TRANSPORT", "")
  IN IF configured \in {"otlp", "loki"} THEN configured
     ELSE IF Get(env, "OTEL_LOGS_EXPORTER", "") = "otlp" /\ ~Truthy(env, "LOGS_URL")
          THEN "otlp" ELSE "loki"

TransportUrl(env) ==
  IF TransportType(env) = "otlp"
  THEN Get(env, "LOGS_URL", Get(env, "OTEL_LOGS_ENDPOINT", Get(env, "OTEL_ENDPOINT", "")))
  ELSE Get(env, "LOGS_URL", "")

\* The numeric options that a variable is read for.
FromEnv(env) ==
  [o \in {o \in DOMAIN Options : Options[o].envMin <= Options[o].envMax}
     |-> ParseIntRange(env, o)]

OtherFromEnv(env) ==
  [type |-> TransportType(env), url |-> TransportUrl(env),
   logsUrl |-> IF TransportType(env) = "otlp" /\ ~Truthy(env, "LOGS_URL")
               THEN Get(env, "OTEL_LOGS_ENDPOINT", Undefined) ELSE Undefined,
   tenantId |-> Get(env, "LOGS_TENANT", ""),
   appName |-> Get(env, "LOGS_APP_NAME", ""),
   levels |-> IF Truthy(env, "LOGS_FILTER_LEVELS") THEN env["LOGS_FILTER_LEVELS"] ELSE "all",
   sanitize |-> ParseBool(env, "LOGS_FILTER_SANITIZE", TRUE),
   dlqEnabled |-> ParseBool(env, "LOGS_DLQ_ENABLED", TRUE),
   dlqType |-> IF Get(env, "LOGS_DLQ_TYPE", "") = "file" THEN "file" ELSE "memory",
   compression |-> IF Get(env, "LOGS_COMPRESSION", "") \in {"none", "gzip", "brotli", "snappy"}
                   THEN env["LOGS_COMPRESSION"] ELSE "gzip",
   interceptConsole |-> ParseBool(env, "LOGS_INTERCEPT_CONSOLE", FALSE),
   preserveOriginalConsole |-> ParseBool(env, "LOGS_PRESERVE_ORIGINAL_CONSOLE", TRUE)]

LoadConfigFromEnv(env) ==
  LET config == OtherFromEnv(env)
  IN IF ~ParseBool(env, "LOGS_ENABLED", TRUE) THEN [levels |-> "none"]
     ELSE IF config.url = "" /\ config.tenantId = "" /\ config.appName = "" THEN << >>
     ELSE Over(FromEnv(env), config)

(* autoInitIfEnabled() calls init() only when this holds. *)
AutoInitReady(env) ==
  LET config == LoadConfigFromEnv(env)
  IN /\ ParseBool(env, "LOGS_AUTO_INIT", FALSE)
     /\ Truthy(config, "url") /\ Truthy(config, "appName")
     /\ (Get(config, "type", "loki") = "loki" => Truthy(config, "tenantId"))

(* mergeConfigs(): a url of the caller also hides the logsUrl of the        *)
(* environment.                                                            *)
MergeConfigs(user, env) ==
  LET merged == Over(user, env)
  IN IF Truthy(user, "url") /\ Get(user, "logsUrl", Undefined) = Undefined
     THEN Over([logsUrl |-> Undefined], merged) ELSE merged

(***************************************************************************)
(* ConfigService.                                                          *)
(***************************************************************************)
(* A mistake: it compares only, which NaN and Infinity survive. *)
RejectsOutside(option, value) ==
  /\ value \in Int
  /\ \/ option.check \in {"range", "floor"} /\ value < option.min
     \/ option.check = "range" /\ value > option.max

Rejects(option, value) ==
  /\ value # Undefined
  /\ \/ option.check \in {"range", "floor"} /\ value \in Int /\ value < option.min
     \/ option.check = "range" /\ (value \notin Int \/ value > option.max)

(* validate(): the options and conditions it complains about. *)
Validate(config) ==
  {o \in DOMAIN Options : Rejects(Options[o], Get(config, o, Undefined))}
  \union {key \in {"url", "appName"} : ~Truthy(config, key)}
  \union {key \in {"type"} : Get(config, key, "loki") \notin {"loki", "otlp"}}
  \union {key \in {"tenantId"} :
            Get(config, "type", "loki") = "loki" /\ ~Truthy(config, key)}
  \union {key \in {"url", "logsUrl"} :
            Truthy(config, key) /\ config[key] \in {"malformed", "with credentials"}}
  \union {key \in {"patterns", "sensitivePatterns"} :
            /\ Get(config, key, "supported") # "supported"
            /\ (key = "patterns" \/ Get(config, "sanitize", TRUE))}

\* transport ?? performance ?? default
ResolvedOptions(config) ==
  [o \in DOMAIN Options |-> Get(config, o, Get(config, Twin(o), Options[o].default))]

Resolve(config) ==
  Over(ResolvedOptions(config),
       [url |-> Get(config, "url", ""), logsUrl |-> Get(config, "logsUrl", ""),
        tenantId |-> Get(config, "tenantId", ""),
        type |-> Get(config, "type", "loki"), appName |-> config["appName"],
        levels |-> Get(config, "levels", "all"),
        sanitize |-> Get(config, "sanitize", TRUE),
        dlqEnabled |-> Get(config, "dlqEnabled", "dlqType" \in DOMAIN config),
        dlqType |-> Get(config, "dlqType", "memory"),
        compression |-> Get(config, "compression", "gzip"),
        interceptConsole |-> Get(config, "interceptConsole", FALSE),
        preserveOriginalConsole |-> Get(config, "preserveOriginalConsole", TRUE)])

(* configSnapshot() refuses accessors, functions other than label          *)
(* providers, cycles and whatever exceeds its budget; shape says which of  *)
(* them the caller's object has.                                           *)
Snapshot(user) == Get(user, "shape", "plain") = "plain"

Accepted(user, env) ==
  Snapshot(user) /\ Validate(MergeConfigs(user, LoadConfigFromEnv(env))) = {}
Resolved(user, env) == Resolve(MergeConfigs(user, LoadConfigFromEnv(env)))

(* The configuration a Node-RED node passes to init(). *)
NodeConfig(node, env) ==
  LET or(key, name, default) ==
        IF Truthy(node, key) THEN node[key]
        ELSE IF Truthy(env, name) THEN env[name] ELSE default
  IN [url |-> or("url", "LOGS_URL", Undefined),
      tenantId |-> or("tenantId", "LOGS_TENANT", Undefined),
      appName |-> or("appName", "LOGS_APP_NAME", "node-red"),
      interceptConsole |-> Get(node, "interceptConsole", FALSE)]
=============================================================================
