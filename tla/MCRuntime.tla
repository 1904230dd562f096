----------------------------- MODULE MCRuntime -----------------------------
(***************************************************************************)
(* Requests for init(): those that differ in what the runtime depends on,  *)
(* and those that put every numeric option at its limits, in the           *)
(* environment, in the argument and in both.                               *)
(***************************************************************************)
EXTENDS Runtime, TLC

CONSTANTS otel, spy, TERM

Loki == [url |-> "http://loki", tenantId |-> "t", appName |-> "a"]
Vars == [LOGS_URL |-> "http://loki", LOGS_TENANT |-> "t", LOGS_APP_NAME |-> "a",
         LOGS_DLQ_ENABLED |-> "false"]
NoVars == << >>

MCRequests == {
  [user |-> [interceptConsole |-> TRUE, preserveOriginalConsole |-> FALSE,
             dlqType |-> "file"] @@ Loki, env |-> NoVars],
  \* refused, disabled, automatic
  [user |-> [shape |-> "cyclic"] @@ Loki, env |-> NoVars],
  [user |-> Loki, env |-> [LOGS_ENABLED |-> "false"]],
  [user |-> << >>,
   env |-> [LOGS_AUTO_INIT |-> "true", LOGS_INTERCEPT_CONSOLE |-> "true"] @@ Vars]}

MCPatches == {otel, spy}
MCSignals == {TERM}

-----------------------------------------------------------------------------
(* One option at its limits, and the structural choices beside it. *)
Around(lo, hi) == {lo - 1, lo, hi, hi + 1}
Texts(o) == Around(Options[o].envMin, Options[o].envMax)
            \union {Options[o].max, Options[o].max + 1, NaN}
Given(o) == Around(Options[o].min, Options[o].max) \union {Undefined, NaN, Infinity}

Alone(key, values) == {<< >>} \union {key :> v : v \in values}

\* An option and its twin in the section "performance".
NumericRequests ==
  UNION {[user : {u @@ t @@ Loki : u \in Alone(o, Given(o)), t \in Alone(Twin(o), Given(o))},
          env : {v @@ w : v \in Alone(Variable(o), Texts(o)), w \in {NoVars, Vars}}]
         : o \in DOMAIN Options}

StructuralRequests ==
  [user : {u @@ v @@ w : u \in {<< >>} \union {[url |-> x] : x \in {"", "malformed", "http://u"}},
                         v \in Alone("type", {"loki", "otlp", "other"}),
                         w \in {<< >>, [appName |-> "b"],
                                NodeConfig(<< >>, << >>), [patterns |-> "unsupported"] @@ Loki,
                                [sensitivePatterns |-> "unsupported", sanitize |-> FALSE] @@ Loki}},
   env : {v @@ w : v \in {NoVars, Vars, [LOGS_ENABLED |-> "off"],
                          [LOGS_TRANSPORT |-> "otlp", LOGS_APP_NAME |-> "c"]},
                   w \in {NoVars, [OTEL_LOGS_EXPORTER |-> "otlp", OTEL_LOGS_ENDPOINT |-> "http://otel",
                                   LOGS_AUTO_INIT |-> "yes"]}}]

ConfigurationRequests == NumericRequests \union StructuralRequests
NoPatches == {}
=============================================================================
