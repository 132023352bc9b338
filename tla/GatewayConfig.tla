----------------------------- MODULE GatewayConfig -----------------------------
(***************************************************************************)
(* internal/config: a configuration file becomes the configuration of the  *)
(* gateway (Load: applyDefaults, then validate).  Go's zero value of a     *)
(* field that the file omits can not be told from one that the file sets.  *)
(*                                                                         *)
(* Thresholds and the multiplier are in tenths, the similarity in          *)
(* hundredths.  Names, URLs and timeouts are left out: after applyDefaults *)
(* no check of validate can refuse them.                                   *)
(***************************************************************************)
EXTENDS Integers

Switch == {"omitted", "yes", "no"}     \* a *bool in the file
NoPath == ""                           \* Go's zero value of a string
MetricsPaths == {NoPath, "/metrics", "/health", "/v1/cache/", "metrics"}

Config ==
    [port : Int, threshold : Int, windowSize : Int, earlyExitCount : Int,
     topLogprobs : Int, softMult : Int, speculative : Switch,
     caching : Switch, similarity : Int, ttl : Int, dimensions : Int,
     metrics : BOOLEAN, metricsPath : MetricsPaths]

CONSTANT ConfigFiles   \* the configuration files an operator may write

ASSUME ConfigAssumption == ConfigFiles \subseteq Config

CacheIsEnabled(cfg) == cfg.caching = "yes"
SpeculativeIsEnabled(cfg) == cfg.speculative # "no"

Default(value, default) == IF value = 0 THEN default ELSE value

applyDefaults(file) ==
    [file EXCEPT
       !.port           = Default(@, 8080),
       !.threshold      = Default(@, 20),
       !.windowSize     = Default(@, 10),
       !.earlyExitCount = Default(@, 10),
       !.topLogprobs    = Default(@, 5),
       !.softMult       = Default(@, 8),
       !.similarity     = Default(@, 95),
       !.ttl            = Default(@, 3600),
       !.dimensions     = Default(@, 1536),
       !.metricsPath    = IF @ = NoPath THEN "/metrics" ELSE @]

\* Mutant of validate: a multiplier of 1 is let through.
validateSoftMultUpToOne(cfg) ==
    /\ cfg.port >= 1 /\ cfg.port <= 65535 /\ cfg.threshold > 0 /\ cfg.windowSize >= 1
    /\ cfg.topLogprobs \in 1 .. 20
    /\ cfg.softMult > 0 /\ cfg.softMult <= 10
    /\ CacheIsEnabled(cfg) =>
          cfg.similarity \in 1 .. 100 /\ cfg.ttl > 0 /\ cfg.dimensions > 0

validate(cfg) ==
    /\ cfg.port >= 1 /\ cfg.port <= 65535
    /\ cfg.threshold > 0
    /\ cfg.windowSize >= 1
    /\ cfg.topLogprobs \in 1 .. 20
    /\ cfg.softMult > 0 /\ cfg.softMult < 10
    /\ CacheIsEnabled(cfg) =>
          cfg.similarity \in 1 .. 100 /\ cfg.ttl > 0 /\ cfg.dimensions > 0

\* The configurations that Load returns for a file: one, or none but an error.
Loads(file) == {cfg \in {applyDefaults(file)} : validate(cfg)}

-----------------------------------------------------------------------------
\* NewServer registers the handlers: a pattern that is taken, or that is no
\* path, panics.
RoutesTaken(cfg) ==
    {"/v1/chat/completions", "/health"} \cup
    IF CacheIsEnabled(cfg) THEN {"/v1/cache/"} ELSE {}

RoutesRegister(cfg) ==
    cfg.metrics => cfg.metricsPath \notin RoutesTaken(cfg) \cup {"metrics"}

=============================================================================
