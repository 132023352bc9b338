--------------------------- MODULE MCGatewayServer ---------------------------
EXTENDS GatewayServer

\* A file that omits everything, and one with the cache on and the metrics at
\* a path of their own.
Plain ==
    [port |-> 0, threshold |-> 0, windowSize |-> 0, earlyExitCount |-> 0,
     topLogprobs |-> 0, softMult |-> 0, speculative |-> "omitted",
     caching |-> "omitted", similarity |-> 0, ttl |-> 0, dimensions |-> 0,
     metrics |-> FALSE, metricsPath |-> ""]
Full == [Plain EXCEPT !.caching = "yes", !.metrics = TRUE, !.metricsPath = "/metrics"]

\* The values around each bound that applyDefaults and validate know.
Values ==
    [port |-> {-1, 65535, 65536}, threshold |-> {-1, 1}, windowSize |-> {-1, 1},
     earlyExitCount |-> {-1}, topLogprobs |-> {-1, 20, 21}, softMult |-> {-1, 9, 10},
     similarity |-> {-1, 100, 101}, ttl |-> {-1, 1}, dimensions |-> {-1, 1}]

\* The two files with at most one of their fields changed.
MCConfigFiles ==
    {Plain, Full, [Full EXCEPT !.caching = "no"], [Full EXCEPT !.speculative = "no"]}
    \cup UNION {{[base EXCEPT ![f] = v] : base \in {Plain, Full}, v \in Values[f]} :
                   f \in DOMAIN Values}
    \cup {[Full EXCEPT !.metricsPath = p] : p \in MetricsPaths}
    \cup {[Full EXCEPT !.metricsPath = p, !.caching = "no"] : p \in MetricsPaths}

=============================================================================
