----------------------------- MODULE MCCollector -----------------------------
EXTENDS Collector

MCExact == {2}   \* one prompt with a known answer between two that are judged

=============================================================================
