---- MODULE MCBenchLink ----
EXTENDS BenchLink
MCPulses == <<1500, 1550>>
====
