---- MODULE MCSelfTest ----
EXTENDS SelfTest
MCPulses == <<1500, 1550>>
MCSteps == <<1500>>
MCMixed == [c \in Channels |-> 1500 + 50 * c]
====
