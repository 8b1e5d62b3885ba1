--------------------------- MODULE MCRtServoBench ---------------------------
EXTENDS RtServoBench
\* Both servos in one PWM group, like PWM7 and PWM6 on the board.
MCGroupOf == [i \in Servos |-> 1]
=============================================================================
