------------------------------ MODULE MCLoader ------------------------------
(* Two groups with one servo channel each, the smallest board on which one *)
(* group can be taken without the other.                                   *)
EXTENDS Loader
MCGroupOf == [c \in Channels |-> c]
=============================================================================
