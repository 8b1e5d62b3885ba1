----------------------------- MODULE BoardLease -----------------------------
(***************************************************************************)
(* What a lease of the V1.1 servo pins promises, whoever takes it: one     *)
(* holder at a time, nobody else changes the board, and the board comes    *)
(* back as it was taken. A holder may die, which frees the lease and       *)
(* leaves the board as it is; a step of giving back may fail, which is     *)
(* recorded in excused.                                                    *)
(***************************************************************************)
CONSTANT Procs

VARIABLES
  holders,    \* the programs between taking the lease and giving it back
  abandoned,  \* the last holder died
  board,      \* what is leased
  kept,       \* the board as the last holder found it
  excused     \* something could not be given back, or a stray core wrote it

leaseVars == <<holders, abandoned, board, kept, excused>>

LeaseInit ==
  holders = {} /\ abandoned = FALSE /\ kept = board /\ excused = FALSE

Take(p) ==
  /\ holders = {} /\ holders' = {p}
  /\ kept' = board /\ abandoned' = FALSE /\ UNCHANGED <<board, excused>>

(* The holder changes the board, or fails to.                              *)
Use ==
  /\ holders # {} /\ UNCHANGED <<holders, abandoned, kept>>
  /\ excused => excused'

Return ==
  /\ board = kept \/ excused
  /\ holders # {} /\ holders' = {}
  /\ UNCHANGED <<abandoned, board, kept, excused>>

Die ==
  /\ holders # {} /\ holders' = {} /\ abandoned' = TRUE
  /\ UNCHANGED <<board, kept, excused>>

(* Nobody promises anything for a board that is written from outside.      *)
Disturb == excused' = TRUE /\ UNCHANGED <<holders, abandoned, kept>>

LeaseNext == (\E p \in Procs : Take(p)) \/ Use \/ Return \/ Die \/ Disturb

LeaseSpec == LeaseInit /\ [][LeaseNext]_leaseVars
=============================================================================
