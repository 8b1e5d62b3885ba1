------------------------------- MODULE Mailbox -------------------------------
(***************************************************************************)
(* What a command is to the two sides of the shared page: a call. The      *)
(* client puts in one request at a time and comes back only when it is     *)
(* answered, unless it is interrupted or the server has died; the server   *)
(* carries out what was put in, as it was put in, and once.                *)
(***************************************************************************)
CONSTANT Requests

VARIABLES
  box,      \* the request that is not answered yet, if there is one
  working,  \* the request the server carries out, if it does
  waiting,  \* the client is in a call
  closed,   \* the client has been interrupted
  alive     \* the server runs

mailVars == <<box, working, waiting, closed, alive>>

MailInit ==
  /\ box = {} /\ working = {}
  /\ waiting = FALSE /\ closed = FALSE /\ alive = TRUE

(* Only a dead server gets a request on top of an unanswered one.          *)
Post ==
  /\ ~waiting /\ (alive => box = {})
  /\ waiting' = TRUE /\ UNCHANGED <<working, closed, alive>>
  /\ \E r \in Requests : box' = {r}

Take ==
  /\ alive /\ working = {} /\ box # {}
  /\ working' = box /\ UNCHANGED <<box, waiting, closed, alive>>

Answer ==
  /\ alive /\ working # {}
  /\ box' = {} /\ working' = {} /\ UNCHANGED <<waiting, closed, alive>>

Return ==
  /\ waiting /\ (box = {} \/ closed \/ ~alive)
  /\ waiting' = FALSE /\ UNCHANGED <<box, working, closed, alive>>

Interrupt ==
  closed' = TRUE /\ UNCHANGED <<box, working, waiting, alive>>

Die ==
  /\ alive' = FALSE /\ working' = {} /\ UNCHANGED <<box, waiting, closed>>

(* Nobody reads what is written to a dead server.                          *)
Rewrite ==
  /\ ~alive /\ UNCHANGED <<working, waiting, closed, alive>>
  /\ \E r \in Requests : box' = {r}

MailNext ==
  \/ Post \/ Take \/ Answer \/ Return \/ Interrupt \/ Die \/ Rewrite

MailSpec == MailInit /\ [][MailNext]_mailVars

-----------------------------------------------------------------------------
(* Nothing is carried out but what was asked and is not yet answered, and  *)
(* nobody has changed it since.                                            *)
CarriesOutTheRequest == working # {} => alive /\ working = box
=============================================================================
