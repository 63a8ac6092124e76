---------------------------- MODULE OneUseQueries ----------------------------
(***************************************************************************)
(* What a verified BFV client promises its application, whatever the       *)
(* evaluator and the network do: a query is taken up for decryption at     *)
(* most once, a query that was given up is never taken up, and the only    *)
(* answer an application can get is the right one.                         *)
(***************************************************************************)
EXTENDS QueryPackets

VARIABLES
  asked,    \* asked[t]: the query packet with ticket t, or None
  status,   \* status[t]: "unasked", "open", "taken", "closed" or "answered"
  replies   \* <<ticket, distances>> given to the application

askVars == <<asked, status, replies>>

AskInit ==
  /\ asked = [t \in Tickets |-> None]
  /\ status = [t \in Tickets |-> "unasked"]
  /\ replies = {}

Ask(p) ==
  /\ status[p.ticket] = "unasked"
  /\ asked' = [asked EXCEPT ![p.ticket] = p]
  /\ status' = [status EXCEPT ![p.ticket] = "open"]
  /\ UNCHANGED replies

Take(t) ==
  /\ status[t] = "open"
  /\ status' = [status EXCEPT ![t] = "taken"]
  /\ UNCHANGED <<asked, replies>>

Reply(t) ==
  /\ status[t] = "taken"
  /\ status' = [status EXCEPT ![t] = "answered"]
  /\ replies' = replies \cup {<<t, Expected(asked[t])>>}
  /\ UNCHANGED asked

(* Any number of unanswered queries end without an answer: a rejected      *)
(* response, a cancellation, a crash.                                      *)
Close(T) ==
  /\ \A t \in T : status[t] \in {"open", "taken"}
  /\ status' = [t \in Tickets |-> IF t \in T THEN "closed" ELSE status[t]]
  /\ UNCHANGED <<asked, replies>>

AskNext ==
  \/ \E p \in QueryPacket : Ask(p)
  \/ \E t \in Tickets : Take(t) \/ Reply(t)
  \/ \E T \in SUBSET Tickets : Close(T)

AskSpec == AskInit /\ [][AskNext]_askVars
=============================================================================
