----------------------------- MODULE MCSockets -----------------------------
(* SessionSockets for TLC: an events socket with a session and an API token in
   some behaviours, a shell with a session in the others. *)
EXTENDS SessionSockets
CONSTANTS s1, t1, e1, h1

VARIABLE part  \* "events" or "shells"

MCInit == part \in {"events", "shells"} /\ Init

\* Bound: one kind of socket at a time, and a shell has a session.
OneKindOfSocket ==
  \/ part = "events" /\ \A h \in Shells : conn'[h] = "out"
  \/ /\ part = "shells"
     /\ \A w \in Sockets : conn'[w] = "out"
     /\ \A h \in Shells : ident'[h] \notin Tokens
     /\ \A t \in Tokens : stored'[t] = stored[t] /\ t \notin expired'

MCNext == Next /\ OneKindOfSocket /\ UNCHANGED part

MCSpec == MCInit /\ [][MCNext]_<<vars, part>> /\ Fairness
=============================================================================
