------------------------------ MODULE EventBus ------------------------------
(***************************************************************************)
(* CliEventBus and the events sockets that hear it.  publish calls the     *)
(* handlers that were subscribed when it began, one after the other, and   *)
(* awaits each; several publications are under way at a time.  The first   *)
(* subscriber is the server's own, deliverEvent, which sends to the        *)
(* sockets and returns at once.  A failing handler is logged, and a logged *)
(* line is an event too: the log buffer publishes it.                      *)
(***************************************************************************)
EXTENDS Subsequences

CONSTANTS Topics,        \* of the events published; "log" and "kick" among them
          Subscribers,   \* handlers the plugins and the embedder subscribe
          Listens(_, _),   \* the pattern of a handler matches a topic
          Fails(_),      \* the handler rejects
          Watchers,      \* events sockets
          TicketGrants(_), \* the permissions of a socket's ticket
          OwnWatchers,   \* the sockets of the user the events are about
          MaxPublished   \* bound on the publications, log entries included

SocketsHandler == "deliverEvent"

\* deliverEvent is the server's only, and hears every topic.
ASSUME EventBusAssumption ==
  /\ OwnWatchers \subseteq Watchers /\ "log" \in Topics
  /\ SocketsHandler \notin Subscribers /\ \A topic \in Topics : Listens(SocketsHandler, topic)

VARIABLES subscribed,  \* _handlers, in order
          published,   \* per publication: its topic, how it was sent, the handlers still to call
          inbox,       \* per socket: the publications sent to it
          watcher,     \* per socket: "out", "open", "ending", "closed"
          since, until, upto  \* published when it connected, when its session ended, when it closed

busVars == <<subscribed, published>>
clientVars == <<inbox, watcher, since, until, upto>>
eventVars == <<busVars, clientVars>>

EventInit ==
  /\ subscribed = <<SocketsHandler>> /\ published = <<>>
  /\ inbox = [w \in Watchers |-> <<>>]
  /\ watcher = [w \in Watchers |-> "out"]
  /\ since = [w \in Watchers |-> 0] /\ until = since /\ upto = since

-----------------------------------------------------------------------------
(* Audiences *)

Needs(topic) ==
  CASE topic = "job" -> "jobs:read" [] topic = "token" -> "tokens:read" [] topic = "log" -> "logs:read"
    [] OTHER -> "none"

\* What a publisher passes: a token's and a session's owner hear of it too.
AudienceOf(topic) == [permission |-> Needs(topic), owner |-> topic \in {"token", "kick"}]

\* defaultAudience, of a raw message.
DefaultAudience(topic) == [permission |-> Needs(topic), owner |-> topic = "token"]

Allows(w, audience) ==
  \/ audience.owner /\ w \in OwnWatchers
  \/ audience.permission \in TicketGrants(w)
  \/ audience.permission = "none" /\ ~audience.owner

\* deliverEvent and broadcastMessage; session-kicked has rules of its own.
Receives(w, event) ==
  IF event.topic = "kick"
  THEN watcher[w] \in {"open", "ending"} /\ w \in OwnWatchers
  ELSE /\ watcher[w] = "open"
       /\ Allows(w, IF event.raw THEN DefaultAudience(event.topic) ELSE AudienceOf(event.topic))

-----------------------------------------------------------------------------
(* Calling the handlers *)

Matching(topic) == Picked(subscribed, {i \in DOMAIN subscribed : Listens(subscribed[i], topic)})

\* The calls of one step, in order: <<handler, publication>>.
Numbers(calls) == [i \in DOMAIN calls |-> calls[i][2]]

(* The step makes the calls; `events` are the publications then.  The sockets a
   session-kicked reached for their own session are closed. *)
Makes(calls, events) ==
  LET to(w) == Picked(calls, {i \in DOMAIN calls :
                                 calls[i][1] = SocketsHandler /\ Receives(w, events[calls[i][2]])})
      kicked(w) == \E i \in DOMAIN to(w) : events[to(w)[i][2]].topic = "kick"
  IN /\ inbox' = [w \in Watchers |-> inbox[w] \o Numbers(to(w))]
     /\ watcher' = [w \in Watchers |-> IF kicked(w) THEN "closed" ELSE watcher[w]]
     /\ upto' = [w \in Watchers |-> IF kicked(w) THEN Len(events) ELSE upto[w]]
     /\ until' = [w \in Watchers |-> IF kicked(w) /\ watcher[w] = "open" THEN Len(events) ELSE until[w]]

Event(topic, raw, handlers) == [topic |-> topic, raw |-> raw, left |-> handlers]

FirstCalls(handlers, n) == IF handlers = <<>> THEN <<>> ELSE <<<<Head(handlers), n>>>>

\* publish, up to the first await: the first handler is called at once.
Publish(topic) ==
  /\ Len(published) < MaxPublished /\ topic # "log"
  /\ published' = Append(published, Event(topic, FALSE, Matching(topic)))
  /\ Makes(FirstCalls(Matching(topic), Len(published) + 1), published')
  /\ UNCHANGED <<subscribed, since>>

\* A raw broadcast (cliEventBusFromBroadcast, broadcastMessage): the sockets only.
Broadcast(topic) ==
  /\ Len(published) < MaxPublished /\ topic # "log"
  /\ published' = Append(published, Event(topic, TRUE, <<>>))
  /\ Makes(<<<<SocketsHandler, Len(published) + 1>>>>, published')
  /\ UNCHANGED <<subscribed, since>>

\* The failure of the handler that settles is logged, not those of log events.
Reported(n) == Fails(Head(published[n].left)) /\ published[n].topic # "log"

(* The awaited handler settles.  Its failure is logged, which publishes a log
   entry within this step; then the next handler is called. *)
Settled(n) ==
  /\ published[n].left # <<>>
  /\ Reported(n) => Len(published) < MaxPublished
  /\ LET rest == Tail(published[n].left)
         report == IF Reported(n) THEN <<Event("log", FALSE, Matching("log"))>> ELSE <<>>
         first == IF Reported(n) THEN FirstCalls(Matching("log"), Len(published) + 1) ELSE <<>>
     IN /\ published' = [published EXCEPT ![n].left = rest] \o report
        /\ Makes(first \o FirstCalls(rest, n), published')
  /\ UNCHANGED <<subscribed, since>>

(* Mutant: new subscribers are put first. *)
WithFirst(h) == <<h>> \o subscribed

With(h) == Append(subscribed, h)

Subscribe(h) ==
  /\ \A i \in DOMAIN subscribed : subscribed[i] # h
  /\ subscribed' = With(h)
  /\ UNCHANGED <<published, clientVars>>

Unsubscribe(h) ==
  /\ \E i \in DOMAIN subscribed : subscribed[i] = h
  /\ subscribed' = Picked(subscribed, {i \in DOMAIN subscribed : subscribed[i] # h})
  /\ UNCHANGED <<published, clientVars>>

-----------------------------------------------------------------------------
(* Sockets *)

Joins(w) ==
  /\ watcher[w] = "out"
  /\ watcher' = [watcher EXCEPT ![w] = "open"]
  /\ since' = [since EXCEPT ![w] = Len(published)]
  /\ UNCHANGED <<busVars, inbox, until, upto>>

\* SessionBoundSockets.ended: the socket waits for its session-kicked, or for the grace.
SessionEnds(w) ==
  /\ watcher[w] = "open"
  /\ watcher' = [watcher EXCEPT ![w] = "ending"]
  /\ until' = [until EXCEPT ![w] = Len(published)]
  /\ UNCHANGED <<busVars, inbox, since, upto>>

\* The client leaves, the grace is over, or the server shuts down.
Closes(w) ==
  /\ watcher[w] \in {"open", "ending"}
  /\ watcher' = [watcher EXCEPT ![w] = "closed"]
  /\ until' = IF watcher[w] = "open" THEN [until EXCEPT ![w] = Len(published)] ELSE until
  /\ upto' = [upto EXCEPT ![w] = Len(published)]
  /\ UNCHANGED <<busVars, inbox, since>>

EventNext ==
  \/ \E topic \in Topics : Publish(topic) \/ Broadcast(topic)
  \/ \E n \in DOMAIN published : Settled(n)
  \/ \E h \in Subscribers : Subscribe(h) \/ Unsubscribe(h)
  \/ \E w \in Watchers : Joins(w) \/ SessionEnds(w) \/ Closes(w)

EventSpec == EventInit /\ [][EventNext]_eventVars

-----------------------------------------------------------------------------
(* Properties *)

\* A socket is entitled to the publication by its catalog audience, and was there for it.
Due(w, n) ==
  LET event == published[n] IN
  /\ since[w] < n
  /\ IF event.topic = "kick"
     THEN w \in OwnWatchers /\ (watcher[w] = "closed" => n <= upto[w])
     ELSE /\ Allows(w, AudienceOf(event.topic))
          /\ watcher[w] # "open" => n <= until[w]

(* A socket gets exactly the events its audience entitles it to, published from
   its connection to the end of its session (its kick: to its closing), each
   once and in the order of publication, although publications interleave and
   handlers fail between them: create-cli-server.ts subscribes deliverEvent
   first, and publish calls the first handler before it awaits anything. *)
SocketsHearInOrder ==
  \A w \in Watchers : watcher[w] # "out" =>
    inbox[w] = Picked([n \in DOMAIN published |-> n], {n \in DOMAIN published : Due(w, n)})

=============================================================================
