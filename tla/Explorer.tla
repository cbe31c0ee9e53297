------------------------------ MODULE Explorer ------------------------------
(* The data explorer: queries and schema requests that run at the same time on *)
(* data sources, each through the connection its provider opens.               *)
(* Rows are counted, not looked at; drivers answer with a number of rows or    *)
(* refuse.                                                                     *)
EXTENDS Naturals, FiniteSets

CONSTANTS
    Asking,       \* the requests
    Sources,      \* names of data sources
    Provider,     \* which provider a source was registered with
    MaxRows,      \* options.maxRows of a source; 0: not given
    MongoRows,    \* the rows MongoDB's find returns when maxRows is not given
    MostFound,    \* bound: the most rows a query finds
    Nothing

ASSUME ExplorerAssumption ==
    /\ Provider \in [Sources -> {"sqlite", "postgres", "mysql", "mssql", "mongo", "redis", "elastic"}]
    /\ MaxRows \in [Sources -> Nat]
    /\ MongoRows \in Nat \ {0} /\ MostFound \in Nat
    /\ Nothing \notin Sources \cup Asking

VARIABLES
    query,        \* request -> where its coroutine is and what it holds
    clients,      \* the requests whose own client is open
    pool,         \* request -> the mssql pool it made
    globalPool    \* the pool sql.connect() hands out, or Nothing

explorerVars == <<query, clients, pool, globalPool>>

NoAnswer == [ok |-> FALSE, rows |-> 0, truncated |-> FALSE]

IdleQuery == [at |-> "idle", op |-> "query", source |-> Nothing, pool |-> Nothing,
         timer |-> "off", found |-> 0, answer |-> NoAnswer]

ExplorerInit ==
    /\ query = [r \in Asking |-> IdleQuery]
    /\ clients = {} /\ pool = [r \in Asking |-> "none"] /\ globalPool = Nothing

Uses(r, provider) == query[r].source # Nothing /\ Provider[query[r].source] = provider
Found(n, cut) == [ok |-> TRUE, rows |-> n, truncated |-> cut]
MinOf(m, n) == IF m < n THEN m ELSE n

(* Mutant: the rows are cut off, the result not marked. *)
LimitedUnmarked(r, result) ==
    LET max == MaxRows[query[r].source] IN
    IF query[r].op = "query" /\ max > 0 /\ result.rows > max
    THEN Found(max, result.truncated) ELSE result

\* What the executor makes of a result: rows above maxRows are cut off and the result marked.
Limited(r, result) ==
    LET max == MaxRows[query[r].source] IN
    IF query[r].op = "query" /\ max > 0 /\ result.rows > max THEN Found(max, TRUE) ELSE result

\* The provider's promise settles: the executor clears the timer and answers.
Settle(r, result) ==
    query' = [query EXCEPT ![r].at = "answered",
                           ![r].timer = IF @ = "armed" THEN "off" ELSE @,
                           ![r].answer = Limited(r, result)]

\* The provider has its result and goes on to its finally block.
Finish(r, result) ==
    query' = [query EXCEPT ![r].at = "closing", ![r].answer = result]

\* n rows are found, of which the answer may have fewer.
Finds(r, n) == [query EXCEPT ![r].found = n]

------------------------------------------------------------------------------
(* Requests *)

PoolFor(r) == IF globalPool = Nothing THEN r ELSE globalPool

\* executeAsync or getSchemaAsync of a registered source: the timer of a query is
\* armed and the provider called, which runs to its first await.
Execute(r, op, s) ==
    LET first == IF Provider[s] \in {"postgres", "mysql", "mssql", "mongo"} THEN "opening" ELSE "querying" IN
    /\ query[r].at = "idle"
    /\ query' = [query EXCEPT ![r] = [IdleQuery EXCEPT !.at = first, !.op = op, !.source = s,
                                                  !.pool = IF Provider[s] = "mssql" THEN PoolFor(r) ELSE Nothing,
                                                  !.timer = IF op = "query" THEN "armed" ELSE "off"]]
    /\ clients' = IF Provider[s] \in {"postgres", "mongo", "redis"} THEN clients \cup {r} ELSE clients
    /\ IF Provider[s] # "mssql" THEN UNCHANGED <<pool, globalPool>>
       ELSE /\ globalPool' = PoolFor(r)
            /\ pool' = IF globalPool = Nothing THEN [pool EXCEPT ![r] = "connecting"] ELSE pool

UnknownSource(r) ==
    /\ query[r].at = "idle"
    /\ query' = [query EXCEPT ![r].at = "answered"]
    /\ UNCHANGED <<clients, pool, globalPool>>

\* setTimeout aborts a signal that no provider looks at.
TimeoutFires(r) ==
    /\ query[r].timer = "armed"
    /\ query' = [query EXCEPT ![r].timer = "fired"]
    /\ UNCHANGED <<clients, pool, globalPool>>

------------------------------------------------------------------------------
(* Steps the providers share *)

Connects(r) ==
    /\ query[r].at = "opening"
    /\ query' = [query EXCEPT ![r].at = "querying"]
    /\ clients' = clients \cup {r}
    /\ UNCHANGED <<pool, globalPool>>

(* Mutant: connect() stands before try. *)
RefusedInsideForgets(r) ==
    /\ query[r].at = "opening"
    /\ Settle(r, NoAnswer)
    /\ UNCHANGED <<clients, pool, globalPool>>

\* A failed connect() inside try is answered after the finally block ended the client.
RefusedInside(r) ==
    /\ query[r].at = "opening"
    /\ Finish(r, NoAnswer)
    /\ UNCHANGED <<clients, pool, globalPool>>

\* mysql.createConnection() stands before try: its failure rejects, with nothing to end.
RefusedOutside(r) ==
    /\ query[r].at = "opening"
    /\ Settle(r, NoAnswer)
    /\ UNCHANGED <<clients, pool, globalPool>>

\* The query runs and finds n rows, or fails.
Runs(r, n) ==
    /\ query[r].at = "querying"
    /\ query' = [Finds(r, n) EXCEPT ![r].at = "closing", ![r].answer = Found(n, FALSE)]
    /\ UNCHANGED <<clients, pool, globalPool>>

Fails(r) ==
    /\ query[r].at = "querying"
    /\ Finish(r, NoAnswer)
    /\ UNCHANGED <<clients, pool, globalPool>>

\* The finally block; when ending the client rejects, the result is lost with it.
Ends(r) ==
    /\ query[r].at = "closing"
    /\ Settle(r, query[r].answer) \/ Settle(r, NoAnswer)
    /\ clients' = clients \ {r}
    /\ UNCHANGED <<pool, globalPool>>

------------------------------------------------------------------------------
(* The providers *)

Postgres(r) ==
    /\ Uses(r, "postgres")
    /\ Connects(r) \/ RefusedInside(r) \/ (\E n \in 0..MostFound : Runs(r, n)) \/ Fails(r) \/ Ends(r)

Mysql(r) ==
    /\ Uses(r, "mysql")
    /\ Connects(r) \/ RefusedOutside(r) \/ (\E n \in 0..MostFound : Runs(r, n)) \/ Fails(r) \/ Ends(r)

\* find() asks for one document more than it may return, and drops it.
MongoLimit(r) == IF MaxRows[query[r].source] = 0 THEN MongoRows ELSE MaxRows[query[r].source]
MongoFinds(r, n) ==
    LET fetched == MinOf(n, MongoLimit(r) + 1)
        cut     == fetched > MongoLimit(r) IN
    /\ query[r].at = "querying" /\ query[r].op = "query"
    /\ query' = [Finds(r, n) EXCEPT
                    ![r].at = "closing",
                    ![r].answer = Found(IF cut THEN fetched - 1 ELSE fetched, cut)]
    /\ UNCHANGED <<clients, pool, globalPool>>

Mongo(r) ==
    /\ Uses(r, "mongo")
    /\ \/ Connects(r) \/ RefusedInside(r) \/ Fails(r) \/ Ends(r)
       \/ \E n \in 0..MostFound : Runs(r, n) \/ MongoFinds(r, n)

\* The client connects by itself, queues the command and is disconnected at once at the end.
RedisEnds(r) ==
    /\ query[r].at = "closing"
    /\ Settle(r, query[r].answer)
    /\ clients' = clients \ {r}
    /\ UNCHANGED <<pool, globalPool>>

Redis(r) ==
    /\ Uses(r, "redis")
    /\ (\E n \in 0..MostFound : Runs(r, n)) \/ Fails(r) \/ RedisEnds(r)

\* SQLite opens, runs and closes without waiting in between.
Sqlite(r) ==
    /\ Uses(r, "sqlite") /\ query[r].at = "querying"
    /\ \/ \E n \in 0..MostFound :
            query' = [Finds(r, n) EXCEPT
                         ![r].at = "answered", ![r].timer = IF @ = "armed" THEN "off" ELSE @,
                         ![r].answer = Limited(r, Found(n, FALSE))]
       \/ Settle(r, NoAnswer)
    /\ UNCHANGED <<clients, pool, globalPool>>

\* One client for the life of the provider; nothing is closed.
Elastic(r) ==
    /\ Uses(r, "elastic")
    /\ \/ \E n \in 0..MostFound : Runs(r, n)
       \/ Fails(r)
       \/ query[r].at = "closing" /\ Settle(r, query[r].answer) /\ UNCHANGED <<clients, pool, globalPool>>

\* sql.connect() gives every caller the global pool while there is one, whatever its
\* connection string; a pool that fails to connect, or is closed, stops being it.
PoolConnects(r) ==
    LET p == query[r].pool IN
    /\ query[r].at = "opening" /\ pool[p] # "refused"
    /\ query' = [query EXCEPT ![r].at = "querying"]
    /\ pool' = [pool EXCEPT ![p] = IF @ = "connecting" THEN "open" ELSE @]
    /\ UNCHANGED <<clients, globalPool>>

PoolRefused(r) ==
    LET p == query[r].pool IN
    /\ query[r].at = "opening" /\ pool[p] \in {"connecting", "refused"}
    /\ Settle(r, NoAnswer)
    /\ pool' = [pool EXCEPT ![p] = "refused"]
    /\ globalPool' = Nothing
    /\ UNCHANGED clients

\* A query on a pool that another request has closed fails.
PoolRuns(r, n) ==
    LET p == query[r].pool IN
    /\ query[r].at = "querying" /\ pool[p] = "open"
    /\ query' = [Finds(r, n) EXCEPT ![r].at = "closing", ![r].answer = Found(n, FALSE)]
    /\ UNCHANGED <<clients, pool, globalPool>>

PoolCloses(r) ==
    /\ query[r].at = "closing"
    /\ Settle(r, query[r].answer) \/ Settle(r, NoAnswer)
    /\ pool' = [pool EXCEPT ![query[r].pool] = "closed"]
    /\ globalPool' = Nothing
    /\ UNCHANGED clients

Mssql(r) ==
    /\ Uses(r, "mssql")
    /\ PoolConnects(r) \/ PoolRefused(r) \/ (\E n \in 0..MostFound : PoolRuns(r, n)) \/ Fails(r) \/ PoolCloses(r)

ExplorerNext ==
    \E r \in Asking :
      \/ \E op \in {"query", "schema"}, s \in Sources : Execute(r, op, s)
      \/ UnknownSource(r)
      \/ TimeoutFires(r)
      \/ Sqlite(r) \/ Postgres(r) \/ Mysql(r) \/ Mssql(r) \/ Mongo(r) \/ Redis(r) \/ Elastic(r)

ExplorerSpec == ExplorerInit /\ [][ExplorerNext]_explorerVars

------------------------------------------------------------------------------
(* Properties *)

\* No connection outlives the request that opened it, however the request ends: every
\* finally block of the providers is passed, and a shared pool is closed by its last user
\* (executeAsync and getSchemaAsync of the seven providers).
ConnectionsReturned ==
    /\ \A r \in clients : query[r].at \in {"opening", "querying", "closing"}
    /\ \A p \in Asking : pool[p] \in {"connecting", "open"} =>
         \E r \in Asking : query[r].pool = p /\ query[r].at \in {"opening", "querying", "closing"}

\* A result that is cut short says so, and no complete one does, with the limit of the
\* executor behind that of MongoDB's find (DataExplorerExecutor.executeAsync; mongo's find).
CutIsMarked ==
    \A r \in Asking :
      LET got == query[r].answer IN
      query[r].at = "answered" /\ got.ok =>
        /\ got.truncated <=> got.rows < query[r].found
        /\ query[r].op = "query" /\ MaxRows[query[r].source] > 0 => got.rows <= MaxRows[query[r].source]
=============================================================================
