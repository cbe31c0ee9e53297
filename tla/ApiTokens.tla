----------------------------- MODULE ApiTokens -----------------------------
(***************************************************************************)
(* The API tokens of one user and the WebSocket tickets issued with them:  *)
(* AuthService over an asynchronous token store, behind the tokens         *)
(* controller.  A call is the sequence of its store calls, and what it     *)
(* read is kept from one to the next.  Sessions, and their tickets, are    *)
(* SessionSockets'.  A caller who neither owns a token nor may revoke any  *)
(* is answered 404 and changes nothing, and is left out.                   *)
(***************************************************************************)
EXTENDS Naturals, FiniteSets

CONSTANTS TokenIds, TicketIds, TokenCalls,
          TokenPerms,          \* permission strings
          TokenAsks,           \* bodies of POST /tokens: [name, days, scope]
          Unscoped, Never,     \* no `permissions`; `expiresInDays: null`
          None,
          MaxApiTokensPerUser, TicketTtl, LastUsedInterval,
          MaxInstant,          \* bound: the last instant of the clock
          MaxOverlapTokens,    \* bound: tokens made while calls overlap
          MaxChanges           \* bound: changes of the account by others

ASSUME ApiTokensAssumption ==
    /\ IsFiniteSet(TokenIds) /\ MaxApiTokensPerUser \in Nat \ {0}
    /\ TicketTtl \in Nat /\ LastUsedInterval \in Nat \ {0}
    /\ None \notin TokenIds \cup TicketIds
    /\ MaxInstant \in Nat /\ MaxOverlapTokens \in Nat /\ MaxChanges \in Nat
    /\ \A ask \in TokenAsks : /\ ask.days = Never \/ ask.days \in Nat \ {0}
                              /\ ask.scope = Unscoped \/ ask.scope \subseteq TokenPerms

VARIABLES apiTokens,  \* the token store; a deleted token stays, marked
          wsTickets,  \* the tickets map, likewise
          account,    \* the user: its state, and whether it is in the group
          gives,      \* the permissions of the group
          calls,      \* the calls in flight, and the answers of those that ended
          during,     \* history: what held at some instant of each call
          uses,       \* history: contexts got through each ticket
          instant,    \* Date.now()
          overlap,    \* calls overlap, all through a behaviour
          changes

tokenVars == <<apiTokens, wsTickets, account, gives, calls, during, uses, instant, overlap, changes>>

Nothing == [there |-> FALSE]
Refused == {Never}   \* no context; a context is its permissions
NoAsk   == [name |-> None, days |-> Never, scope |-> Unscoped]
NoAccount == [state |-> "gone", member |-> FALSE]
NotYet  == [usable |-> FALSE, enabled |-> FALSE, member |-> FALSE, perms |-> {}]
Ready   == [step |-> "ended", op |-> None, token |-> None, ticket |-> None,
            ask |-> NoAsk, at |-> 0, lastUsed |-> Never, seen |-> NoAccount, got |-> Refused]

Held(member)  == IF member THEN gives ELSE {}
Active(c)     == calls[c].step # "ended"
Stored(t)     == apiTokens[t].there
Made          == {t \in TokenIds : apiTokens[t] # Nothing}

\* isTokenExpired.
TokenExpired(t, now) == apiTokens[t].expires # Never /\ now >= apiTokens[t].expires

\* A ticket is accepted until its last instant.
TicketOver(k) == instant > wsTickets[k].issuedAt + TicketTtl

(* Mutant: the scope is taken as it was granted. *)
ScopedAsGranted(scope, held) == IF scope = Unscoped THEN held ELSE scope

\* scopePermissions.
Scoped(scope, held) == IF scope = Unscoped THEN held ELSE scope \cap held

----------------------------------------------------------------------------
TokenInit ==
    /\ apiTokens = [t \in TokenIds |-> Nothing] /\ wsTickets = [k \in TicketIds |-> Nothing]
    /\ account = [state |-> "enabled", member |-> TRUE] /\ gives \in SUBSET TokenPerms
    /\ calls = [c \in TokenCalls |-> Ready]
    /\ during = [c \in TokenCalls |-> NotYet]
    /\ uses = [k \in TicketIds |-> 0] /\ instant = 0 /\ changes = 0
    /\ overlap \in BOOLEAN

StoresStay   == UNCHANGED <<apiTokens, wsTickets>>
OthersStay   == UNCHANGED <<account, gives, instant, overlap, changes>>
HistoryStays == UNCHANGED <<during, uses>>

Goes(c, step)    == calls' = [calls EXCEPT ![c].step = step] /\ UNCHANGED during
Returns(c)       == calls' = [calls EXCEPT ![c] = Ready] /\ during' = [during EXCEPT ![c] = NotYet]

MayBegin(c) == ~Active(c) /\ (overlap \/ \A d \in TokenCalls : ~Active(d))

\* A call begins for token t, and what holds as it does.
Begins(c, t, call) ==
    /\ calls' = [calls EXCEPT ![c] = call]
    /\ during' = [during EXCEPT ![c] =
          [usable  |-> Stored(t) /\ ~TokenExpired(t, instant),
           enabled |-> account.state = "enabled",
           member  |-> account.member, perms |-> Held(account.member)]]

----------------------------------------------------------------------------
(* createApiToken *)

\* The middleware has found a session of the user; a scope with an entry the
\* caller does not hold is refused.
AskCreate(c) ==
    /\ MayBegin(c) /\ account.state = "enabled"
    /\ \E ask \in TokenAsks :
          /\ ask.scope # Unscoped => ask.scope \subseteq Held(account.member)
          /\ calls' = [calls EXCEPT ![c] =
                [Ready EXCEPT !.step = "list", !.op = "create", !.ask = ask, !.at = instant]]
    /\ StoresStay /\ OthersStay /\ HistoryStays

\* The name is free, and there are fewer than the limit.
Acceptable(ask, now) ==
    /\ \A t \in Made : Stored(t) => apiTokens[t].name # ask.name
    /\ Cardinality({t \in Made : Stored(t) /\ ~TokenExpired(t, now)}) < MaxApiTokensPerUser

ListOwn(c) ==
    /\ calls[c].step = "list"
    /\ IF Acceptable(calls[c].ask, calls[c].at) THEN Goes(c, "store") ELSE Returns(c)
    /\ StoresStay /\ OthersStay /\ UNCHANGED uses

StoreToken(c) ==
    /\ calls[c].step = "store"
    /\ TokenIds \ Made # {} /\ (overlap => Cardinality(Made) < MaxOverlapTokens)
    /\ LET ask == calls[c].ask
           t   == CHOOSE fresh \in TokenIds \ Made : TRUE IN
       apiTokens' = [apiTokens EXCEPT ![t] =
          [there |-> TRUE, name |-> ask.name, scope |-> ask.scope, lastUsed |-> Never,
           expires |-> IF ask.days = Never THEN Never ELSE calls[c].at + ask.days]]
    /\ Returns(c)
    /\ UNCHANGED wsTickets /\ OthersStay /\ UNCHANGED uses

----------------------------------------------------------------------------
(* A context for a token: authenticateApiToken, revalidateApiToken, consumeTicket *)

\* A request with the token, perhaps for a ticket: it is looked up, and its
\* expiry.  (The re-check of a socket, revalidate, differs by recording no use.)
Find(c, t) ==
    /\ MayBegin(c) /\ t \in Made /\ Stored(t) /\ ~TokenExpired(t, instant)
    /\ \E op \in {"request", "issueTicket"} :
          Begins(c, t, [Ready EXCEPT !.step = "user", !.op = op, !.token = t, !.lastUsed = apiTokens[t].lastUsed])
    /\ StoresStay /\ OthersStay /\ UNCHANGED uses

\* consumeTicket: the ticket is deleted at once, whatever comes of it.
Consume(c, k) ==
    /\ MayBegin(c) /\ wsTickets[k].there
    /\ wsTickets' = [wsTickets EXCEPT ![k].there = FALSE]
    /\ IF TicketOver(k) THEN UNCHANGED <<calls, during>>
       ELSE Begins(c, wsTickets[k].token, [Ready EXCEPT !.step = "token", !.op = "consumeTicket",
                                                        !.token = wsTickets[k].token, !.ticket = k])
    /\ UNCHANGED <<apiTokens, uses>> /\ OthersStay

\* revalidateApiToken: the token as it is now.
Usable(t) == Stored(t) /\ ~TokenExpired(t, instant)

FindAgain(c) ==
    /\ calls[c].step = "token"
    /\ IF Usable(calls[c].token)
       THEN Goes(c, "user")
       ELSE Returns(c)
    /\ StoresStay /\ OthersStay /\ UNCHANGED uses

\* A request records when its token was used, unless it did so lately.
DueLastUsed(c) ==
    /\ calls[c].op \in {"request", "issueTicket"}
    /\ calls[c].lastUsed = Never \/ instant >= calls[c].lastUsed + LastUsedInterval

\* validateApiToken: the live user ...
ReadOwner(c) ==
    /\ calls[c].step = "user"
    /\ IF account.state \in {"gone", "disabled"} THEN Returns(c)
       ELSE calls' = [calls EXCEPT ![c].step = "perms", ![c].seen = account] /\ UNCHANGED during
    /\ StoresStay /\ OthersStay /\ UNCHANGED uses

\* A user who must change the password gets nothing with a token.
Context(c) ==
    IF calls[c].seen.state = "mustChange" THEN Refused
    ELSE Scoped(apiTokens[calls[c].token].scope, Held(calls[c].seen.member))

\* ... and the permissions of its groups, narrowed to the scope.
ReadPermissions(c) ==
    /\ calls[c].step = "perms"
    /\ calls' = [calls EXCEPT ![c].step = IF DueLastUsed(c) THEN "touch" ELSE "context",
                             ![c].got = Context(c), ![c].at = IF DueLastUsed(c) THEN instant ELSE 0,
                             ![c].seen = NoAccount, ![c].lastUsed = Never]
    /\ StoresStay /\ OthersStay /\ HistoryStays

\* updateLastUsed.
TouchToken(c) ==
    /\ calls[c].step = "touch"
    /\ apiTokens' = IF Stored(calls[c].token)
                    THEN [apiTokens EXCEPT ![calls[c].token].lastUsed = calls[c].at] ELSE apiTokens
    /\ Goes(c, "context")
    /\ UNCHANGED <<wsTickets, uses>> /\ OthersStay

Unissued == {k \in TicketIds : wsTickets[k] = Nothing}

\* The handler has its context; issueTicket sweeps the tickets and makes one.
Handle(c) ==
    /\ calls[c].step = "context" /\ Returns(c)
    /\ LET call  == calls[c]
           swept == [k \in TicketIds |-> IF wsTickets[k].there /\ TicketOver(k)
                                         THEN [wsTickets[k] EXCEPT !.there = FALSE] ELSE wsTickets[k]] IN
       /\ uses' = IF call.ticket # None /\ call.got # Refused
                  THEN [uses EXCEPT ![call.ticket] = @ + 1] ELSE uses
       /\ IF call.op = "issueTicket" /\ call.got # Refused /\ Unissued # {}
          THEN wsTickets' = [swept EXCEPT ![CHOOSE k \in Unissued : TRUE] =
                               [there |-> TRUE, token |-> call.token, issuedAt |-> instant]]
          ELSE UNCHANGED wsTickets
    /\ UNCHANGED apiTokens /\ OthersStay

----------------------------------------------------------------------------
(* The end of tokens *)

\* revokeApiToken: by the owner, or by one who may revoke any.
AskRevoke(c, t) ==
    /\ MayBegin(c) /\ t \in Made /\ Stored(t)
    /\ calls' = [calls EXCEPT ![c] = [Ready EXCEPT !.step = "delete", !.op = "revoke", !.token = t]]
    /\ StoresStay /\ OthersStay /\ HistoryStays

DeleteToken(c) ==
    /\ calls[c].step = "delete"
    /\ apiTokens' = [apiTokens EXCEPT ![calls[c].token].there = FALSE]
    /\ Returns(c)
    /\ UNCHANGED wsTickets /\ OthersStay /\ UNCHANGED uses

\* DirectoryService.deleteUser: the user first, the tokens afterwards.
AskDelete(c) ==
    /\ MayBegin(c) /\ account.state # "gone"
    /\ calls' = [calls EXCEPT ![c] = [Ready EXCEPT !.step = "account", !.op = "deleteUser"]]
    /\ StoresStay /\ OthersStay /\ HistoryStays

DeleteOwner(c) ==
    /\ calls[c].step = "account"
    /\ account' = [account EXCEPT !.state = "gone"] /\ Goes(c, "tokens")
    /\ StoresStay /\ UNCHANGED uses /\ UNCHANGED <<gives, instant, overlap, changes>>

DeleteOwnTokens(c) ==
    /\ calls[c].step = "tokens"
    /\ apiTokens' = [t \in TokenIds |-> IF t \in Made THEN [apiTokens[t] EXCEPT !.there = FALSE] ELSE Nothing]
    /\ Returns(c)
    /\ UNCHANGED wsTickets /\ OthersStay /\ UNCHANGED uses

\* What holds now is noted for every call: also what the group gives to one who was its member.
Noted(state, member, given) ==
    during' = [c \in TokenCalls |->
       IF Active(c) /\ calls[c].token # None
       THEN [during[c] EXCEPT !.enabled = @ \/ state = "enabled", !.member = @ \/ member,
                              !.perms = @ \cup (IF during[c].member \/ member THEN given ELSE {})]
       ELSE during[c]]

\* Administrators disable and enable the user, reset the password, and change
\* the membership or the group.
AccountChanges ==
    /\ changes < MaxChanges /\ changes' = changes + 1 /\ account.state # "gone"
    /\ \/ \E state \in {"enabled", "disabled", "mustChange"} :
             account' = [account EXCEPT !.state = state] /\ UNCHANGED gives
       \/ \E member \in BOOLEAN : account' = [account EXCEPT !.member = member] /\ UNCHANGED gives
       \/ gives' \in SUBSET TokenPerms /\ UNCHANGED account
    /\ Noted(account'.state, account'.member, gives')
    /\ UNCHANGED <<apiTokens, wsTickets, calls, uses, instant, overlap>>

Passes ==
    /\ instant < MaxInstant /\ instant' = instant + 1
    /\ UNCHANGED <<apiTokens, wsTickets, account, gives, calls, during, uses, overlap, changes>>

TokenCall(c) ==
    \/ AskCreate(c) \/ ListOwn(c) \/ StoreToken(c)
    \/ FindAgain(c) \/ ReadOwner(c) \/ ReadPermissions(c) \/ TouchToken(c) \/ Handle(c)
    \/ DeleteToken(c) \/ AskDelete(c) \/ DeleteOwner(c) \/ DeleteOwnTokens(c)
    \/ \E t \in TokenIds : Find(c, t) \/ AskRevoke(c, t)
    \/ \E k \in TicketIds : Consume(c, k)

TokensNext == AccountChanges \/ Passes \/ \E c \in TokenCalls : TokenCall(c)

TokensSpec == TokenInit /\ [][TokensNext]_tokenVars

----------------------------------------------------------------------------
\* Whatever a token gives, directly, through a ticket or at a re-check, is in
\* its scope, and the group gave it at some instant of the call, to a user who
\* was enabled and in the group at some instant of it (not the same one: the
\* user is read before the groups, and may have left one that gains a permission
\* in between); and at the beginning of the call the token was neither revoked,
\* nor deleted with its user, nor expired: a ticket that outlives its token
\* opens nothing more.
GrantsJustified ==
    \A c \in TokenCalls :
       LET call == calls[c] IN
       call.step = "context" /\ call.got # Refused =>
          /\ during[c].usable /\ during[c].enabled
          /\ call.got \subseteq during[c].perms
          /\ apiTokens[call.token].scope = Unscoped \/ call.got \subseteq apiTokens[call.token].scope

\* "WebSocket tickets (30 s, consumed on first use)": however its consumers
\* interleave, a ticket opens one connection at most.
TicketsOnce == \A k \in TicketIds : uses[k] <= 1

\* What a token opens, by itself or by its tickets, is justified.
TokensJustified == GrantsJustified /\ TicketsOnce
=============================================================================
