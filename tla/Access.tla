-------------------------------- MODULE Access --------------------------------
(***************************************************************************)
(* How the enricher calls the OHIP API (ohip_client.py) with the OAuth      *)
(* token its tasks share (oauth.py).  The tasks run on one event loop: what *)
(* lies between two awaits is one step.  A call awaits the lock around the  *)
(* refresh, the answer of the token endpoint, a connection of the pool, the *)
(* answer of the API, and the pause after a 429.                            *)
(*                                                                         *)
(* Tokens are numbered as they are issued.  The server counts the life of a *)
(* token from its issue, the client from the arrival of the answer, which   *)
(* MaxLatency bounds; MaxWait bounds the time from taking a token to its    *)
(* reaching the API.  The server may withdraw a token before its time.      *)
(***************************************************************************)
EXTENDS Integers, FiniteSets

CONSTANTS
    Calls,        \* the calls of _request
    Nobody,       \* the refresh lock is free
    Lifetime,     \* expires_in
    Skew,         \* ohip_token_refresh_skew_seconds
    MaxLatency,   \* longest answer of the token endpoint (its timeout)
    MaxWait,      \* longest time from token() to the API (pool, connect, write)
    MaxTime,      \* bound: clock
    MaxTokens     \* bound: tokens issued

ASSUME AccessAssumption ==
    /\ Nobody \notin Calls
    /\ {Lifetime, Skew, MaxLatency, MaxWait, MaxTime, MaxTokens} \subseteq Nat
    /\ MaxLatency + MaxWait <= Skew
    /\ MaxLatency + MaxWait < Lifetime

VARIABLES
    now,        \* clock
    cached,     \* OAuthClient._token, 0 when None
    lock,       \* OAuthClient._lock
    issued,     \* tokens issued so far
    life,       \* server: when each token ends
    expiresAt,  \* OAuthToken.expires_at, 0 while the client has not got it
    revoked,    \* server: tokens withdrawn
    pc,         \* where each call is
    token,      \* the token a call uses or awaits, 0 when it has none
    since,      \* when it began to wait with that token
    refused,    \* the token its first attempt was refused with, 0 when none
    drops       \* history: how many times invalidate() ran

server == <<issued, life, revoked>>
client == <<cached, lock, expiresAt>>
vars == <<now, server, client, pc, token, since, refused, drops>>

Tokens == 1..MaxTokens

\* "token": about to call token(); "waiting": for the lock; "fetching": awaiting
\* the token endpoint; "issued": its answer is on the way; "sending": has a
\* token, awaits a connection; "throttled": sleeps after a 429.
Stages == {"token", "waiting", "fetching", "issued", "sending", "throttled",
           "returned", "failed"}
Ended  == {"returned", "failed"}

\* The types; and the lock is held by the call that is fetching a token.
TypeOK ==
    /\ now \in 0..MaxTime
    /\ cached \in 0..issued
    /\ lock \in Calls \cup {Nobody}
    /\ issued \in 0..MaxTokens
    /\ life \in [Tokens -> Nat]
    /\ expiresAt \in [Tokens -> Nat]
    /\ revoked \subseteq 1..issued
    /\ pc \in [Calls -> Stages]
    /\ token \in [Calls -> 0..issued]
    /\ since \in [Calls -> 0..now]
    /\ refused \in [Calls -> 0..issued]
    /\ drops \in Nat
    /\ \A c \in Calls : lock = c <=> pc[c] \in {"fetching", "issued"}

Init ==
    /\ now = 0
    /\ cached = 0
    /\ lock = Nobody
    /\ issued = 0
    /\ life = [t \in Tokens |-> 0]
    /\ expiresAt = [t \in Tokens |-> 0]
    /\ revoked = {}
    /\ pc = [c \in Calls |-> "token"]
    /\ token = [c \in Calls |-> 0]
    /\ since = [c \in Calls |-> 0]
    /\ refused = [c \in Calls |-> 0]
    /\ drops = 0

\* Call c goes on to a stage without a token, with the refusal in mind.
Goto(c, stage) ==
    /\ pc' = [pc EXCEPT ![c] = stage]
    /\ token' = [token EXCEPT ![c] = 0]
    /\ since' = [since EXCEPT ![c] = 0]

\* Call c goes on to a stage with token t.
Carry(c, stage, t) ==
    /\ pc' = [pc EXCEPT ![c] = stage]
    /\ token' = [token EXCEPT ![c] = t]
    /\ since' = [since EXCEPT ![c] = now]
    /\ UNCHANGED refused

\* _request returns or raises.
End(c, stage) ==
    /\ Goto(c, stage)
    /\ refused' = [refused EXCEPT ![c] = 0]

-----------------------------------------------------------------------------
(* The shared token.                                                       *)

\* Variant: a token is used to its last second.
NoSkew(t) == now >= expiresAt[t]

IsExpiring(t) == now >= expiresAt[t] - Skew

\* What token() returns without fetching.
Usable == cached # 0 /\ ~IsExpiring(cached)

\* token(): the cached one, or else the lock.
Token(c) ==
    /\ pc[c] = "token"
    /\ IF Usable THEN Carry(c, "sending", cached) ELSE Goto(c, "waiting") /\ UNCHANGED refused
    /\ UNCHANGED <<now, server, client, drops>>

\* Variant: a call that got the lock fetches, whatever happened meanwhile.
LockAndFetch(c) ==
    /\ pc[c] = "waiting"
    /\ lock = Nobody
    /\ Goto(c, "fetching") /\ lock' = c
    /\ UNCHANGED <<now, server, cached, expiresAt, refused, drops>>

\* Under the lock the token is looked at again: another call may have fetched.
Lock(c) ==
    /\ pc[c] = "waiting"
    /\ lock = Nobody
    /\ IF Usable THEN Carry(c, "sending", cached) /\ UNCHANGED lock
                 ELSE Goto(c, "fetching") /\ lock' = c /\ UNCHANGED refused
    /\ UNCHANGED <<now, server, cached, expiresAt, drops>>

\* The token endpoint issues a token and answers.
Issue(c) ==
    /\ pc[c] = "fetching"
    /\ issued < MaxTokens
    /\ issued' = issued + 1
    /\ life' = [life EXCEPT ![issued'] = now + Lifetime]
    /\ Carry(c, "issued", issued')
    /\ UNCHANGED <<now, revoked, client, drops>>

\* Variant: only a failure releases the lock.
StoreAndHold(c) ==
    /\ pc[c] = "issued"
    /\ cached' = token[c]
    /\ expiresAt' = [expiresAt EXCEPT ![token[c]] = now + Lifetime]
    /\ Carry(c, "sending", token[c])
    /\ UNCHANGED <<now, server, lock, drops>>

\* _fetch_token returns: the token is stored, the lock released, and token()
\* returns what it stored.
Store(c) ==
    /\ pc[c] = "issued"
    /\ cached' = token[c]
    /\ expiresAt' = [expiresAt EXCEPT ![token[c]] = now + Lifetime]
    /\ lock' = Nobody
    /\ Carry(c, "sending", token[c])
    /\ UNCHANGED <<now, server, drops>>

\* _fetch_token raises: async with releases the lock.
FetchFails(c) ==
    /\ pc[c] \in {"fetching", "issued"}
    /\ lock' = Nobody
    /\ End(c, "failed")
    /\ UNCHANGED <<now, server, cached, expiresAt, drops>>

-----------------------------------------------------------------------------
(* A request.                                                              *)

\* The API refuses a token that has ended or that was withdrawn.
Refuses(t) == now >= life[t] \/ t \in revoked

\* Variant: the refused token stays cached.
KeepToken(c) ==
    /\ pc[c] = "sending" /\ Refuses(token[c]) /\ refused[c] = 0
    /\ refused' = [refused EXCEPT ![c] = token[c]]
    /\ Goto(c, "token")
    /\ UNCHANGED <<now, server, client, drops>>

\* 401 on the first attempt: invalidate() drops whatever is cached.
Invalidate(c) ==
    /\ pc[c] = "sending" /\ Refuses(token[c]) /\ refused[c] = 0
    /\ refused' = [refused EXCEPT ![c] = token[c]]
    /\ cached' = 0
    /\ drops' = drops + 1
    /\ Goto(c, "token")
    /\ UNCHANGED <<now, server, lock, expiresAt>>

\* 401 on the second attempt is an error like any other.
Unauthorized(c) ==
    /\ pc[c] = "sending" /\ Refuses(token[c]) /\ refused[c] # 0
    /\ End(c, "failed")
    /\ UNCHANGED <<now, server, client, drops>>

\* The API gives what was asked for, or an error; or the pool, the connection or
\* the answer times out and httpx raises.
Answer(c) ==
    /\ pc[c] = "sending"
    /\ \/ ~Refuses(token[c]) /\ End(c, "returned")
       \/ End(c, "failed")
    /\ UNCHANGED <<now, server, client, drops>>

\* After a 429 the call pauses min(Retry-After or 1, 5) seconds ...
Throttle(c) ==
    /\ pc[c] = "sending" /\ ~Refuses(token[c])
    /\ Goto(c, "throttled")
    /\ UNCHANGED <<now, server, client, refused, drops>>

\* Variant: ... and then tries again, as after a 401.
RetryThrottled(c) ==
    /\ pc[c] = "throttled"
    /\ Goto(c, "token")
    /\ UNCHANGED <<now, server, client, refused, drops>>

\* ... and then raises it.
Raise429(c) ==
    /\ pc[c] = "throttled"
    /\ End(c, "failed")
    /\ UNCHANGED <<now, server, client, drops>>

Step(c) ==
    \/ Token(c) \/ Lock(c) \/ Issue(c) \/ Store(c) \/ FetchFails(c)
    \/ Invalidate(c) \/ Unauthorized(c) \/ Answer(c)
    \/ Throttle(c) \/ Raise429(c)

-----------------------------------------------------------------------------
Revoke(t) ==
    /\ revoked' = revoked \cup {t}
    /\ UNCHANGED <<now, issued, life, client, pc, token, since, refused, drops>>

\* Time passes, no further than what an answer or a connection may take.
Patience(c) ==
    CASE pc[c] = "issued"  -> now < since[c] + MaxLatency
      [] pc[c] = "sending" -> now < since[c] + MaxWait
      [] OTHER -> TRUE

Tick ==
    /\ now < MaxTime
    /\ \A c \in Calls : Patience(c)
    /\ now' = now + 1
    /\ UNCHANGED <<server, client, pc, token, since, refused, drops>>

Idle ==
    /\ \A c \in Calls : pc[c] \in Ended
    /\ UNCHANGED vars

Next ==
    \/ \E c \in Calls : Step(c)
    \/ \E t \in 1..issued : Revoke(t)
    \/ Tick
    \/ Idle

Spec == Init /\ [][Next]_vars

\* The event loop runs every task that can go on, and every await of a call
\* ends: the HTTP clients have timeouts, and the lock is held by a call that
\* ends.  Nothing says that a call succeeds.
Fairness == \A c \in Calls : WF_vars(Step(c))

FairSpec == Spec /\ Fairness

-----------------------------------------------------------------------------
(* Properties.                                                             *)

\* A call that was refused never tries again with the token it was refused
\* with, whoever refreshes, stores or drops the shared token meanwhile
\* (_request after a 401, invalidate, token).
RetryUsesAnotherToken ==
    \A c \in Calls : pc[c] = "sending" => token[c] # refused[c]

\* Calls that find no token do not all fetch one: but for the tokens that were
\* dropped, the client never has two that it would still use (token, the second
\* look at _token under the lock).
OneTokenAtATime ==
    Cardinality({t \in 1..issued : ~IsExpiring(t)}) <= 1 + drops

\* The API refuses a call only because it withdrew the token before its time: the
\* skew covers the answer of the token endpoint and the wait for a connection, so
\* that no token reaches the API after its end (is_expiring, _request).
TokenOutlivesItsWait ==
    \A c \in Calls : pc[c] = "sending" => now < life[token[c]]

\* Every call ends, with an answer or with an error, and so the lock is never
\* kept: a 401 is retried once, and a failed refresh lets the next call refresh.
CallsEnd == \A c \in Calls : <>(pc[c] \in Ended)
=============================================================================
