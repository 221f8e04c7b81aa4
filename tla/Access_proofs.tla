----------------------------- MODULE Access_proofs -----------------------------
(***************************************************************************)
(* The shared token, for any number of calls and any timing within the      *)
(* assumption on skew and timeouts: the types, that a retry uses another    *)
(* token, that no token ends before it reaches the API, and how many tokens  *)
(* there are.  The invariant is about who knows a token: one that is still    *)
(* on its way is known to the call that asked for it alone, so that storing   *)
(* it cannot bring back a token that some call was refused with.             *)
(***************************************************************************)
EXTENDS Access, FiniteSetTheorems, TLAPS

\* The constants, one by one.
LEMMA Numbers ==
    /\ Lifetime \in Nat /\ Skew \in Nat /\ MaxLatency \in Nat /\ MaxWait \in Nat
    /\ MaxTime \in Nat /\ MaxTokens \in Nat
    /\ MaxLatency + MaxWait <= Skew /\ MaxLatency + MaxWait < Lifetime
  BY AccessAssumption DEF AccessAssumption

\* A call that goes on, with a token or without one, keeps the types.
LEMMA CallType ==
    ASSUME TypeOK, NEW c \in Calls, NEW stage \in Stages, NEW t \in 0..issued',
           issued' \in Nat, issued <= issued', UNCHANGED now,
           Goto(c, stage) \/ Carry(c, stage, t)
    PROVE  /\ pc' \in [Calls -> Stages]
           /\ token' \in [Calls -> 0..issued']
           /\ since' \in [Calls -> 0..now']
<1>1. \A k \in 0..issued : k \in 0..issued'
  BY Numbers DEF TypeOK
<1>2. now \in 0..now /\ 0 \in 0..now
  BY Numbers DEF TypeOK
<1>3. pc' \in [Calls -> Stages]
  BY DEF TypeOK, Goto, Carry
<1>4. token' \in [Calls -> 0..issued']
  BY <1>1 DEF TypeOK, Goto, Carry
<1>5. since' \in [Calls -> 0..now']
  BY <1>2 DEF TypeOK, Goto, Carry
<1>6. QED BY <1>3, <1>4, <1>5

\* Every variable keeps its type, and the lock is held by the call that fetches:
\* two calls never fetch at once (token, async with).
THEOREM TypeCorrect == Spec => []TypeOK
<1>1. Init => TypeOK
  BY AccessAssumption DEF Init, TypeOK, Stages, Tokens
<1>2. TypeOK /\ [Next]_vars => TypeOK'
  <2> SUFFICES ASSUME TypeOK, [Next]_vars PROVE TypeOK'
    OBVIOUS
  <2> USE Numbers DEF server, client
  <2>0. issued \in Nat /\ now \in Nat /\ cached \in 0..issued /\ 0 \in 0..issued
    BY DEF TypeOK
  <2>1. ASSUME NEW c \in Calls, Token(c) \/ Lock(c) PROVE TypeOK'
    <3>1. UNCHANGED <<now, issued, life, revoked, cached, expiresAt, refused, drops>>
      BY <2>1 DEF Token, Lock, Carry
    <3>2. \E stage \in Stages, t \in 0..issued : Goto(c, stage) \/ Carry(c, stage, t)
      BY <2>0, <2>1 DEF Token, Lock, Stages
    <3>3. lock' \in Calls \cup {Nobody}
      BY <2>1 DEF Token, Lock, TypeOK
    <3>4. \A b \in Calls : lock' = b <=> pc'[b] \in {"fetching", "issued"}
      BY <2>1, AccessAssumption DEF Token, Lock, Carry, Goto, TypeOK
    <3>5. QED BY <2>0, <3>1, <3>2, <3>3, <3>4, CallType DEF TypeOK
  <2>2. ASSUME NEW c \in Calls, Issue(c) PROVE TypeOK'
    <3>1. /\ issued' = issued + 1 /\ issued' \in 0..MaxTokens /\ issued' \in Tokens
          /\ UNCHANGED <<now, revoked, cached, lock, expiresAt, refused, drops>>
          /\ Carry(c, "issued", issued')
      BY <2>0, <2>2 DEF Issue, Carry, TypeOK, Tokens
    <3>2. /\ pc' \in [Calls -> Stages] /\ token' \in [Calls -> 0..issued']
          /\ since' \in [Calls -> 0..now']
      BY <2>0, <3>1, CallType DEF Stages
    <3>3. life' \in [Tokens -> Nat]
      BY <2>0, <2>2, <3>1 DEF Issue, TypeOK
    <3>4. \A k \in 0..issued : k \in 0..issued'
      BY <2>0, <3>1
    <3>5. \A k \in 1..issued : k \in 1..issued'
      BY <2>0, <3>1
    <3>6. \A b \in Calls : lock' = b <=> pc'[b] \in {"fetching", "issued"}
      BY <2>2, <3>1 DEF Issue, Carry, TypeOK
    <3>7. QED BY <3>1, <3>2, <3>3, <3>4, <3>5, <3>6 DEF TypeOK
  <2>3. ASSUME NEW c \in Calls, Store(c) PROVE TypeOK'
    <3>1. /\ UNCHANGED <<now, issued, life, revoked, refused, drops>>
          /\ token[c] \in 0..issued /\ lock' = Nobody /\ cached' = token[c]
          /\ expiresAt' = [expiresAt EXCEPT ![token[c]] = now + Lifetime]
          /\ Carry(c, "sending", token[c])
      BY <2>3 DEF Store, Carry, TypeOK
    <3>2. now + Lifetime \in Nat
      BY <2>0
    <3>3. expiresAt' \in [Tokens -> Nat]
      BY <3>1, <3>2 DEF TypeOK
    <3>4. /\ pc' \in [Calls -> Stages] /\ token' \in [Calls -> 0..issued']
          /\ since' \in [Calls -> 0..now']
      BY <2>0, <3>1, CallType DEF Stages
    <3>5. \A b \in Calls : lock' = b <=> pc'[b] \in {"fetching", "issued"}
      BY <2>3, <3>1, AccessAssumption DEF Store, Carry, TypeOK
    <3>6. QED BY <3>1, <3>3, <3>4, <3>5 DEF TypeOK
  <2>4. ASSUME NEW c \in Calls,
               \/ FetchFails(c) \/ Unauthorized(c) \/ Answer(c) \/ Raise429(c)
               \/ Invalidate(c) \/ Throttle(c)
        PROVE  TypeOK'
    <3>1. /\ UNCHANGED <<now, issued, life, revoked, expiresAt>>
          /\ lock' \in {lock, Nobody} /\ cached' \in {cached, 0} /\ drops' \in {drops, drops + 1}
      BY <2>4 DEF FetchFails, Unauthorized, Answer, Raise429, Invalidate, Throttle
    <3>2. \E k \in 0..issued : refused' = [refused EXCEPT ![c] = k]
      BY <2>0, <2>4 DEF FetchFails, Unauthorized, Answer, Raise429, Invalidate, Throttle, End,
         TypeOK
    <3>3. \E stage \in Stages : Goto(c, stage)
      BY <2>4 DEF FetchFails, Unauthorized, Answer, Raise429, Invalidate, Throttle, End, Stages
    <3>4. /\ pc' \in [Calls -> Stages] /\ token' \in [Calls -> 0..issued']
          /\ since' \in [Calls -> 0..now']
      BY <2>0, <3>1, <3>3, CallType
    <3>5. refused' \in [Calls -> 0..issued']
      BY <3>1, <3>2 DEF TypeOK
    <3>6. \A b \in Calls : lock' = b <=> pc'[b] \in {"fetching", "issued"}
      BY <2>4, AccessAssumption
         DEF FetchFails, Unauthorized, Answer, Raise429, Invalidate, Throttle, End, Goto, TypeOK
    <3>7. QED BY <2>0, <3>1, <3>4, <3>5, <3>6 DEF TypeOK
  <2>6. ASSUME NEW t \in 1..issued, Revoke(t) PROVE TypeOK'
    BY <2>6 DEF Revoke, TypeOK
  <2>7. CASE Tick
    <3>1. \A k \in 0..now : k \in 0..now'
      BY <2>0, <2>7 DEF Tick
    <3>2. now' \in 0..MaxTime
      BY <2>0, <2>7 DEF Tick
    <3>3. QED BY <2>7, <3>1, <3>2 DEF Tick, TypeOK
  <2>8. CASE Idle \/ UNCHANGED vars
    BY <2>8 DEF Idle, vars, TypeOK
  <2>9. QED
    BY <2>1, <2>2, <2>3, <2>4, <2>6, <2>7, <2>8 DEF Next, Step
<1>3. QED BY <1>1, <1>2, PTL DEF Spec

-----------------------------------------------------------------------------
(* Who knows a token.                                                      *)

\* A token on its way is known to nobody but the call that asked for it.
OnItsWay ==
    \A c \in Calls : pc[c] = "issued" =>
        /\ token[c] # 0 /\ token[c] # cached
        /\ \A b \in Calls : refused[b] # token[c]
        /\ \A b \in Calls \ {c} : token[b] # token[c]

\* What a call was refused with is not cached, and not in its hands.
Forgotten ==
    \A c \in Calls :
        /\ refused[c] # 0 => cached # refused[c]
        /\ pc[c] = "sending" => token[c] # 0 /\ token[c] # refused[c]

LEMMA KnowledgeKept ==
    TypeOK /\ OnItsWay /\ Forgotten /\ [Next]_vars => OnItsWay' /\ Forgotten'
<1> SUFFICES ASSUME TypeOK, OnItsWay, Forgotten, [Next]_vars PROVE OnItsWay' /\ Forgotten'
  OBVIOUS
<1> USE AccessAssumption DEF TypeOK, OnItsWay, Forgotten, server, client
<1>1. ASSUME NEW c \in Calls, Token(c) \/ Lock(c) PROVE OnItsWay' /\ Forgotten'
  BY <1>1 DEF Token, Lock, Usable, Carry, Goto
<1>2. ASSUME NEW c \in Calls, Issue(c) PROVE OnItsWay' /\ Forgotten'
  <2>1. issued' = issued + 1 /\ UNCHANGED <<cached, refused>>
    BY <1>2 DEF Issue, Carry
  <2>2. \A b \in Calls : pc'[b] = (IF b = c THEN "issued" ELSE pc[b])
                         /\ token'[b] = (IF b = c THEN issued + 1 ELSE token[b])
    BY <1>2 DEF Issue, Carry
  <2>3. /\ cached <= issued
        /\ \A b \in Calls : token[b] <= issued /\ refused[b] <= issued
    OBVIOUS
  <2>4. OnItsWay'
    BY <2>1, <2>2, <2>3
  <2>5. QED BY <2>1, <2>2, <2>4
<1>3. ASSUME NEW c \in Calls, Store(c) PROVE OnItsWay' /\ Forgotten'
  BY <1>3 DEF Store, Carry
<1>4. ASSUME NEW c \in Calls, FetchFails(c) \/ Unauthorized(c) \/ Answer(c) \/ Raise429(c)
      PROVE  OnItsWay' /\ Forgotten'
  BY <1>4 DEF FetchFails, Unauthorized, Answer, Raise429, End, Goto
<1>5. ASSUME NEW c \in Calls, Invalidate(c) \/ Throttle(c) PROVE OnItsWay' /\ Forgotten'
  BY <1>5 DEF Invalidate, Throttle, Goto
<1>6. CASE Tick \/ Idle \/ UNCHANGED vars \/ \E t \in 1..issued : Revoke(t)
  BY <1>6 DEF Tick, Idle, vars, Revoke
<1>7. QED
  BY <1>1, <1>2, <1>3, <1>4, <1>5, <1>6 DEF Next, Step

LEMMA KnowledgeHolds == Spec => [](TypeOK /\ OnItsWay /\ Forgotten)
<1>1. Init => OnItsWay /\ Forgotten
  BY DEF Init, OnItsWay, Forgotten
<1>2. QED BY <1>1, KnowledgeKept, TypeCorrect, PTL DEF Spec

\* A call that was answered 401 never tries again with the token it was refused
\* with, whatever the other calls fetch, store and drop meanwhile (_request,
\* invalidate, token).
THEOREM RetriesUseAnotherToken == Spec => []RetryUsesAnotherToken
<1>1. Forgotten => RetryUsesAnotherToken
  BY DEF Forgotten, RetryUsesAnotherToken
<1>2. QED BY <1>1, KnowledgeHolds, PTL

-----------------------------------------------------------------------------
(* How long a token lasts.                                                 *)

\* The client believes in a token no longer than its life and the latency of the
\* answer that brought it, and takes one early enough for what is to come.
TimeInv ==
    /\ cached # 0 => expiresAt[cached] <= life[cached] + MaxLatency
    /\ \A c \in Calls :
          /\ pc[c] = "issued" =>
                /\ now <= since[c] + MaxLatency
                /\ life[token[c]] = since[c] + Lifetime
          /\ pc[c] = "sending" =>
                /\ now <= since[c] + MaxWait
                /\ since[c] + MaxWait < life[token[c]]

\* A call that takes the cached token takes it in time.
LEMMA TakenInTime ==
    ASSUME TypeOK, TimeInv, Usable
    PROVE  /\ cached \in 1..issued
           /\ now + MaxWait < life[cached]
<1>1. cached \in 1..issued /\ cached \in Tokens
  BY AccessAssumption DEF Usable, TypeOK, Tokens
<1>2. life[cached] \in Nat /\ expiresAt[cached] \in Nat /\ now \in Nat
  BY <1>1 DEF TypeOK
<1>3. QED BY <1>1, <1>2, AccessAssumption DEF Usable, IsExpiring, TimeInv

LEMMA TimeKept ==
    TypeOK /\ OnItsWay /\ Forgotten /\ TimeInv /\ [Next]_vars => TimeInv'
<1> SUFFICES ASSUME TypeOK, OnItsWay, Forgotten, TimeInv, [Next]_vars PROVE TimeInv'
  OBVIOUS
<1> USE AccessAssumption
<1>0. /\ now \in Nat /\ issued \in Nat
      /\ \A t \in Tokens : life[t] \in Nat /\ expiresAt[t] \in Nat
      /\ \A c \in Calls : since[c] \in Nat /\ token[c] \in 0..issued
      /\ 1..issued \subseteq Tokens
  BY Numbers DEF TypeOK, Tokens
<1>1. ASSUME NEW c \in Calls, UNCHANGED <<now, life, expiresAt, cached>>,
             Usable, Carry(c, "sending", cached)
      PROVE  TimeInv'
  BY <1>0, <1>1, TakenInTime DEF Carry, TimeInv, TypeOK
<1>2. ASSUME NEW c \in Calls, NEW stage \in {"waiting", "fetching", "token", "throttled",
                                             "returned", "failed"},
             UNCHANGED <<now, life, expiresAt>>, cached' \in {0, cached}, Goto(c, stage)
      PROVE  TimeInv'
  BY <1>0, <1>2 DEF Goto, TimeInv, TypeOK
<1>3. ASSUME NEW c \in Calls, Issue(c) PROVE TimeInv'
  <2>1. /\ issued' = issued + 1 /\ issued + 1 \in Tokens /\ UNCHANGED <<now, expiresAt, cached>>
        /\ \A t \in Tokens : life'[t] = IF t = issued + 1 THEN now + Lifetime ELSE life[t]
    BY <1>0, <1>3 DEF Issue, client, TypeOK, Tokens
  <2>2. \A b \in Calls : /\ pc'[b] = IF b = c THEN "issued" ELSE pc[b]
                         /\ token'[b] = IF b = c THEN issued + 1 ELSE token[b]
                         /\ since'[b] = IF b = c THEN now ELSE since[b]
    BY <1>3, <2>1 DEF Issue, Carry, TypeOK
  <2>3. \A b \in Calls : pc[b] \in {"issued", "sending"} =>
            token[b] \in Tokens /\ life'[token[b]] = life[token[b]]
    BY <1>0, <2>1 DEF OnItsWay, Forgotten
  <2>4. cached # 0 => cached \in Tokens /\ life'[cached] = life[cached]
    BY <1>0, <2>1 DEF TypeOK
  <2>5. life'[issued + 1] = now + Lifetime
    BY <2>1
  <2>6. QED BY <1>0, <2>1, <2>2, <2>3, <2>4, <2>5 DEF TimeInv
<1>4. ASSUME NEW c \in Calls, Store(c) PROVE TimeInv'
  <2>1. /\ token[c] \in Tokens /\ pc[c] = "issued"
        /\ now <= since[c] + MaxLatency
        /\ life[token[c]] = since[c] + Lifetime
    BY <1>0, <1>4 DEF Store, OnItsWay, TimeInv
  <2>2. /\ UNCHANGED <<now, life>> /\ cached' = token[c]
        /\ expiresAt'[token[c]] = now + Lifetime
    BY <1>4, <2>1 DEF Store, server, TypeOK
  <2>3. \A b \in Calls : /\ pc'[b] = IF b = c THEN "sending" ELSE pc[b]
                         /\ token'[b] = token[b]
                         /\ since'[b] = IF b = c THEN now ELSE since[b]
    BY <1>4 DEF Store, Carry, TypeOK
  <2>4. QED BY <1>0, <2>1, <2>2, <2>3 DEF TimeInv
<1>5. ASSUME NEW c \in Calls, Token(c) \/ Lock(c) PROVE TimeInv'
  BY <1>1, <1>2, <1>5 DEF Token, Lock, server, client
<1>6. ASSUME NEW c \in Calls,
             \/ FetchFails(c) \/ Unauthorized(c) \/ Answer(c) \/ Raise429(c)
             \/ Invalidate(c) \/ Throttle(c)
      PROVE  TimeInv'
  BY <1>2, <1>6
     DEF FetchFails, Unauthorized, Answer, Raise429, Invalidate, Throttle, End, server, client
<1>7. CASE Tick
  BY <1>0, <1>7 DEF Tick, Patience, TimeInv, server, client
<1>8. CASE Idle \/ UNCHANGED vars \/ \E t \in 1..issued : Revoke(t)
  BY <1>8 DEF Idle, vars, Revoke, TimeInv, server, client
<1>9. QED
  BY <1>3, <1>4, <1>5, <1>6, <1>7, <1>8 DEF Next, Step

\* When the skew covers the timeouts, no token ends between its being taken and
\* its reaching the API: a refusal means that the server withdrew it
\* (is_expiring, token, _request).
THEOREM TokensOutliveTheirWait == Spec => []TokenOutlivesItsWait
<1>1. Init => TimeInv
  BY DEF Init, TimeInv
<1>2. TypeOK /\ Forgotten /\ TimeInv => TokenOutlivesItsWait
  <2> SUFFICES ASSUME TypeOK, Forgotten, TimeInv, NEW c \in Calls, pc[c] = "sending"
               PROVE  now < life[token[c]]
    BY DEF TokenOutlivesItsWait
  <2>1. token[c] \in Tokens
    BY AccessAssumption DEF TypeOK, Forgotten, Tokens
  <2>2. now \in Nat /\ since[c] \in Nat /\ life[token[c]] \in Nat
    BY <2>1 DEF TypeOK
  <2>3. QED BY <2>2, AccessAssumption DEF TimeInv
<1>3. QED BY <1>1, <1>2, TimeKept, KnowledgeHolds, PTL DEF Spec

-----------------------------------------------------------------------------
(* How many tokens there are at a time.                                    *)

\* The tokens that the client would still use if it had not dropped them.
Spare == {t \in 1..issued : ~IsExpiring(t)} \ {cached}

\* Each was dropped by a call of its own; a call fetches only when there is no
\* token to use, and one that was never stored has no time of expiry.
SpareInv ==
    /\ Cardinality(Spare) <= drops
    /\ \A t \in Tokens : t > issued => expiresAt[t] = 0
    /\ \A c \in Calls : pc[c] \in {"fetching", "issued"} => ~Usable

\* There are finitely many tokens, and fewer among fewer.
LEMMA FewerSpare ==
    ASSUME TypeOK, NEW S, S \subseteq Spare
    PROVE  /\ IsFiniteSet(Spare) /\ IsFiniteSet(S)
           /\ Cardinality(S) \in Nat /\ Cardinality(Spare) \in Nat
           /\ Cardinality(S) <= Cardinality(Spare)
<1>1. issued \in Int /\ 1 \in Int
  BY Numbers DEF TypeOK
<1>2. IsFiniteSet(1..issued)
  BY <1>1, FS_Interval
<1>3. Spare \in SUBSET (1..issued) /\ S \in SUBSET Spare
  BY DEF Spare
<1>4. IsFiniteSet(Spare)
  BY <1>2, <1>3, FS_Subset
<1>5. IsFiniteSet(S) /\ Cardinality(S) <= Cardinality(Spare)
  BY <1>3, <1>4, FS_Subset
<1>6. QED BY <1>4, <1>5, FS_CardinalityType

LEMMA SpareKept ==
    TypeOK /\ TypeOK' /\ SpareInv /\ [Next]_vars => SpareInv'
<1> SUFFICES ASSUME TypeOK, TypeOK', SpareInv, [Next]_vars PROVE SpareInv'
  OBVIOUS
<1> USE Numbers DEF server, client
<1>0. /\ now \in Nat /\ issued \in Nat /\ drops \in Nat /\ cached \in 0..issued
      /\ expiresAt \in [Tokens -> Nat]
      /\ 1..issued \subseteq Tokens
  <2>1. /\ now \in Nat /\ issued \in 0..MaxTokens /\ drops \in Nat /\ cached \in 0..issued
        /\ expiresAt \in [Tokens -> Nat]
    BY DEF TypeOK
  <2>2. 1..issued \subseteq Tokens
    BY <2>1 DEF Tokens
  <2>3. QED BY <2>1, <2>2
<1>1. ASSUME Spare' \subseteq Spare, drops <= drops', drops' \in Nat
      PROVE  Cardinality(Spare') <= drops'
  <2>1. /\ Cardinality(Spare') \in Nat /\ Cardinality(Spare) \in Nat
        /\ Cardinality(Spare') <= Cardinality(Spare)
    BY <1>1, FewerSpare
  <2>2. QED BY <1>0, <1>1, <2>1 DEF SpareInv
<1>2. ASSUME UNCHANGED <<now, issued, cached, expiresAt, drops>>,
             \A b \in Calls : pc'[b] \in {"fetching", "issued"} =>
                 ~Usable \/ pc[b] \in {"fetching", "issued"}
      PROVE  SpareInv'
  <2>1. Spare' = Spare
    BY <1>2 DEF Spare, IsExpiring
  <2>2. Usable' = Usable
    BY <1>2 DEF Usable, IsExpiring
  <2>3. QED BY <1>2, <2>1, <2>2 DEF SpareInv
<1>3. ASSUME NEW c \in Calls, Token(c) \/ Lock(c) PROVE SpareInv'
  BY <1>2, <1>3 DEF Token, Lock, Carry, Goto, TypeOK
<1>4. ASSUME NEW c \in Calls, Issue(c) PROVE SpareInv'
  <2>1. /\ issued' = issued + 1 /\ issued + 1 \in Tokens
        /\ UNCHANGED <<now, cached, expiresAt, drops>>
    BY <1>0, <1>4 DEF Issue, Tokens
  <2>2. expiresAt[issued + 1] = 0
    BY <1>0, <2>1 DEF SpareInv
  <2>3. Spare' \subseteq Spare
    BY <1>0, <2>1, <2>2 DEF Spare, IsExpiring
  <2>4. \A b \in Calls : pc'[b] \in {"fetching", "issued"} => ~Usable'
    BY <1>4, <2>1 DEF Issue, Carry, Usable, IsExpiring, SpareInv, TypeOK
  <2>5. \A t \in Tokens : t > issued' => expiresAt'[t] = 0
    BY <1>0, <2>1 DEF SpareInv, Tokens
  <2>6. drops <= drops' /\ drops' \in Nat
    BY <1>0, <2>1
  <2>7. Cardinality(Spare') <= drops'
    BY <1>1, <2>3, <2>6
  <2>8. QED BY <2>4, <2>5, <2>7 DEF SpareInv
<1>5. ASSUME NEW c \in Calls, Store(c) PROVE SpareInv'
  <2>1. /\ UNCHANGED <<now, issued, drops>> /\ cached' = token[c]
        /\ token[c] \in 0..issued
        /\ \A t \in Tokens \ {token[c]} : expiresAt'[t] = expiresAt[t]
    BY <1>5 DEF Store, TypeOK
  <2>2. Spare' \subseteq {t \in 1..issued : ~IsExpiring(t)}
    BY <1>0, <2>1 DEF Spare, IsExpiring
  <2>3. cached = 0 \/ IsExpiring(cached)
    BY <1>5 DEF Store, SpareInv, Usable
  <2>4. Spare' \subseteq Spare
    BY <1>0, <2>2, <2>3 DEF Spare
  <2>5. \A b \in Calls : pc'[b] \notin {"fetching", "issued"}
    BY <1>5, AccessAssumption DEF Store, TypeOK
  <2>6. QED BY <1>0, <1>1, <2>1, <2>4, <2>5 DEF SpareInv
<1>6. ASSUME NEW c \in Calls,
             FetchFails(c) \/ Unauthorized(c) \/ Answer(c) \/ Raise429(c) \/ Throttle(c)
      PROVE  SpareInv'
  BY <1>2, <1>6
     DEF FetchFails, Unauthorized, Answer, Raise429, Throttle, End, Goto, TypeOK
<1>7. ASSUME NEW c \in Calls, Invalidate(c) PROVE SpareInv'
  <2>1. UNCHANGED <<now, issued, expiresAt>> /\ cached' = 0 /\ drops' = drops + 1
    BY <1>7 DEF Invalidate
  <2>2. Spare' \subseteq Spare \cup {cached}
    BY <2>1 DEF Spare, IsExpiring
  <2>3. Cardinality(Spare') <= Cardinality(Spare) + 1
    <3>1. /\ IsFiniteSet(Spare \cup {cached}) /\ Cardinality(Spare) \in Nat
          /\ Cardinality(Spare \cup {cached}) \in {Cardinality(Spare), Cardinality(Spare) + 1}
      BY FewerSpare, FS_AddElement
    <3>2. Cardinality(Spare') <= Cardinality(Spare \cup {cached})
      BY <2>2, <3>1, FS_Subset
    <3>3. IsFiniteSet(Spare')
      BY <2>2, <3>1, FS_Subset
    <3>4. Cardinality(Spare') \in Nat
      BY <3>3, FS_CardinalityType
    <3>5. QED BY <3>1, <3>2, <3>4
  <2>4. Cardinality(Spare') \in Nat /\ Cardinality(Spare) \in Nat
    <3>1. IsFiniteSet(Spare \cup {cached}) /\ Cardinality(Spare) \in Nat
      BY FewerSpare, FS_AddElement
    <3>2. QED BY <2>2, <3>1, FS_Subset, FS_CardinalityType
  <2>5. Cardinality(Spare') <= drops'
    BY <1>0, <2>1, <2>3, <2>4 DEF SpareInv
  <2>6. QED BY <2>1, <2>5 DEF SpareInv, Usable
<1>8. CASE Tick
  <2>1. now' = now + 1 /\ UNCHANGED <<issued, cached, expiresAt, drops, pc>>
    BY <1>8 DEF Tick
  <2>2. \A t \in Tokens : IsExpiring(t) => IsExpiring(t)'
    BY <1>0, <2>1 DEF IsExpiring
  <2>3. Spare' \subseteq Spare
    BY <1>0, <2>1, <2>2 DEF Spare
  <2>4. Usable' => Usable
    BY <1>0, <2>1, <2>2 DEF Usable, IsExpiring
  <2>5. QED BY <1>0, <1>1, <2>1, <2>3, <2>4 DEF SpareInv
<1>9. CASE Idle \/ UNCHANGED vars \/ \E t \in 1..issued : Revoke(t)
  BY <1>2, <1>9 DEF Idle, vars, Revoke
<1>10. QED
  BY <1>3, <1>4, <1>5, <1>6, <1>7, <1>8, <1>9 DEF Next, Step

\* Calls that find no token at the same time do not each fetch one: the client
\* never has two that it would use but for those that invalidate() dropped, for
\* any number of calls (token, the second look under the lock).
THEOREM TokensComeOneAtATime == Spec => []OneTokenAtATime
<1>1. Init => SpareInv
  <2> SUFFICES ASSUME Init PROVE SpareInv
    OBVIOUS
  <2>1. Spare = {}
    BY DEF Init, Spare
  <2>2. QED BY <2>1, FS_EmptySet DEF Init, SpareInv, Tokens, Usable
<1>2. TypeOK /\ SpareInv => OneTokenAtATime
  <2> SUFFICES ASSUME TypeOK, SpareInv PROVE OneTokenAtATime
    OBVIOUS
  <2> DEFINE Live == {t \in 1..issued : ~IsExpiring(t)}
  <2>1. Live \subseteq Spare \cup {cached}
    BY DEF Spare
  <2>2. /\ IsFiniteSet(Spare \cup {cached}) /\ Cardinality(Spare) \in Nat
        /\ Cardinality(Spare \cup {cached}) \in {Cardinality(Spare), Cardinality(Spare) + 1}
    BY FewerSpare, FS_AddElement
  <2>3. IsFiniteSet(Live) /\ Cardinality(Live) <= Cardinality(Spare \cup {cached})
    BY <2>1, <2>2, FS_Subset
  <2>4. Cardinality(Live) \in Nat /\ drops \in Nat
    BY <2>3, FS_CardinalityType DEF TypeOK
  <2>5. QED BY <2>2, <2>3, <2>4 DEF SpareInv, OneTokenAtATime
<1>3. QED BY <1>1, <1>2, SpareKept, TypeCorrect, PTL DEF Spec
=============================================================================
