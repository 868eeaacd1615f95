---------------------------- MODULE ClientProofs ----------------------------
(***************************************************************************)
(* What a browser holds on to over its life, for any number of tabs,       *)
(* tokens, runs, pages and failures: its session, the log of a run, and    *)
(* the conversation with an agent.                                         *)
(***************************************************************************)
EXTENDS AuthSessions, LogStreaming, LogPages, AgentLoop, TLAPS

-----------------------------------------------------------------------------
(* Sessions stay chains, and ended sessions stay ended, with or without Web  *)
(* Locks.  The lock of the presented row and the refusal of stale snapshots *)
(* are what the argument turns on: a transaction that holds the lock sees    *)
(* the row as it is.                                                         *)

\* What the argument needs to know of the variables' types.
SessionTypes ==
    /\ refreshTokens \in [Tokens -> TokenRow]
    /\ request \in [Requests -> Request]
    /\ jar \in Tokens \cup {NoToken}

\* The cookie, the requests and the rows name tokens that there are.
NoDangling ==
    /\ jar # NoToken => jar \in UsedTokens
    /\ \A r \in InFlight : request[r].token \in UsedTokens
    /\ \A t \in UsedTokens : refreshTokens[t].next # NoToken => refreshTokens[t].next \in UsedTokens
    /\ \A t \in UsedTokens : refreshTokens[t].family \in UsedTokens
    /\ \A t \in UsedTokens : refreshTokens[t].next # NoToken => ~refreshTokens[t].live

\* A row is locked by one transaction, which has seen it as it is.
LockedAsSeen ==
    \A r \in Requests : request[r].pc = "locked" =>
        /\ Presented(r) = refreshTokens[request[r].token]
        /\ \A q \in Requests : request[q].pc = "locked" /\ request[q].token = request[r].token => q = r

\* A request that rotated has a token to hand out.
RotatedHasNext ==
    \A r \in Requests : request[r].pc = "answered" /\ request[r].outcome = "rotated" =>
        refreshTokens[request[r].token].next # NoToken

ChainInv == SessionTypes /\ NoDangling /\ LockedAsSeen /\ RotatedHasNext /\ OneLivePerFamily

\* A step that revokes at most: it makes no token and takes no lock.
RevokesOnly ==
    \A t \in Tokens :
        /\ refreshTokens'[t].there = refreshTokens[t].there
        /\ refreshTokens'[t].family = refreshTokens[t].family
        /\ refreshTokens'[t].next = refreshTokens[t].next
        /\ refreshTokens'[t].live => refreshTokens[t].live

\* What such a step does to the requests, whose rows stay what they are while locked.
TakesNoLock ==
    \A r \in Requests : request'[r].pc = "locked" =>
        /\ request[r].pc = "locked" /\ request'[r].token = request[r].token
        /\ request'[r].seen = request[r].seen
        /\ refreshTokens'[request[r].token] = refreshTokens[request[r].token]

\* The cookie and the requests still name tokens that there are.
NamesUsed ==
    /\ jar' \in UsedTokens \cup {NoToken}
    /\ \A r \in InFlight' : request'[r].token \in UsedTokens

\* Nobody hands out a rotation that was not made.
HandsOutNone ==
    \A r \in Requests : request'[r].pc = "answered" /\ request'[r].outcome = "rotated" =>
        /\ request[r].pc = "answered" /\ request[r].outcome = "rotated"
        /\ request'[r].token = request[r].token

Calm == RevokesOnly /\ TakesNoLock /\ NamesUsed /\ HandsOutNone

-----------------------------------------------------------------------------
\* The facts about types that the steps need.
LEMMA TypeFacts ==
    /\ NoRequest \in Request /\ Over \in Request /\ NoSeen \in [Tokens -> TokenRow]
    /\ NoToken \notin Tokens
    /\ \A t \in Tokens : Root(t) \in TokenRow
<1>1. NoRow \in TokenRow /\ NoToken \notin Tokens /\ \A t \in Tokens : Root(t) \in TokenRow
  BY DEF NoRow, TokenRow, NoToken, Tokens, Root
<1>2. NoSeen \in [Tokens -> TokenRow]
  BY <1>1 DEF NoSeen
<1>3. NoRequest \in Request
  BY <1>2 DEF NoRequest, Request, RequestPcs, Outcomes
<1>4. Over \in Request
  BY <1>3 DEF Over, Request, RequestPcs, NoRequest
<1> QED BY <1>1, <1>2, <1>3, <1>4

\* A calm step keeps the invariant.
LEMMA CalmStep ==
    ASSUME ChainInv, Calm, SessionTypes'
    PROVE  ChainInv'
<1>1. UsedTokens' = UsedTokens
  BY DEF Calm, RevokesOnly, UsedTokens
<1>2. NoDangling'
  BY <1>1 DEF ChainInv, NoDangling, Calm, RevokesOnly, NamesUsed, UsedTokens
<1>3. OneLivePerFamily'
  BY <1>1 DEF ChainInv, OneLivePerFamily, Calm, RevokesOnly, UsedTokens
<1>4. LockedAsSeen'
  BY DEF ChainInv, LockedAsSeen, Calm, TakesNoLock, Presented
<1>5. RotatedHasNext'
  <2>1. \A r \in Requests : request'[r].pc = "answered" /\ request'[r].outcome = "rotated" =>
           request'[r].token \in Tokens
    BY DEF ChainInv, NoDangling, InFlight, Calm, HandsOutNone, UsedTokens
  <2> QED BY <2>1 DEF ChainInv, RotatedHasNext, Calm, HandsOutNone, RevokesOnly
<1> QED BY <1>2, <1>3, <1>4, <1>5 DEF ChainInv

\* Such a step brings no session back.
LEMMA CalmEnds ==
    ASSUME RevokesOnly, NEW f \in Tokens, \A t \in Family(f) : ~refreshTokens[t].live
    PROVE  \A t \in Family(f)' : ~refreshTokens'[t].live
BY DEF RevokesOnly, Family

-----------------------------------------------------------------------------
(* The steps that leave the table alone, and those of the browser. *)

\* A request that is replaced by one that is not locked and hands nothing out.
LEMMA RequestStep ==
    ASSUME ChainInv, UNCHANGED refreshTokens, NEW r \in Requests, NEW q \in Request,
           request' = [request EXCEPT ![r] = q],
           q.pc = "locked" => request[r].pc = "locked" /\ q.token = request[r].token /\ q.seen = request[r].seen,
           q.pc = "answered" /\ q.outcome = "rotated" =>
              request[r].pc = "answered" /\ request[r].outcome = "rotated" /\ q.token = request[r].token,
           q.pc \notin {"none", "over"} => q.token \in UsedTokens,
           jar' \in UsedTokens \cup {NoToken}
    PROVE  Calm /\ ChainInv'
<1>1. request' \in [Requests -> Request] /\ \A x \in Requests : request'[x] = IF x = r THEN q ELSE request[x]
  BY DEF ChainInv, SessionTypes
<1>2. SessionTypes'
  BY <1>1 DEF ChainInv, SessionTypes, UsedTokens
<1>3. Calm
  BY <1>1 DEF Calm, RevokesOnly, TakesNoLock, NamesUsed, HandsOutNone, ChainInv, NoDangling, InFlight
<1> QED BY <1>2, <1>3, CalmStep

\* The cookie names a token, if there is one.
LEMMA JarUsed == ASSUME ChainInv PROVE jar \in UsedTokens \cup {NoToken}
BY DEF ChainInv, NoDangling

\* Steps that leave table, cookie and requests alone.
LEMMA IdleStep ==
    ASSUME ChainInv, UNCHANGED <<refreshTokens, jar, request>>
    PROVE  Calm /\ ChainInv'
<1>1. Calm
  BY JarUsed DEF Calm, RevokesOnly, TakesNoLock, NamesUsed, HandsOutNone, ChainInv, NoDangling, InFlight
<1>2. SessionTypes'
  BY DEF ChainInv, SessionTypes
<1> QED BY <1>1, <1>2, CalmStep

\* A tab asks for a new token.
LEMMA SendRefreshStep ==
    ASSUME ChainInv, NEW i \in Tabs, SendRefresh(i)
    PROVE  Calm /\ ChainInv'
<1>1. CASE jar = NoToken
  BY <1>1, IdleStep DEF SendRefresh
<1>2. CASE jar # NoToken
  <2>1. PICK r \in Requests :
           request' = [request EXCEPT ![r] = [NoRequest EXCEPT !.pc = "sent", !.tab = {i}, !.token = jar]]
    BY <1>2 DEF SendRefresh
  <2> DEFINE q == [NoRequest EXCEPT !.pc = "sent", !.tab = {i}, !.token = jar]
  <2>2. q \in Request /\ q.pc = "sent" /\ q.token = jar
    BY TypeFacts DEF ChainInv, SessionTypes, NoRequest, Request, RequestPcs
  <2>3. jar \in UsedTokens /\ UNCHANGED <<refreshTokens, jar>>
    BY <1>2 DEF ChainInv, NoDangling, SendRefresh
  <2> HIDE DEF q
  <2>4. request' = [request EXCEPT ![r] = q]
    BY <2>1 DEF q
  <2> QED BY <2>2, <2>3, <2>4, RequestStep
<1> QED BY <1>1, <1>2

\* A tab logs out.
LEMMA SendLogoutStep ==
    ASSUME ChainInv, SendLogout
    PROVE  Calm /\ ChainInv'
<1>1. PICK r \in Requests :
         request' = [request EXCEPT ![r] = [NoRequest EXCEPT !.pc = "sent", !.logout = TRUE, !.token = jar]]
  BY DEF SendLogout
<1> DEFINE q == [NoRequest EXCEPT !.pc = "sent", !.logout = TRUE, !.token = jar]
<1>2. q \in Request /\ q.pc = "sent" /\ q.token = jar
  BY TypeFacts DEF ChainInv, SessionTypes, NoRequest, Request, RequestPcs
<1>3. jar \in UsedTokens /\ UNCHANGED <<refreshTokens, jar>>
  BY DEF ChainInv, NoDangling, SendLogout
<1> HIDE DEF q
<1>4. request' = [request EXCEPT ![r] = q]
  BY <1>1 DEF q
<1> QED BY <1>2, <1>3, <1>4, RequestStep

\* A tab has its answer.
LEMMA AnswerStep ==
    ASSUME ChainInv, NEW r \in Requests, Answer(r)
    PROVE  Calm /\ ChainInv'
<1>1. Over \in Request /\ Over.pc = "over"
  BY TypeFacts DEF Over, NoRequest
<1>2. jar' \in UsedTokens \cup {NoToken}
  <2>1. CASE request[r].heard /\ request[r].outcome = "rotated"
    <3>1. jar' = refreshTokens[request[r].token].next /\ request[r].pc = "answered"
      BY <2>1 DEF Answer
    <3>2. request[r].token \in UsedTokens /\ refreshTokens[request[r].token].next # NoToken
      BY <2>1, <3>1 DEF ChainInv, NoDangling, InFlight, RotatedHasNext
    <3> QED BY <3>1, <3>2 DEF ChainInv, NoDangling
  <2>2. CASE ~(request[r].heard /\ request[r].outcome = "rotated")
    BY <2>2, JarUsed DEF Answer
  <2> QED BY <2>1, <2>2
<1>3. request' = [request EXCEPT ![r] = Over] /\ UNCHANGED refreshTokens
  BY DEF Answer
<1> QED BY <1>1, <1>2, <1>3, RequestStep

\* An answer is lost.
LEMMA LoseStep ==
    ASSUME ChainInv, NEW r \in Requests, Lose(r)
    PROVE  Calm /\ ChainInv'
<1>1. request[r] \in Request /\ r \in InFlight /\ UNCHANGED <<refreshTokens, jar>>
  BY DEF ChainInv, SessionTypes, Lose
<1>2. CASE request' = [request EXCEPT ![r] = Over]
  BY <1>1, <1>2, JarUsed, TypeFacts, RequestStep DEF Over, NoRequest
<1>3. CASE request' = [request EXCEPT ![r].heard = FALSE]
  <2> DEFINE q == [request[r] EXCEPT !.heard = FALSE]
  <2>1. q \in Request /\ q.pc = request[r].pc /\ q.token = request[r].token /\ q.seen = request[r].seen
        /\ q.outcome = request[r].outcome
    BY <1>1 DEF Request
  <2>2. request' = [request EXCEPT ![r] = q]
    BY <1>3
  <2>3. request[r].token \in UsedTokens
    BY <1>1 DEF ChainInv, NoDangling
  <2> HIDE DEF q
  <2> QED BY <1>1, <2>1, <2>2, <2>3, JarUsed, RequestStep
<1> QED BY <1>2, <1>3 DEF Lose
-----------------------------------------------------------------------------
(* The transactions that leave the table alone. *)

\* A transaction that moves on, and locks a row only when nobody has it and it
\* has seen it as it is.
LEMMA TransactionStep ==
    ASSUME ChainInv, UNCHANGED <<refreshTokens, jar>>, NEW r \in InFlight, NEW q \in Request,
           request' = [request EXCEPT ![r] = q], q.token = request[r].token,
           q.pc = "locked" => ~Locked(q.token) /\ q.seen[q.token] = refreshTokens[q.token],
           q.pc = "answered" => q.outcome # "rotated"
    PROVE  RevokesOnly /\ ChainInv'
<1>1. /\ r \in Requests /\ request' \in [Requests -> Request]
      /\ \A x \in Requests : request'[x] = IF x = r THEN q ELSE request[x]
  BY DEF ChainInv, SessionTypes, InFlight
<1>2. RevokesOnly /\ SessionTypes'
  BY <1>1 DEF RevokesOnly, ChainInv, SessionTypes
<1>3. NoDangling'
  BY <1>1 DEF ChainInv, NoDangling, InFlight, UsedTokens
<1>4. LockedAsSeen'
  BY <1>1 DEF ChainInv, LockedAsSeen, Locked, Presented
<1>5. RotatedHasNext'
  BY <1>1 DEF ChainInv, RotatedHasNext
<1>6. OneLivePerFamily'
  BY DEF ChainInv, OneLivePerFamily, UsedTokens
<1> QED BY <1>2, <1>3, <1>4, <1>5, <1>6 DEF ChainInv

\* The presented token of a request under way is one of the table.
LEMMA TokenUsed ==
    ASSUME ChainInv, NEW r \in InFlight
    PROVE  request[r].token \in UsedTokens /\ request[r] \in Request /\ r \in Requests
BY DEF ChainInv, NoDangling, SessionTypes, InFlight

\* A transaction presents its token, and waits for the row or has it.
LEMMA TxSelectStep ==
    ASSUME ChainInv, NEW r \in Requests, TxSelect(r)
    PROVE  RevokesOnly /\ ChainInv'
<1> DEFINE q == [request[r] EXCEPT !.pc = IF Locked(request[r].token) THEN "waiting" ELSE "locked",
                                   !.seen = refreshTokens]
<1>1. r \in InFlight /\ UNCHANGED <<refreshTokens, jar>>
  BY DEF TxSelect, InFlight
<1>2. request[r] \in Request /\ refreshTokens \in [Tokens -> TokenRow]
  BY DEF ChainInv, SessionTypes
<1>3. /\ q \in Request /\ q.token = request[r].token /\ q.seen = refreshTokens
      /\ q.pc = IF Locked(request[r].token) THEN "waiting" ELSE "locked"
  BY <1>2 DEF Request, RequestPcs
<1>4. request' = [request EXCEPT ![r] = q]
  BY DEF TxSelect
<1> HIDE DEF q
<1> QED BY <1>1, <1>3, <1>4, TransactionStep

\* A transaction that is refused goes back to its start or ends with an error.
LEMMA RefuseStep ==
    ASSUME ChainInv, NEW r \in InFlight, Refuse(r), UNCHANGED <<refreshTokens, jar>>
    PROVE  RevokesOnly /\ ChainInv'
<1> DEFINE q == IF request[r].retried
                THEN [request[r] EXCEPT !.pc = "answered", !.seen = NoSeen, !.outcome = "error"]
                ELSE [request[r] EXCEPT !.pc = "sent", !.seen = NoSeen, !.retried = TRUE]
<1>1. request[r] \in Request
  BY TokenUsed
<1>2. /\ q \in Request /\ q.token = request[r].token /\ q.pc # "locked"
      /\ q.pc = "answered" => q.outcome # "rotated"
  BY <1>1, TypeFacts DEF Request, RequestPcs, Outcomes
<1>3. request' = [request EXCEPT ![r] = q]
  BY DEF Refuse
<1> HIDE DEF q
<1> QED BY <1>2, <1>3, TransactionStep

\* A transaction that waited has the row, or is refused.
LEMMA TxWakeStep ==
    ASSUME ChainInv, NEW r \in Requests, TxWake(r)
    PROVE  RevokesOnly /\ ChainInv'
<1>1. r \in InFlight /\ UNCHANGED <<refreshTokens, jar>>
  BY DEF TxWake, InFlight
<1>2. CASE Refuse(r)
  BY <1>1, <1>2, RefuseStep
<1>3. CASE /\ refreshTokens[request[r].token] = request[r].seen[request[r].token]
           /\ request' = [request EXCEPT ![r].pc = "locked"]
  <2> DEFINE q == [request[r] EXCEPT !.pc = "locked"]
  <2>1. q \in Request /\ q.token = request[r].token /\ q.seen = request[r].seen /\ q.pc = "locked"
    BY <1>1, TokenUsed DEF Request, RequestPcs
  <2>2. request' = [request EXCEPT ![r] = q] /\ ~Locked(request[r].token)
    BY <1>3 DEF TxWake
  <2> HIDE DEF q
  <2> QED BY <1>1, <1>3, <2>1, <2>2, TransactionStep
<1> QED BY <1>2, <1>3 DEF TxWake

\* The end of a transaction that wrote nothing.
LEMMA TxReplayStep ==
    ASSUME ChainInv, NEW r \in Requests, TxReplay(r)
    PROVE  RevokesOnly /\ ChainInv'
<1> DEFINE q == [request[r] EXCEPT !.pc = "answered", !.seen = NoSeen, !.outcome = "replayed"]
<1>1. r \in InFlight /\ UNCHANGED <<refreshTokens, jar>>
  BY DEF TxReplay, InFlight
<1>2. q \in Request /\ q.token = request[r].token /\ q.pc = "answered" /\ q.outcome = "replayed"
  BY <1>1, TokenUsed, TypeFacts DEF Request, RequestPcs, Outcomes
<1>3. request' = [request EXCEPT ![r] = q]
  BY DEF TxReplay, EndTx
<1> HIDE DEF q
<1> QED BY <1>1, <1>2, <1>3, TransactionStep

-----------------------------------------------------------------------------
(* The steps that revoke. *)

\* A request under way that ends, having changed no row that another one holds.
LEMMA RevokeStep ==
    ASSUME ChainInv, NEW r \in InFlight, NEW q \in Request, RevokesOnly, UNCHANGED jar,
           request' = [request EXCEPT ![r] = q], refreshTokens' \in [Tokens -> TokenRow],
           q.pc = "answered", q.outcome # "rotated", q.token = request[r].token,
           \A x \in Requests : x # r /\ request[x].pc = "locked" =>
               refreshTokens'[request[x].token] = refreshTokens[request[x].token]
    PROVE  ChainInv'
<1>1. /\ r \in Requests /\ request' \in [Requests -> Request]
      /\ \A x \in Requests : request'[x] = IF x = r THEN q ELSE request[x]
  BY DEF ChainInv, SessionTypes, InFlight
<1>2. TakesNoLock
  BY <1>1 DEF TakesNoLock
<1>3. NamesUsed
  <2>1. jar' \in UsedTokens \cup {NoToken}
    BY JarUsed
  <2> QED BY <1>1, <2>1 DEF NamesUsed, ChainInv, NoDangling, InFlight
<1>4. HandsOutNone
  BY <1>1 DEF HandsOutNone
<1>5. SessionTypes'
  BY <1>1 DEF ChainInv, SessionTypes
<1> QED BY <1>2, <1>3, <1>4, <1>5, CalmStep DEF Calm

\* A session is ended.
LEMMA LogoutStep ==
    ASSUME ChainInv, NEW r \in Requests, Logout(r)
    PROVE  RevokesOnly /\ ChainInv'
<1> DEFINE t == request[r].token
           q == [request[r] EXCEPT !.pc = "answered", !.outcome = "loggedOut"]
<1>1. r \in InFlight /\ UNCHANGED jar
  BY DEF Logout, InFlight
<1>2. t \in Tokens /\ t \in UsedTokens
  BY <1>1, TokenUsed DEF UsedTokens
<1>3. refreshTokens' = [refreshTokens EXCEPT ![t].live = FALSE] /\ ~Locked(t)
  BY DEF Logout
<1>4. RevokesOnly /\ refreshTokens' \in [Tokens -> TokenRow]
      /\ \A u \in Tokens : u # t => refreshTokens'[u] = refreshTokens[u]
  BY <1>2, <1>3 DEF RevokesOnly, ChainInv, SessionTypes, TokenRow
<1>5. q \in Request /\ q.token = t /\ q.pc = "answered" /\ q.outcome = "loggedOut"
  BY <1>1, TokenUsed DEF Request, RequestPcs, Outcomes
<1>6. request' = [request EXCEPT ![r] = q]
  BY DEF Logout
<1>7. \A x \in Requests : request[x].pc = "locked" => request[x].token \in Tokens /\ request[x].token # t
  BY <1>3, TokenUsed DEF Locked, InFlight, UsedTokens
<1> HIDE DEF q, t
<1>8. t = request[r].token
  BY DEF t
<1> QED BY <1>1, <1>4, <1>5, <1>6, <1>7, <1>8, RevokeStep

\* A token that was presented twice ends its family.
LEMMA TxTheftStep ==
    ASSUME ChainInv, NEW r \in Requests, TxTheft(r)
    PROVE  RevokesOnly /\ ChainInv'
<1> DEFINE live == {t \in Family(Presented(r).family) : refreshTokens[t].live}
           q == [request[r] EXCEPT !.pc = "answered", !.seen = NoSeen, !.outcome = "theft"]
<1>1. r \in InFlight /\ UNCHANGED jar
  BY DEF TxTheft, InFlight
<1>2. CASE Refuse(r) /\ UNCHANGED refreshTokens
  BY <1>1, <1>2, RefuseStep
<1>3. CASE /\ refreshTokens' = [t \in Tokens |-> IF t \in live THEN [refreshTokens[t] EXCEPT !.live = FALSE]
                                                  ELSE refreshTokens[t]]
           /\ EndTx(r, "theft")
  <2>1. RevokesOnly /\ refreshTokens' \in [Tokens -> TokenRow]
        /\ \A u \in Tokens : u \notin live => refreshTokens'[u] = refreshTokens[u]
    <3> HIDE DEF live
    <3> QED BY <1>3 DEF RevokesOnly, ChainInv, SessionTypes, TokenRow
  <2>2. \A t \in live : ~Locked(t)
    BY DEF TxTheft
  <2>3. \A x \in Requests : request[x].pc = "locked" =>
           refreshTokens'[request[x].token] = refreshTokens[request[x].token]
    <3> HIDE DEF live
    <3> QED BY <2>1, <2>2, TokenUsed DEF Locked, InFlight, UsedTokens
  <2>4. q \in Request /\ q.token = request[r].token /\ q.pc = "answered" /\ q.outcome = "theft"
    BY <1>1, TokenUsed, TypeFacts DEF Request, RequestPcs, Outcomes
  <2>5. request' = [request EXCEPT ![r] = q]
    BY <1>3 DEF EndTx
  <2> HIDE DEF q
  <2> QED BY <1>1, <2>1, <2>3, <2>4, <2>5, RevokeStep
<1> QED BY <1>2, <1>3 DEF TxTheft
-----------------------------------------------------------------------------
(* The steps that make a token. *)

\* A session has no token before its root.
LEMMA NoFamilyYet ==
    ASSUME ChainInv, NEW t \in Tokens, t \notin UsedTokens
    PROVE  Family(t) = {}
BY DEF ChainInv, NoDangling, Family, UsedTokens

\* What a rotation writes.
LEMMA RotationWrites ==
    ASSUME ChainInv, NEW r \in Requests, TxRotate(r)
    PROVE  \E t \in Tokens :
              /\ t \notin UsedTokens /\ request[r].token # t
              /\ refreshTokens' \in [Tokens -> TokenRow]
              /\ refreshTokens[request[r].token].live
              /\ refreshTokens'[t] = [there |-> TRUE, family |-> refreshTokens[request[r].token].family,
                                      live |-> TRUE, next |-> NoToken]
              /\ refreshTokens'[request[r].token] =
                    [refreshTokens[request[r].token] EXCEPT !.live = FALSE, !.next = t]
              /\ \A u \in Tokens : u # t /\ u # request[r].token => refreshTokens'[u] = refreshTokens[u]
<1> DEFINE p == request[r].token
<1>1. r \in InFlight /\ request[r].pc = "locked" /\ Presented(r).live
  BY DEF TxRotate, InFlight
<1>2. p \in UsedTokens /\ p \in Tokens
  BY <1>1, TokenUsed DEF UsedTokens
<1>3. Presented(r) = refreshTokens[p]
  BY <1>1 DEF ChainInv, LockedAsSeen
<1>4. PICK t \in Tokens :
         /\ NextToken(t)
         /\ refreshTokens' = [refreshTokens EXCEPT
                                ![t] = [there |-> TRUE, family |-> Presented(r).family, live |-> TRUE, next |-> NoToken],
                                ![p].live = FALSE, ![p].next = t]
  BY DEF TxRotate
<1>5. t \notin UsedTokens /\ p # t
  BY <1>2, <1>4 DEF NextToken
<1>6. refreshTokens \in [Tokens -> TokenRow] /\ refreshTokens[p] \in TokenRow
  BY <1>2 DEF ChainInv, SessionTypes
<1> DEFINE fresh == [there |-> TRUE, family |-> Presented(r).family, live |-> TRUE, next |-> NoToken]
           ended == [refreshTokens[p] EXCEPT !.live = FALSE, !.next = t]
<1>7. fresh \in TokenRow /\ ended \in TokenRow
  BY <1>3, <1>6 DEF TokenRow
<1>8. refreshTokens' = [refreshTokens EXCEPT ![t] = fresh, ![p] = ended]
  BY <1>2, <1>4, <1>5, <1>6 DEF TokenRow
<1> HIDE DEF fresh, ended, p
<1>9. /\ refreshTokens' \in [Tokens -> TokenRow] /\ refreshTokens'[t] = fresh /\ refreshTokens'[p] = ended
      /\ \A u \in Tokens : u # t /\ u # p => refreshTokens'[u] = refreshTokens[u]
  BY <1>2, <1>5, <1>6, <1>7, <1>8
<1> USE DEF fresh, ended, p
<1> QED BY <1>1, <1>3, <1>5, <1>9

\* A token is replaced by the next of its family.
LEMMA TxRotateStep ==
    ASSUME ChainInv, NEW r \in Requests, TxRotate(r)
    PROVE  ChainInv'
<1> DEFINE p == request[r].token
           q == [request[r] EXCEPT !.pc = "answered", !.seen = NoSeen, !.outcome = "rotated"]
<1>1. PICK t \in Tokens :
         /\ t \notin UsedTokens /\ p # t
         /\ refreshTokens' \in [Tokens -> TokenRow]
         /\ refreshTokens[p].live
         /\ refreshTokens'[t] = [there |-> TRUE, family |-> refreshTokens[p].family,
                                 live |-> TRUE, next |-> NoToken]
         /\ refreshTokens'[p] = [refreshTokens[p] EXCEPT !.live = FALSE, !.next = t]
         /\ \A u \in Tokens : u # t /\ u # p => refreshTokens'[u] = refreshTokens[u]
  BY RotationWrites
<1>2. r \in InFlight /\ request[r].pc = "locked" /\ UNCHANGED jar
  BY DEF TxRotate, InFlight
<1>3. p \in UsedTokens /\ p \in Tokens /\ refreshTokens[p] \in TokenRow
  BY <1>2, TokenUsed DEF UsedTokens, ChainInv, SessionTypes
<1>4. q \in Request /\ q.token = p /\ q.pc = "answered"
  BY <1>2, TokenUsed, TypeFacts DEF Request, RequestPcs, Outcomes
<1>5. request' = [request EXCEPT ![r] = q]
  BY DEF TxRotate, EndTx
<1>6. /\ request' \in [Requests -> Request] /\ \A x \in Requests : x # r => request'[x] = request[x]
      /\ request'[r] = q
  BY <1>4, <1>5 DEF ChainInv, SessionTypes
<1>7. /\ refreshTokens'[p].there = refreshTokens[p].there
      /\ refreshTokens'[p].family = refreshTokens[p].family
      /\ refreshTokens'[p].live = FALSE /\ refreshTokens'[p].next = t
  BY <1>1, <1>3 DEF TokenRow
<1> HIDE DEF p, q
<1>8. p = request[r].token
  BY DEF p
<1>9. UsedTokens' = UsedTokens \cup {t}
  <2>1. refreshTokens'[t].there
    BY <1>1
  <2>2. \A u \in Tokens : u # t => refreshTokens'[u].there = refreshTokens[u].there
    BY <1>1, <1>7
  <2> QED BY <2>1, <2>2 DEF UsedTokens
<1>10. SessionTypes'
  BY <1>1, <1>2, <1>6 DEF ChainInv, SessionTypes
<1>11. NoDangling'
  <2>1. jar' # NoToken => jar' \in UsedTokens'
    BY <1>2, <1>9 DEF ChainInv, NoDangling
  <2>2. \A x \in InFlight' : request'[x].token \in UsedTokens'
    BY <1>2, <1>3, <1>4, <1>6, <1>9 DEF ChainInv, NoDangling, InFlight
  <2>3. ASSUME NEW u \in UsedTokens'
        PROVE  /\ refreshTokens'[u].next # NoToken => refreshTokens'[u].next \in UsedTokens'
               /\ refreshTokens'[u].family \in UsedTokens'
               /\ refreshTokens'[u].next # NoToken => ~refreshTokens'[u].live
    <3>1. CASE u = t
      <4>1. refreshTokens'[t].next = NoToken /\ refreshTokens'[t].family = refreshTokens[p].family
        BY <1>1
      <4> QED BY <1>3, <1>9, <3>1, <4>1 DEF ChainInv, NoDangling
    <3>2. CASE u = p
      BY <1>3, <1>7, <1>9, <3>2 DEF ChainInv, NoDangling
    <3>3. CASE u # t /\ u # p
      <4>1. u \in UsedTokens /\ refreshTokens'[u] = refreshTokens[u]
        BY <1>1, <1>9, <3>3 DEF UsedTokens
      <4> QED BY <1>9, <4>1 DEF ChainInv, NoDangling
    <3> QED BY <3>1, <3>2, <3>3
  <2> QED BY <2>1, <2>2, <2>3 DEF NoDangling
<1>12. LockedAsSeen'
  <2>1. \A x \in Requests : request'[x].pc = "locked" => x # r /\ request'[x] = request[x]
    BY <1>4, <1>6
  <2>2. \A x \in Requests : request'[x].pc = "locked" =>
           request[x].token # p /\ request[x].token # t /\ request[x].token \in Tokens
    BY <1>1, <1>2, <1>8, <2>1, TokenUsed DEF ChainInv, LockedAsSeen, InFlight, UsedTokens
  <2> QED BY <1>1, <2>1, <2>2 DEF ChainInv, LockedAsSeen, Presented
<1>13. RotatedHasNext'
  <2>1. ASSUME NEW x \in Requests, request'[x].pc = "answered", request'[x].outcome = "rotated"
        PROVE  refreshTokens'[request'[x].token].next # NoToken
    <3>1. CASE x = r
      BY <1>1, <1>4, <1>6, <1>7, <3>1, TypeFacts DEF NoToken
    <3>2. CASE x # r
      <4>1. request'[x] = request[x] /\ x \in InFlight
        BY <1>6, <2>1, <3>2 DEF InFlight
      <4>2. /\ request[x].token \in UsedTokens /\ request[x].token \in Tokens
            /\ refreshTokens[request[x].token].next # NoToken
        BY <2>1, <4>1, TokenUsed DEF ChainInv, RotatedHasNext, UsedTokens
      <4>3. CASE request[x].token = p
        BY <1>7, <4>1, <4>3, TypeFacts
      <4>4. CASE request[x].token # p
        <5>1. refreshTokens'[request[x].token] = refreshTokens[request[x].token]
          BY <1>1, <4>2, <4>4
        <5> QED BY <4>1, <4>2, <5>1
      <4> QED BY <4>3, <4>4
    <3> QED BY <3>1, <3>2
  <2> QED BY <2>1 DEF RotatedHasNext
<1>14. OneLivePerFamily'
  <2>1. ASSUME NEW u \in UsedTokens', refreshTokens'[u].live, u # t
        PROVE  /\ u \in UsedTokens /\ u # p /\ refreshTokens'[u] = refreshTokens[u]
               /\ refreshTokens'[u].family # refreshTokens'[t].family
    <3>1. u \in UsedTokens /\ u # p /\ refreshTokens'[u] = refreshTokens[u]
      BY <1>1, <1>7, <1>9, <2>1 DEF UsedTokens
    <3>2. refreshTokens'[t].family = refreshTokens[p].family
      BY <1>1
    <3> QED BY <1>1, <1>3, <2>1, <3>1, <3>2 DEF ChainInv, OneLivePerFamily
  <2> QED BY <2>1 DEF ChainInv, OneLivePerFamily
<1> QED BY <1>10, <1>11, <1>12, <1>13, <1>14 DEF ChainInv

\* What a login writes.
LEMMA LoginWrites ==
    ASSUME ChainInv, Login
    PROVE  \E t \in Tokens :
              /\ t \notin UsedTokens /\ jar' = t
              /\ refreshTokens' = [refreshTokens EXCEPT ![t] = Root(t)]
              /\ refreshTokens' \in [Tokens -> TokenRow]
              /\ \A u \in Tokens : u # t => refreshTokens'[u] = refreshTokens[u]
              /\ refreshTokens'[t] = Root(t)
BY TypeFacts DEF Login, NextToken, ChainInv, SessionTypes

\* A new session.
LEMMA LoginStep ==
    ASSUME ChainInv, Login
    PROVE  ChainInv'
<1>1. PICK t \in Tokens :
         /\ t \notin UsedTokens /\ jar' = t
         /\ refreshTokens' \in [Tokens -> TokenRow]
         /\ \A u \in Tokens : u # t => refreshTokens'[u] = refreshTokens[u]
         /\ refreshTokens'[t] = Root(t)
  BY LoginWrites
<1>2. UNCHANGED request
  BY DEF Login
<1>3. UsedTokens' = UsedTokens \cup {t}
  BY <1>1 DEF UsedTokens, Root
<1>4. SessionTypes'
  BY <1>1, <1>2 DEF ChainInv, SessionTypes
<1>5. \A u \in UsedTokens : u \in Tokens /\ u # t /\ refreshTokens'[u] = refreshTokens[u]
  BY <1>1 DEF UsedTokens
<1>6. NoDangling'
  <2>1. \A x \in InFlight' : request'[x].token \in UsedTokens'
    BY <1>2, <1>3 DEF ChainInv, NoDangling, InFlight
  <2>2. \A u \in UsedTokens' :
           /\ refreshTokens'[u].next # NoToken => refreshTokens'[u].next \in UsedTokens'
           /\ refreshTokens'[u].family \in UsedTokens'
           /\ refreshTokens'[u].next # NoToken => ~refreshTokens'[u].live
    BY <1>1, <1>3, <1>5 DEF ChainInv, NoDangling, Root
  <2> QED BY <1>1, <1>3, <2>1, <2>2 DEF NoDangling
<1>7. LockedAsSeen'
  <2>1. \A x \in Requests : request[x].pc = "locked" => request[x].token \in UsedTokens
    BY TokenUsed DEF InFlight
  <2> QED BY <1>2, <1>5, <2>1 DEF ChainInv, LockedAsSeen, Presented
<1>8. RotatedHasNext'
  <2>1. \A x \in Requests : request[x].pc = "answered" => request[x].token \in UsedTokens
    BY TokenUsed DEF InFlight
  <2> QED BY <1>2, <1>5, <2>1 DEF ChainInv, RotatedHasNext
<1>9. OneLivePerFamily'
  <2>1. \A u \in UsedTokens : refreshTokens[u].family # t
    BY <1>1 DEF ChainInv, NoDangling
  <2> QED BY <1>1, <1>3, <1>5, <2>1 DEF ChainInv, OneLivePerFamily, Root
<1> QED BY <1>4, <1>6, <1>7, <1>8, <1>9 DEF ChainInv
-----------------------------------------------------------------------------
(* All steps. *)

\* A step makes a token, at its login or rotation, or revokes at most.
LEMMA StepKinds ==
    ASSUME ChainInv, [AuthNext]_authVars
    PROVE  /\ ChainInv'
           /\ RevokesOnly \/ Login \/ \E r \in Requests : TxRotate(r)
<1>1. CASE UNCHANGED authVars
  BY <1>1, IdleStep DEF authVars, Calm
<1>2. ASSUME NEW i \in Tabs, StartRefresh(i) PROVE ChainInv' /\ RevokesOnly
  BY <1>2, IdleStep DEF StartRefresh, Calm
<1>3. ASSUME NEW i \in Tabs, SendRefresh(i) PROVE ChainInv' /\ RevokesOnly
  BY <1>3, SendRefreshStep DEF Calm
<1>4. CASE SendLogout
  BY <1>4, SendLogoutStep DEF Calm
<1>5. CASE Login
  BY <1>5, LoginStep
<1>6. ASSUME NEW r \in Requests, Answer(r) PROVE ChainInv' /\ RevokesOnly
  BY <1>6, AnswerStep DEF Calm
<1>7. ASSUME NEW r \in Requests, Lose(r) PROVE ChainInv' /\ RevokesOnly
  BY <1>7, LoseStep DEF Calm
<1>8. ASSUME NEW r \in Requests, TxRefused(r) PROVE ChainInv' /\ RevokesOnly
  <2>1. r \in InFlight /\ Refuse(r) /\ UNCHANGED <<refreshTokens, jar>>
    BY <1>8 DEF TxRefused, InFlight
  <2> QED BY <2>1, RefuseStep
<1>9. ASSUME NEW r \in Requests, Serve(r)
      PROVE  ChainInv' /\ (RevokesOnly \/ \E q \in Requests : TxRotate(q))
  <2>1. CASE TxRotate(r)
    BY <2>1, TxRotateStep
  <2> QED BY <1>9, <2>1, TxSelectStep, TxWakeStep, TxReplayStep, TxTheftStep, LogoutStep DEF Serve
<1>10. ASSUME NEW t \in Tokens, GraceEnds(t) PROVE ChainInv' /\ RevokesOnly
  BY <1>10, IdleStep DEF GraceEnds, Calm
<1> QED BY <1>1, <1>2, <1>3, <1>4, <1>5, <1>6, <1>7, <1>8, <1>9, <1>10 DEF AuthNext

\* The session of the first login is a chain of one token.
LEMMA ChainInit == ASSUME AuthInit PROVE ChainInv
<1>1. 1 \in Tokens
  BY AuthAssumption DEF Tokens
<1>2. refreshTokens = [t \in Tokens |-> IF t = 1 THEN Root(1) ELSE NoRow] /\ jar = 1
      /\ request = [r \in Requests |-> NoRequest]
  BY DEF AuthInit
<1>3. NoRow \in TokenRow /\ ~NoRow.there
  BY DEF NoRow, TokenRow, NoToken
<1>4. SessionTypes
  BY <1>1, <1>2, <1>3, TypeFacts DEF SessionTypes
<1>5. UsedTokens = {1} /\ refreshTokens[1] = Root(1) /\ InFlight = {}
  BY <1>1, <1>2, <1>3 DEF UsedTokens, Root, InFlight, NoRequest
<1>6. NoDangling
  BY <1>2, <1>5 DEF NoDangling, Root
<1>7. LockedAsSeen /\ RotatedHasNext
  BY <1>2 DEF LockedAsSeen, RotatedHasNext, NoRequest
<1>8. OneLivePerFamily
  BY <1>5 DEF OneLivePerFamily
<1> QED BY <1>4, <1>6, <1>7, <1>8 DEF ChainInv

\* The invariant of all the following.
LEMMA ChainAlways == AuthSpec => []ChainInv
<1>1. ChainInv /\ [AuthNext]_authVars => ChainInv'
  BY StepKinds
<1> QED BY ChainInit, <1>1, PTL DEF AuthSpec

\* refreshOnce (auth.service.ts:99-227): however many tabs refresh, and whichever
\* of their transactions are refused and retried, one token of a session at most
\* is live.
THEOREM SessionIsChain == AuthSpec => []OneLivePerFamily
<1>1. ChainInv => OneLivePerFamily
  BY DEF ChainInv
<1> QED BY ChainAlways, <1>1, PTL

\* Only the logout of a request tells it that it is logged out.
LEMMA LogoutMarks ==
    ASSUME ChainInv, [AuthNext]_authVars, NEW r \in Requests,
           request[r].outcome # "loggedOut", request'[r].outcome = "loggedOut"
    PROVE  Logout(r)
<1>1. \A q \in Requests : DOMAIN request[q] = DOMAIN NoRequest /\ request[q] \in Request
  BY DEF ChainInv, SessionTypes, Request, NoRequest
<1>2. request \in [Requests -> Request]
  BY DEF ChainInv, SessionTypes
<1>3. CASE UNCHANGED authVars
  BY <1>3 DEF authVars
<1>4. ASSUME NEW i \in Tabs, StartRefresh(i) PROVE FALSE
  BY <1>4 DEF StartRefresh
<1>5. ASSUME NEW i \in Tabs, SendRefresh(i) PROVE FALSE
  BY <1>2, <1>5 DEF SendRefresh, NoRequest
<1>6. CASE SendLogout
  BY <1>2, <1>6 DEF SendLogout, NoRequest
<1>7. CASE Login
  BY <1>7 DEF Login
<1>8. ASSUME NEW q \in Requests, Answer(q) PROVE FALSE
  BY <1>2, <1>8 DEF Answer, Over, NoRequest
<1>9. ASSUME NEW q \in Requests, Lose(q) PROVE FALSE
  BY <1>2, <1>9 DEF Lose, Over, NoRequest, Request
<1>10. ASSUME NEW q \in Requests, Refuse(q) PROVE FALSE
  BY <1>2, <1>10 DEF Refuse, Request
<1>11. ASSUME NEW q \in Requests, TxRefused(q) PROVE FALSE
  BY <1>10, <1>11 DEF TxRefused
<1>12. ASSUME NEW q \in Requests, TxSelect(q) PROVE FALSE
  BY <1>2, <1>12 DEF TxSelect, Request
<1>13. ASSUME NEW q \in Requests, TxWake(q) PROVE FALSE
  BY <1>2, <1>10, <1>13 DEF TxWake, Request
<1>14. ASSUME NEW q \in Requests, TxRotate(q) \/ TxReplay(q) PROVE FALSE
  BY <1>2, <1>14 DEF TxRotate, TxReplay, EndTx, Request
<1>15. ASSUME NEW q \in Requests, TxTheft(q) PROVE FALSE
  BY <1>2, <1>10, <1>15 DEF TxTheft, EndTx, Request
<1>16. ASSUME NEW q \in Requests, Logout(q) PROVE q = r
  BY <1>2, <1>16 DEF Logout, Request
<1>17. ASSUME NEW t \in Tokens, GraceEnds(t) PROVE FALSE
  BY <1>17 DEF GraceEnds
<1> QED BY <1>3, <1>4, <1>5, <1>6, <1>7, <1>8, <1>9, <1>11, <1>12, <1>13, <1>14, <1>15, <1>16, <1>17
        DEF AuthNext, Serve

\* The logout of a live token leaves its session without one.
LEMMA LogoutEnds ==
    ASSUME ChainInv, NEW r \in Requests, Logout(r), refreshTokens[request[r].token].live
    PROVE  \A t \in Family(refreshTokens[request[r].token].family) : ~refreshTokens'[t].live
<1> DEFINE p == request[r].token
<1>1. p \in UsedTokens /\ p \in Tokens /\ refreshTokens \in [Tokens -> TokenRow]
  <2>1. r \in InFlight
    BY DEF Logout, InFlight
  <2> QED BY <2>1, TokenUsed DEF UsedTokens, ChainInv, SessionTypes
<1>2. refreshTokens' = [refreshTokens EXCEPT ![p].live = FALSE]
  BY DEF Logout
<1>3. refreshTokens[p].live
  OBVIOUS
<1> QED
  <2>1. SUFFICES ASSUME NEW t \in Family(refreshTokens[p].family)
                 PROVE  ~refreshTokens'[t].live
    OBVIOUS
  <2>2. CASE t = p
    BY <1>1, <1>2, <2>2 DEF TokenRow
  <2>3. CASE t # p
    <3>1. refreshTokens'[t] = refreshTokens[t]
      BY <1>1, <1>2, <2>3
    <3> QED BY <1>1, <1>3, <2>1, <2>3, <3>1 DEF ChainInv, OneLivePerFamily, UsedTokens, Family
  <2> QED BY <2>2, <2>3

\* refresh and logout (auth.service.ts:99-240): a logout that presents the live token
\* of a session leaves it without one, and a rotation that was under way gives none
\* to a session that a logout or a detected reuse left without.
THEOREM RevokedForGood == AuthSpec => RevokedStaysRevoked
<1>1. ASSUME ChainInv, [AuthNext]_authVars, NEW f \in Tokens, Family(f) # {},
             \A t \in Family(f) : ~refreshTokens[t].live
      PROVE  \A t \in Family(f)' : ~refreshTokens'[t].live
  <2>1. CASE RevokesOnly
    BY <1>1, <2>1, CalmEnds
  <2>2. CASE Login
    <3>1. PICK t \in Tokens :
             /\ t \notin UsedTokens
             /\ \A u \in Tokens : u # t => refreshTokens'[u] = refreshTokens[u]
             /\ refreshTokens'[t] = Root(t)
      BY <1>1, <2>2, LoginWrites
    <3>2. t # f
      BY <1>1, <3>1, NoFamilyYet
    <3> QED BY <1>1, <3>1, <3>2 DEF Family, Root
  <2>3. ASSUME NEW r \in Requests, TxRotate(r)
        PROVE  \A u \in Family(f)' : ~refreshTokens'[u].live
    <3> DEFINE p == request[r].token
    <3>1. PICK t \in Tokens :
             /\ t \notin UsedTokens /\ p # t
             /\ refreshTokens[p].live
             /\ refreshTokens'[t] = [there |-> TRUE, family |-> refreshTokens[p].family,
                                     live |-> TRUE, next |-> NoToken]
             /\ refreshTokens'[p] = [refreshTokens[p] EXCEPT !.live = FALSE, !.next = t]
             /\ \A u \in Tokens : u # t /\ u # p => refreshTokens'[u] = refreshTokens[u]
      BY <1>1, <2>3, RotationWrites
    <3>2. p \in UsedTokens /\ p \in Tokens /\ refreshTokens[p] \in TokenRow
      <4>1. r \in InFlight
        BY <2>3 DEF TxRotate, InFlight
      <4> QED BY <1>1, <4>1, TokenUsed DEF UsedTokens, ChainInv, SessionTypes
    <3> HIDE DEF p
    <3>3. refreshTokens[p].family # f
      BY <1>1, <3>1, <3>2 DEF Family, UsedTokens
    <3>4. ~refreshTokens'[p].live
      BY <3>1, <3>2 DEF TokenRow
    <3>5. t \notin Family(f)'
      BY <3>1, <3>3 DEF Family
    <3>6. ASSUME NEW u \in Family(f)' PROVE ~refreshTokens'[u].live
      <4>1. CASE u = p
        BY <3>4, <4>1
      <4>2. CASE u # p
        <5>1. u \in Tokens /\ refreshTokens'[u] = refreshTokens[u]
          BY <3>1, <3>5, <3>6, <4>2 DEF Family
        <5> QED BY <1>1, <3>6, <5>1 DEF Family
      <4> QED BY <4>1, <4>2
    <3> QED BY <3>6
  <2> QED BY <1>1, <2>1, <2>2, <2>3, StepKinds
<1>2. ASSUME ChainInv, [AuthNext]_authVars, NEW r \in Requests,
             request[r].outcome # "loggedOut", request'[r].outcome = "loggedOut",
             refreshTokens[request[r].token].live
      PROVE  \A t \in Family(refreshTokens[request[r].token].family) : ~refreshTokens'[t].live
  BY <1>2, LogoutMarks, LogoutEnds
<1>3. ChainInv /\ [AuthNext]_authVars =>
        [/\ \A f \in Tokens :
               Family(f) # {} /\ (\A t \in Family(f) : ~refreshTokens[t].live)
                  => \A t \in Family(f)' : ~refreshTokens'[t].live
         /\ \A r \in Requests :
               LET token == refreshTokens[request[r].token]
               IN request[r].outcome # "loggedOut" /\ request'[r].outcome = "loggedOut" /\ token.live
                     => \A t \in Family(token.family) : ~refreshTokens'[t].live]_authVars
  BY <1>1, <1>2
<1> QED BY ChainAlways, <1>3, PTL DEF AuthSpec, RevokedStaysRevoked

-----------------------------------------------------------------------------
(* No false alarm: a token that was replaced is still in its grace window    *)
(* whenever it is presented, unless an answer was lost.                      *)

\* A rotation that the browser has not heard of, and the token it hands out.
Rotating(r) == request[r].pc = "answered" /\ request[r].outcome = "rotated"
Handed(r) == refreshTokens[request[r].token].next

\* Every answer is awaited.  Who presents a replaced token presents it in time;
\* the cookie names one only until the rotation answers; and nobody has the token
\* that it hands out.
Untroubled ==
    /\ alarms = {}
    /\ \A r \in InFlight : request[r].heard
    /\ \A r \in InFlight : Handed(r) # NoToken => request[r].token \in recent
    /\ jar # NoToken => refreshTokens[jar].next = NoToken
                        \/ \E r \in Requests : Rotating(r) /\ request[r].token = jar
    /\ \A r \in Requests : Rotating(r) =>
          /\ jar # Handed(r) /\ refreshTokens[Handed(r)].next = NoToken
          /\ \A q \in InFlight : request[q].token # Handed(r)
          /\ \A q \in Requests : Rotating(q) /\ Handed(q) = Handed(r) => q = r

AlarmInv == lost \in Nat /\ (lost = 0 => Untroubled)

\* A rotation hands out a token of the table.
LEMMA HandedUsed ==
    ASSUME ChainInv, NEW r \in Requests, Rotating(r)
    PROVE  /\ r \in InFlight /\ request[r].token \in Tokens
           /\ Handed(r) \in UsedTokens /\ Handed(r) \in Tokens /\ Handed(r) # NoToken
<1>1. r \in InFlight
  BY DEF Rotating, InFlight
<1> QED BY <1>1, TokenUsed DEF Rotating, Handed, ChainInv, RotatedHasNext, NoDangling, UsedTokens

\* A request that moves on, while no token is replaced and the cookie stays.
LEMMA QuietStep ==
    ASSUME ChainInv, Untroubled, NEW r \in InFlight,
           \A x \in Requests : x # r => request'[x] = request[x],
           request'[r].token = request[r].token, request'[r].heard = request[r].heard,
           ~Rotating(r), ~Rotating(r)', jar' = jar, alarms' = alarms, recent \subseteq recent',
           \A t \in Tokens : refreshTokens'[t].next = refreshTokens[t].next
    PROVE  Untroubled'
<1>1. \A x \in Requests : request'[x].token = request[x].token
  OBVIOUS
<1>2. InFlight' \subseteq InFlight /\ \A x \in InFlight' : request'[x].heard = request[x].heard
  BY DEF InFlight
<1>3. \A x \in InFlight : request[x].token \in Tokens
  BY TokenUsed DEF UsedTokens
<1>4. \A x \in InFlight : Handed(x)' = Handed(x)
  BY <1>1, <1>3 DEF Handed, InFlight
<1>5. \A x \in Requests : Rotating(x)' <=> Rotating(x)
  BY DEF Rotating
<1>6. \A x \in Requests : Rotating(x) => Handed(x)' = Handed(x) /\ x \in InFlight /\ Handed(x) \in Tokens
  BY <1>4, HandedUsed
<1>7. \A x \in InFlight' : request'[x].heard /\ (Handed(x)' # NoToken => request'[x].token \in recent')
  BY <1>1, <1>2, <1>4 DEF Untroubled, InFlight
<1>8. jar # NoToken => jar \in Tokens
  BY DEF ChainInv, SessionTypes
<1>9. jar' # NoToken => refreshTokens'[jar'].next = NoToken
                        \/ \E x \in Requests : Rotating(x)' /\ request'[x].token = jar'
  BY <1>1, <1>5, <1>8 DEF Untroubled
<1>10. ASSUME NEW x \in Requests, Rotating(x)'
       PROVE  /\ jar' # Handed(x)' /\ refreshTokens'[Handed(x)'].next = NoToken
              /\ \A q \in InFlight' : request'[q].token # Handed(x)'
              /\ \A q \in Requests : Rotating(q)' /\ Handed(q)' = Handed(x)' => q = x
  <2>1. Rotating(x) /\ Handed(x)' = Handed(x) /\ Handed(x) \in Tokens
    BY <1>5, <1>6, <1>10
  <2>2. \A q \in InFlight' : request'[q].token # Handed(x)'
    BY <1>1, <1>2, <2>1 DEF Untroubled, InFlight
  <2>3. \A q \in Requests : Rotating(q)' /\ Handed(q)' = Handed(x)' => q = x
    BY <1>5, <1>6, <2>1 DEF Untroubled
  <2> QED BY <2>1, <2>2, <2>3 DEF Untroubled
<1> QED BY <1>7, <1>9, <1>10 DEF Untroubled

\* A tab presents the cookie.
LEMMA SendingStep ==
    ASSUME ChainInv, Untroubled, NEW r \in Requests, request[r].pc = "none", jar # NoToken,
           \A x \in Requests : x # r => request'[x] = request[x],
           request'[r].token = jar, request'[r].heard, request'[r].pc = "sent",
           UNCHANGED <<jar, alarms, recent, refreshTokens>>
    PROVE  Untroubled'
<1>1. InFlight' = InFlight \cup {r} /\ r \notin InFlight
  BY DEF InFlight
<1>2. \A x \in Requests : x # r => Handed(x)' = Handed(x) /\ (Rotating(x)' <=> Rotating(x))
  BY DEF Handed, Rotating
<1>3. ~Rotating(r) /\ ~Rotating(r)'
  BY DEF Rotating
<1>4. Handed(r)' = refreshTokens[jar].next
  BY DEF Handed
<1>5. ASSUME NEW x \in InFlight'
      PROVE  request'[x].heard /\ (Handed(x)' # NoToken => request'[x].token \in recent')
  <2>1. CASE x = r
    <3>1. ASSUME Handed(r)' # NoToken PROVE jar \in recent
      <4>1. PICK y \in Requests : Rotating(y) /\ request[y].token = jar
        BY <1>4, <3>1 DEF Untroubled
      <4>2. y \in InFlight /\ Handed(y) # NoToken
        BY <4>1, HandedUsed
      <4> QED BY <4>1, <4>2 DEF Untroubled
    <3> QED BY <2>1, <3>1
  <2>2. CASE x # r
    <3>1. x \in InFlight /\ x \in Requests /\ request'[x] = request[x]
      BY <1>1, <2>2 DEF InFlight
    <3> QED BY <1>2, <2>2, <3>1 DEF Untroubled
  <2> QED BY <2>1, <2>2
<1>6. jar' # NoToken => refreshTokens'[jar'].next = NoToken
                        \/ \E x \in Requests : Rotating(x)' /\ request'[x].token = jar'
  BY <1>2, <1>3 DEF Untroubled
<1>7. ASSUME NEW x \in Requests, Rotating(x)'
      PROVE  /\ jar' # Handed(x)' /\ refreshTokens'[Handed(x)'].next = NoToken
             /\ \A q \in InFlight' : request'[q].token # Handed(x)'
             /\ \A q \in Requests : Rotating(q)' /\ Handed(q)' = Handed(x)' => q = x
  <2>1. x # r /\ Rotating(x) /\ Handed(x)' = Handed(x)
    BY <1>2, <1>3, <1>7
  <2>2. ASSUME NEW q \in InFlight' PROVE request'[q].token # Handed(x)'
    <3>1. CASE q = r
      BY <2>1, <3>1 DEF Untroubled
    <3>2. CASE q # r
      <4>1. q \in InFlight /\ request'[q] = request[q]
        BY <1>1, <3>2 DEF InFlight
      <4> QED BY <2>1, <4>1 DEF Untroubled
    <3> QED BY <3>1, <3>2
  <2>3. \A q \in Requests : Rotating(q)' /\ Handed(q)' = Handed(x)' => q = x
    BY <1>2, <1>3, <2>1 DEF Untroubled
  <2> QED BY <2>1, <2>2, <2>3 DEF Untroubled
<1> QED BY <1>5, <1>6, <1>7 DEF Untroubled

\* The browser has an answer: the cookie is one that nobody has presented yet, or
\* stays what it was and is not the token that was replaced.
LEMMA AnswerQuiet ==
    ASSUME ChainInv, Untroubled, NEW r \in Requests, Answer(r)
    PROVE  Untroubled'
<1>1. /\ \A x \in Requests : request'[x] = IF x = r THEN Over ELSE request[x]
      /\ UNCHANGED <<refreshTokens, recent, alarms>> /\ r \in InFlight /\ request[r].heard
      /\ Over.pc = "over" /\ request[r].pc = "answered"
  BY DEF Answer, ChainInv, SessionTypes, InFlight, Over, NoRequest, Untroubled
<1>2. jar' = IF Rotating(r) THEN Handed(r)
             ELSE IF request[r].outcome = "loggedOut" THEN NoToken ELSE jar
  BY <1>1 DEF Answer, Rotating, Handed
<1>3. InFlight' = InFlight \ {r} /\ ~Rotating(r)'
  BY <1>1 DEF InFlight, Rotating
<1>4. \A x \in Requests : x # r => Handed(x)' = Handed(x) /\ (Rotating(x)' <=> Rotating(x))
  BY <1>1 DEF Handed, Rotating
<1>5. ASSUME NEW x \in InFlight'
      PROVE  request'[x].heard /\ (Handed(x)' # NoToken => request'[x].token \in recent')
  <2>1. x \in InFlight /\ x # r /\ x \in Requests
    BY <1>3 DEF InFlight
  <2> QED BY <1>1, <1>4, <2>1 DEF Untroubled
<1>6. jar' # NoToken => refreshTokens'[jar'].next = NoToken
                        \/ \E x \in Requests : Rotating(x)' /\ request'[x].token = jar'
  <2>1. CASE Rotating(r)
    BY <1>1, <1>2, <2>1 DEF Untroubled
  <2>2. CASE ~Rotating(r)
    BY <1>1, <1>2, <1>4, <2>2 DEF Untroubled
  <2> QED BY <2>1, <2>2
<1>7. ASSUME NEW x \in Requests, Rotating(x)'
      PROVE  /\ jar' # Handed(x)' /\ refreshTokens'[Handed(x)'].next = NoToken
             /\ \A q \in InFlight' : request'[q].token # Handed(x)'
             /\ \A q \in Requests : Rotating(q)' /\ Handed(q)' = Handed(x)' => q = x
  <2>1. x # r /\ Rotating(x) /\ Handed(x)' = Handed(x) /\ Handed(x) # NoToken
    BY <1>3, <1>4, <1>7, HandedUsed
  <2>2. jar' # Handed(x)
    BY <1>2, <2>1 DEF Untroubled
  <2>3. \A q \in InFlight' : request'[q].token # Handed(x)'
    BY <1>1, <1>3, <2>1 DEF Untroubled, InFlight
  <2>4. \A q \in Requests : Rotating(q)' /\ Handed(q)' = Handed(x)' => q = x
    BY <1>3, <1>4, <2>1 DEF Untroubled
  <2> QED BY <1>1, <2>1, <2>2, <2>3, <2>4 DEF Untroubled
<1> QED BY <1>1, <1>5, <1>6, <1>7 DEF Untroubled

\* A rotation makes a token that nobody has, and the one it replaces is recent.
LEMMA RotateQuiet ==
    ASSUME ChainInv, Untroubled, NEW r \in Requests, TxRotate(r)
    PROVE  Untroubled'
<1> DEFINE p == request[r].token
<1>1. PICK t \in Tokens :
         /\ t \notin UsedTokens /\ p # t
         /\ refreshTokens[p].live
         /\ refreshTokens'[t] = [there |-> TRUE, family |-> refreshTokens[p].family,
                                 live |-> TRUE, next |-> NoToken]
         /\ refreshTokens'[p] = [refreshTokens[p] EXCEPT !.live = FALSE, !.next = t]
         /\ \A u \in Tokens : u # t /\ u # p => refreshTokens'[u] = refreshTokens[u]
  BY RotationWrites
<1>2. r \in InFlight /\ request[r].pc = "locked" /\ UNCHANGED <<jar, alarms>> /\ recent' = recent \cup {p}
  BY DEF TxRotate, InFlight
<1>3. p \in UsedTokens /\ p \in Tokens /\ refreshTokens[p] \in TokenRow /\ request[r] \in Request
  BY <1>2, TokenUsed DEF UsedTokens, ChainInv, SessionTypes
<1>4. /\ \A x \in Requests : x # r => request'[x] = request[x]
      /\ request'[r].token = p /\ request'[r].pc = "answered" /\ request'[r].outcome = "rotated"
      /\ request'[r].heard = request[r].heard
  BY <1>3 DEF TxRotate, EndTx, ChainInv, SessionTypes, Request
<1>5. refreshTokens'[p].next = t /\ refreshTokens'[t].next = NoToken
      /\ \A u \in UsedTokens : u # p => refreshTokens'[u].next = refreshTokens[u].next
  BY <1>1, <1>3 DEF TokenRow, UsedTokens
<1>6. Rotating(r)' /\ Handed(r)' = t /\ ~Rotating(r) /\ InFlight' = InFlight
  <2>1. Rotating(r)' /\ Handed(r)' = t /\ ~Rotating(r)
    BY <1>2, <1>4, <1>5 DEF Rotating, Handed
  <2> QED BY <1>2, <1>4, <2>1 DEF InFlight
<1>7. t # NoToken /\ refreshTokens[p].next = NoToken
  BY <1>1, <1>3, TypeFacts DEF ChainInv, NoDangling
<1>8. \A x \in InFlight : request'[x].token = request[x].token /\ request[x].token \in UsedTokens
                          /\ x \in Requests
  BY <1>4, TokenUsed DEF InFlight
<1>9. \A x \in InFlight : request[x].token # p => Handed(x)' = Handed(x)
  BY <1>5, <1>8 DEF Handed
<1>10. \A x \in Requests : x # r => (Rotating(x)' <=> Rotating(x))
  BY <1>4 DEF Rotating
<1>11. \A x \in Requests : Rotating(x) => request[x].token # p /\ x \in InFlight
  BY <1>7, HandedUsed DEF Handed
<1> HIDE DEF p
<1>p. p = request[r].token
  BY DEF p
<1>12. ASSUME NEW x \in InFlight'
       PROVE  request'[x].heard /\ (Handed(x)' # NoToken => request'[x].token \in recent')
  <2>1. x \in InFlight /\ request'[x].heard = request[x].heard
    BY <1>4, <1>6, <1>8
  <2>2. CASE request[x].token = p
    BY <1>2, <1>8, <2>1, <2>2 DEF Untroubled
  <2>3. CASE request[x].token # p
    BY <1>2, <1>8, <1>9, <2>1, <2>3 DEF Untroubled
  <2> QED BY <2>2, <2>3
<1>13. jar' # NoToken => refreshTokens'[jar'].next = NoToken
                         \/ \E x \in Requests : Rotating(x)' /\ request'[x].token = jar'
  <2>1. CASE jar = p
    BY <1>2, <1>4, <1>6, <2>1
  <2>2. CASE jar # p /\ jar # NoToken
    <3>1. jar \in UsedTokens /\ refreshTokens'[jar].next = refreshTokens[jar].next
      BY <1>5, <2>2, JarUsed
    <3>2. ASSUME NEW x \in Requests, Rotating(x) PROVE Rotating(x)' /\ request'[x].token = request[x].token
      BY <1>4, <1>6, <1>10, <3>2
    <3> QED BY <1>2, <3>1, <3>2 DEF Untroubled
  <2> QED BY <1>2, <2>1, <2>2
<1>14. ASSUME NEW x \in Requests, Rotating(x)'
       PROVE  /\ jar' # Handed(x)' /\ refreshTokens'[Handed(x)'].next = NoToken
              /\ \A q \in InFlight' : request'[q].token # Handed(x)'
              /\ \A q \in Requests : Rotating(q)' /\ Handed(q)' = Handed(x)' => q = x
  <2>0. \A y \in Requests : Rotating(y)' /\ y # r =>
           Rotating(y) /\ Handed(y)' = Handed(y) /\ Handed(y) \in UsedTokens /\ Handed(y) # p
    BY <1>2, <1>9, <1>10, <1>11, <1>p, HandedUsed DEF Untroubled
  <2>1. CASE x = r
    <3>1. jar' # t
      BY <1>1, <1>2, <1>7, JarUsed
    <3>2. \A q \in InFlight' : request'[q].token # t
      BY <1>1, <1>6, <1>8
    <3>3. \A q \in Requests : Rotating(q)' /\ Handed(q)' = t => q = r
      BY <1>1, <2>0
    <3> QED BY <1>5, <1>6, <2>1, <3>1, <3>2, <3>3
  <2>2. CASE x # r
    <3>1. Rotating(x) /\ Handed(x)' = Handed(x) /\ Handed(x) \in UsedTokens /\ Handed(x) # p
      BY <1>14, <2>0, <2>2
    <3>2. jar' # Handed(x) /\ refreshTokens'[Handed(x)].next = NoToken
      BY <1>2, <1>5, <3>1 DEF Untroubled
    <3>3. \A q \in InFlight' : request'[q].token # Handed(x)
      BY <1>6, <1>8, <3>1 DEF Untroubled
    <3>4. \A q \in Requests : Rotating(q)' /\ Handed(q)' = Handed(x) => q = x
      BY <1>1, <1>6, <2>0, <3>1 DEF Untroubled
    <3> QED BY <3>1, <3>2, <3>3, <3>4
  <2> QED BY <2>1, <2>2
<1> QED BY <1>2, <1>12, <1>13, <1>14 DEF Untroubled

\* A login hands out the root of a new family.
LEMMA LoginQuiet ==
    ASSUME ChainInv, Untroubled, Login
    PROVE  Untroubled'
<1>1. PICK t \in Tokens :
         /\ t \notin UsedTokens /\ jar' = t
         /\ \A u \in Tokens : u # t => refreshTokens'[u] = refreshTokens[u]
         /\ refreshTokens'[t] = Root(t)
  BY LoginWrites
<1>2. UNCHANGED <<request, recent, alarms>> /\ InFlight' = InFlight
  BY DEF Login, InFlight
<1>3. \A u \in UsedTokens : refreshTokens'[u] = refreshTokens[u]
  BY <1>1 DEF UsedTokens
<1>4. \A x \in InFlight : Handed(x)' = Handed(x) /\ request[x].token \in UsedTokens
  BY <1>2, <1>3, TokenUsed DEF Handed
<1>5. \A x \in Requests : Rotating(x)' <=> Rotating(x)
  BY <1>2 DEF Rotating
<1>6. \A x \in Requests : Rotating(x) => x \in InFlight /\ Handed(x) \in UsedTokens
  BY HandedUsed
<1>7. refreshTokens'[jar'].next = NoToken
  BY <1>1 DEF Root
<1>8. \A x \in InFlight' : request'[x].heard /\ (Handed(x)' # NoToken => request'[x].token \in recent')
  BY <1>2, <1>4 DEF Untroubled
<1>9. ASSUME NEW x \in Requests, Rotating(x)'
      PROVE  /\ jar' # Handed(x)' /\ refreshTokens'[Handed(x)'].next = NoToken
             /\ \A q \in InFlight' : request'[q].token # Handed(x)'
             /\ \A q \in Requests : Rotating(q)' /\ Handed(q)' = Handed(x)' => q = x
  BY <1>1, <1>2, <1>3, <1>4, <1>5, <1>6, <1>9 DEF Untroubled
<1> QED BY <1>2, <1>7, <1>8, <1>9 DEF Untroubled

\* Nobody is taken for a thief: a replaced token that is presented is recent.
LEMMA TheftQuiet ==
    ASSUME ChainInv, Untroubled, NEW r \in Requests, TxTheft(r)
    PROVE  alarms' = alarms /\ recent \subseteq recent'
<1>1. r \in InFlight /\ Presented(r) = refreshTokens[request[r].token]
  BY DEF TxTheft, InFlight, ChainInv, LockedAsSeen
<1>2. Presented(r).next = NoToken
  BY <1>1 DEF TxTheft, InGrace, Untroubled, Handed
<1> QED BY <1>2 DEF TxTheft

\* A transaction that leaves the chain as it is changes no request but its own.
LEMMA ServeQuiet ==
    ASSUME ChainInv, Untroubled, NEW r \in Requests,
           TxSelect(r) \/ TxWake(r) \/ TxReplay(r) \/ TxTheft(r) \/ Logout(r) \/ TxRefused(r)
    PROVE  Untroubled'
<1>1. r \in InFlight /\ request[r].pc # "answered" /\ jar' = jar /\ request[r] \in Request
  BY DEF TxSelect, TxWake, TxReplay, TxTheft, Logout, TxRefused, InFlight, ChainInv, SessionTypes
<1>2. RevokesOnly
  <2>1. CASE TxRefused(r)
    BY <1>1, <2>1, RefuseStep DEF TxRefused
  <2> QED BY <2>1, TxSelectStep, TxWakeStep, TxReplayStep, TxTheftStep, LogoutStep
<1>3. alarms' = alarms /\ recent \subseteq recent'
  <2>1. CASE Logout(r)
    BY <2>1 DEF Logout
  <2> QED BY <2>1, TheftQuiet DEF TxSelect, TxWake, TxReplay, TxRefused
<1>4. \E q \in Request :
         /\ request' = [request EXCEPT ![r] = q]
         /\ q.token = request[r].token /\ q.heard = request[r].heard
         /\ ~(q.pc = "answered" /\ q.outcome = "rotated")
  <2>1. CASE TxSelect(r)
    <3> DEFINE q == [request[r] EXCEPT !.pc = IF Locked(request[r].token) THEN "waiting" ELSE "locked",
                                       !.seen = refreshTokens]
    <3>1. q \in Request /\ q.token = request[r].token /\ q.heard = request[r].heard /\ q.pc # "answered"
      BY <1>1 DEF ChainInv, SessionTypes, Request, RequestPcs
    <3>2. request' = [request EXCEPT ![r] = q]
      BY <2>1 DEF TxSelect
    <3> QED BY <3>1, <3>2
  <2>2. CASE Refuse(r)
    <3> DEFINE q == IF request[r].retried
                    THEN [request[r] EXCEPT !.pc = "answered", !.seen = NoSeen, !.outcome = "error"]
                    ELSE [request[r] EXCEPT !.pc = "sent", !.seen = NoSeen, !.retried = TRUE]
    <3>1. /\ q \in Request /\ q.token = request[r].token /\ q.heard = request[r].heard
          /\ ~(q.pc = "answered" /\ q.outcome = "rotated")
      BY <1>1, TypeFacts DEF Request, RequestPcs, Outcomes
    <3>2. request' = [request EXCEPT ![r] = q]
      BY <2>2 DEF Refuse
    <3> QED BY <3>1, <3>2
  <2>3. CASE request' = [request EXCEPT ![r].pc = "locked"]
    <3> DEFINE q == [request[r] EXCEPT !.pc = "locked"]
    <3>1. q \in Request /\ q.token = request[r].token /\ q.heard = request[r].heard /\ q.pc # "answered"
      BY <1>1 DEF Request, RequestPcs
    <3> QED BY <2>3, <3>1
  <2>4. ASSUME NEW o \in {"replayed", "theft"}, EndTx(r, o)
        PROVE  \E q \in Request :
                 /\ request' = [request EXCEPT ![r] = q]
                 /\ q.token = request[r].token /\ q.heard = request[r].heard
                 /\ ~(q.pc = "answered" /\ q.outcome = "rotated")
    <3> DEFINE q == [request[r] EXCEPT !.pc = "answered", !.seen = NoSeen, !.outcome = o]
    <3>1. q \in Request /\ q.token = request[r].token /\ q.heard = request[r].heard /\ q.outcome # "rotated"
      BY <1>1, TypeFacts DEF Request, RequestPcs, Outcomes
    <3>2. request' = [request EXCEPT ![r] = q]
      BY <2>4 DEF EndTx
    <3> QED BY <3>1, <3>2
  <2>5. CASE Logout(r)
    <3> DEFINE q == [request[r] EXCEPT !.pc = "answered", !.outcome = "loggedOut"]
    <3>1. q \in Request /\ q.token = request[r].token /\ q.heard = request[r].heard /\ q.outcome # "rotated"
      BY <1>1 DEF Request, RequestPcs, Outcomes
    <3>2. request' = [request EXCEPT ![r] = q]
      BY <2>5 DEF Logout
    <3> QED BY <3>1, <3>2
  <2>6. CASE TxWake(r)
    BY <2>2, <2>3, <2>6 DEF TxWake
  <2>7. CASE TxReplay(r)
    BY <2>4, <2>7 DEF TxReplay
  <2>8. CASE TxTheft(r)
    BY <2>2, <2>4, <2>8 DEF TxTheft
  <2>9. CASE TxRefused(r)
    BY <2>2, <2>9 DEF TxRefused
  <2> QED BY <2>1, <2>5, <2>6, <2>7, <2>8, <2>9
<1>5. PICK q \in Request :
         /\ request' = [request EXCEPT ![r] = q]
         /\ q.token = request[r].token /\ q.heard = request[r].heard
         /\ ~(q.pc = "answered" /\ q.outcome = "rotated")
  BY <1>4
<1>6. request'[r] = q /\ \A x \in Requests : x # r => request'[x] = request[x]
  BY <1>1, <1>5 DEF ChainInv, SessionTypes, InFlight
<1>7. ~Rotating(r) /\ ~Rotating(r)'
  BY <1>1, <1>5, <1>6 DEF Rotating
<1> QED BY <1>1, <1>2, <1>3, <1>5, <1>6, <1>7, QuietStep DEF RevokesOnly

\* The grace window of a token ends when nobody presents it any more.
LEMMA GraceQuiet ==
    ASSUME ChainInv, Untroubled, NEW t \in Tokens, GraceEnds(t)
    PROVE  Untroubled'
<1>1. UNCHANGED <<refreshTokens, jar, request, alarms>> /\ recent' = recent \ {t} /\ InFlight' = InFlight
      /\ \A r \in InFlight : request[r].token # t
  BY DEF GraceEnds, InFlight
<1> QED BY <1>1 DEF Untroubled, Rotating, Handed

\* No step raises an alarm, and the invariant is kept.
LEMMA AlarmStep == ChainInv /\ AlarmInv /\ [AuthNext]_authVars => AlarmInv'
<1> SUFFICES ASSUME ChainInv, AlarmInv, [AuthNext]_authVars PROVE AlarmInv'
  OBVIOUS
<1>1. ASSUME NEW r \in Requests, Lose(r) PROVE AlarmInv'
  BY <1>1 DEF AlarmInv, Lose
<1>2. ASSUME lost' = lost, lost = 0 => Untroubled' PROVE AlarmInv'
  BY <1>2 DEF AlarmInv
<1>3. ASSUME UNCHANGED <<refreshTokens, recent, jar, request, alarms>>, Untroubled PROVE Untroubled'
  BY <1>3 DEF Untroubled, Rotating, Handed, InFlight
<1>4. CASE UNCHANGED authVars
  BY <1>2, <1>3, <1>4 DEF authVars, AlarmInv
<1>5. ASSUME NEW i \in Tabs, StartRefresh(i) PROVE AlarmInv'
  BY <1>2, <1>3, <1>5 DEF StartRefresh, AlarmInv
<1>6. ASSUME NEW i \in Tabs, SendRefresh(i) PROVE AlarmInv'
  <2>1. CASE jar = NoToken
    BY <1>2, <1>3, <1>6, <2>1 DEF SendRefresh, AlarmInv
  <2>2. CASE jar # NoToken
    <3>1. PICK r \in Requests :
            /\ NextRequest(r)
            /\ request' = [request EXCEPT ![r] = [NoRequest EXCEPT !.pc = "sent", !.tab = {i}, !.token = jar]]
      BY <1>6, <2>2 DEF SendRefresh
    <3>2. /\ \A x \in Requests : x # r => request'[x] = request[x]
          /\ request'[r].token = jar /\ request'[r].heard /\ request'[r].pc = "sent" /\ request[r].pc = "none"
      BY <3>1 DEF ChainInv, SessionTypes, NoRequest, NextRequest
    <3> QED BY <1>2, <1>6, <2>2, <3>2, SendingStep DEF SendRefresh, AlarmInv
  <2> QED BY <2>1, <2>2
<1>7. CASE SendLogout
  <2>1. PICK r \in Requests :
          /\ NextRequest(r)
          /\ request' = [request EXCEPT ![r] = [NoRequest EXCEPT !.pc = "sent", !.logout = TRUE, !.token = jar]]
    BY <1>7 DEF SendLogout
  <2>2. /\ \A x \in Requests : x # r => request'[x] = request[x]
        /\ request'[r].token = jar /\ request'[r].heard /\ request'[r].pc = "sent" /\ request[r].pc = "none"
    BY <2>1 DEF ChainInv, SessionTypes, NoRequest, NextRequest
  <2> QED BY <1>2, <1>7, <2>2, SendingStep DEF SendLogout, AlarmInv
<1>8. CASE Login
  BY <1>2, <1>8, LoginQuiet DEF Login, AlarmInv
<1>9. ASSUME NEW r \in Requests, Answer(r) PROVE AlarmInv'
  BY <1>2, <1>9, AnswerQuiet DEF Answer, AlarmInv
<1>10. ASSUME NEW r \in Requests, TxRefused(r) PROVE AlarmInv'
  BY <1>2, <1>10, ServeQuiet DEF TxRefused, AlarmInv
<1>11. ASSUME NEW r \in Requests, Serve(r) PROVE AlarmInv'
  <2>1. CASE TxRotate(r)
    BY <1>2, <2>1, RotateQuiet DEF TxRotate, AlarmInv
  <2>2. CASE TxSelect(r) \/ TxWake(r) \/ TxReplay(r) \/ TxTheft(r) \/ Logout(r)
    <3>1. lost' = lost
      BY <2>2 DEF TxSelect, TxWake, TxReplay, TxTheft, Logout
    <3> QED BY <1>2, <2>2, <3>1, ServeQuiet DEF AlarmInv
  <2> QED BY <1>11, <2>1, <2>2 DEF Serve
<1>12. ASSUME NEW t \in Tokens, GraceEnds(t) PROVE AlarmInv'
  BY <1>2, <1>12, GraceQuiet DEF GraceEnds, AlarmInv
<1> QED BY <1>1, <1>4, <1>5, <1>6, <1>7, <1>8, <1>9, <1>10, <1>11, <1>12 DEF AuthNext

\* At first the cookie is the one token, and nothing is under way.
LEMMA AlarmInit == AuthInit => AlarmInv
<1> SUFFICES ASSUME AuthInit PROVE AlarmInv
  OBVIOUS
<1>1. 1 \in Tokens /\ refreshTokens[1] = Root(1) /\ jar = 1 /\ alarms = {} /\ lost = 0
  BY AuthAssumption DEF AuthInit, Tokens
<1>2. InFlight = {} /\ \A r \in Requests : ~Rotating(r)
  BY DEF AuthInit, InFlight, NoRequest, Rotating
<1> QED BY <1>1, <1>2 DEF AlarmInv, Untroubled, Root

\* As long as no answer is lost, no tab is taken for a thief, with or without a lock
\* across tabs: the grace window outlasts every request that presents the token
\* that was replaced (auth.service.ts:99-227).
THEOREM NobodySuspected == AuthSpec => []NoFalseAlarm
<1>1. AlarmInv => NoFalseAlarm
  BY DEF AlarmInv, Untroubled, NoFalseAlarm
<1>2. ChainInv /\ AlarmInv /\ [AuthNext]_authVars => AlarmInv'
  BY AlarmStep
<1> QED BY <1>1, <1>2, AlarmInit, ChainAlways, PTL DEF AuthSpec

-----------------------------------------------------------------------------
(* Log streaming. *)

\* The one streamer that follows is the entry, and one that reads has not failed
\* too often.
FollowInv ==
    /\ streamer \in [Streamers -> Streamer] /\ pool \in Streamers \cup {"none"}
    /\ \A s \in Streamers : Following(s) => s = pool
    /\ \A s \in Streamers :
          streamer[s].pc = "reading" => streamer[s].failures < MaxConsecutive

\* The row, the pods and their events.
WorldOK ==
    /\ row \in LogRow /\ pods \in [Pods -> Pod]
    /\ informer \in Seq([pod: Pods, phase: PodPhase])

\* The calls under way.
CallsOK ==
    /\ handler \in [LogHandlers -> LogHandler] /\ load \in [Loaders -> LoadPcs]
    /\ logFaults \in 0..MaxLogFaults

LogInv == FollowInv /\ WorldOK /\ CallsOK

\* The hub with its pages.
PagesOK == PagesTypeOK /\ ListenersReleased

-----------------------------------------------------------------------------
(* Streamers and their pool. *)

\* What a streamer goes back to, and what it starts from.
LEMMA FreshStreamer ==
    ASSUME LogAssumption
    PROVE  NoStreamer \in Streamer /\ NoStreamer.pc = "idle"
<1> QED BY DEF LogAssumption, NoStreamer, Streamer, Pods

\* A streamer that was started reads, and is the entry.
LEMMA StartedStreamer ==
    ASSUME LogAssumption, NEW p \in Pods
    PROVE  NewStreamer(p) \in Streamer /\ NewStreamer(p).pc = "reading"
           /\ NewStreamer(p).failures = 0
<1> QED BY DEF LogAssumption, NewStreamer, Streamer

\* A fresh streamer is taken only where the run has none.
LEMMA StartFollows ==
    ASSUME LogAssumption, FollowInv, NEW p \in Pods, StartStreamer(p)
    PROVE  FollowInv'
<1>1. CASE pool # "none"
  BY <1>1 DEF StartStreamer, FollowInv, Following, streamVars
<1>2. CASE pool = "none"
  <2> DEFINE v == NewStreamer(p)
  <2> DEFINE s == CHOOSE s \in Streamers : ~Following(s)
  <2>0. s \in Streamers
    BY <1>2 DEF FollowInv, LogAssumption
  <2>1. pool' = s /\ streamer' = [streamer EXCEPT ![s] = v]
    BY <1>2 DEF StartStreamer
  <2>2. v \in Streamer /\ v.pc = "reading" /\ v.failures = 0
    BY StartedStreamer
  <2>3. \A u \in Streamers : ~Following(u)
    BY <1>2 DEF FollowInv, LogAssumption
  <2> HIDE DEF v, s
  <2>4. streamer' \in [Streamers -> Streamer] /\ pool' \in Streamers
    BY <2>0, <2>1, <2>2 DEF FollowInv
  <2>5. streamer'[s] = v /\ \A u \in Streamers : u # s => streamer'[u] = streamer[u]
    BY <2>0, <2>1 DEF FollowInv
  <2> QED BY <2>0, <2>1, <2>2, <2>3, <2>4, <2>5 DEF FollowInv, Following, LogAssumption
<1> QED BY <1>1, <1>2

\* Stopping ends the streamer of the entry, and no other follows.
LEMMA StopFollows ==
    ASSUME LogAssumption, FollowInv, NEW hs, StopStreamer(hs)
    PROVE  FollowInv'
<1>1. streamer' = [s \in Streamers |-> IF s = pool THEN NoStreamer ELSE streamer[s]]
      /\ pool' = "none"
  BY DEF StopStreamer
<1>2. streamer' \in [Streamers -> Streamer]
  BY <1>1, FreshStreamer DEF FollowInv
<1>3. \A s \in Streamers : streamer'[s].pc \notin {"reading", "backoff"}
  BY <1>1, FreshStreamer DEF FollowInv, Following
<1> QED BY <1>1, <1>2, <1>3 DEF FollowInv, Following

\* A streamer that is over follows no more, whether it is drained or not.
LEMMA OverFollows ==
    ASSUME LogAssumption, FollowInv, NEW s \in Streamers, StreamerOver(s)
    PROVE  FollowInv'
<1>1. CASE StopStreamer(handler)
  BY <1>1, StopFollows
<1>2. CASE streamer' = [streamer EXCEPT ![s].pc = "stopped"] /\ UNCHANGED pool
  BY <1>2 DEF FollowInv, Following, Streamer
<1> QED BY <1>1, <1>2 DEF StreamerOver

\* A streamer at work stays what it is, or is over.
LEMMA StreamerFollows ==
    ASSUME LogAssumption, FollowInv, WorldOK, NEW s \in Streamers, StreamerStep(s)
    PROVE  FollowInv'
<1>2. CASE StreamBroke(s)
  BY <1>2 DEF StreamBroke, FollowInv, Following, Streamer, LogAssumption
<1>3. CASE BackoffOver(s)
  <2>1. CASE streamer[s].failures >= MaxConsecutive
    BY <1>3, <2>1, OverFollows DEF BackoffOver
  <2>2. CASE ~(streamer[s].failures >= MaxConsecutive)
    <3>1. streamer[s].failures < MaxConsecutive
      BY <2>2 DEF FollowInv, Streamer, LogAssumption
    <3> QED BY <1>3, <2>2, <3>1 DEF BackoffOver, FollowInv, Following, Streamer
  <2> QED BY <2>1, <2>2
<1>5. CASE LogEnds(s)
  BY <1>5, OverFollows DEF LogEnds
<1> QED BY <1>2, <1>3, <1>5 DEF StreamerStep

\* No other step touches a streamer but to start or stop it.
LEMMA FollowStep ==
    ASSUME LogAssumption, FollowInv, WorldOK, CallsOK, [LogNext]_logVars
    PROVE  FollowInv'
<1> USE DEF streamVars, rowVars
<1>1. ASSUME UNCHANGED streamVars PROVE FollowInv'
  BY <1>1 DEF FollowInv, Following
<1>2. ASSUME NEW p \in Pods, LaunchPod(p) \/ PodRuns(p) \/ PodEnds(p) \/ PodGoes(p) \/ PodWrites(p)
      PROVE FollowInv'
  BY <1>1, <1>2 DEF LaunchPod, PodRuns, PodEnds, PodGoes, PodWrites, PodTurns
<1>3. CASE Submit \/ Cancel \/ ResumeRun \/ SweepEnds \/ SweepLoads
  BY <1>1, <1>3 DEF Submit, Cancel, ResumeRun, SweepEnds, SweepLoads
<1>4. CASE PodDeleted
  BY <1>4, StopFollows DEF PodDeleted
<1>5. ASSUME NEW h \in LogHandlers, PodSeen(h) \/ HandlerThrows(h) \/ HandlerStep(h)
      PROVE FollowInv'
  <2>1. handler[h].pod \in Pods
    BY DEF CallsOK, LogHandler
  <2>2. CASE HandlerFind(h)
    <3>1. \/ UNCHANGED streamVars
          \/ StartStreamer(handler[h].pod)
          \/ StopStreamer([handler EXCEPT ![h].pc = "fail"])
      <4>1. Verdict(h) \in {"noop", "running", "attach", "load-report", "failed-terminal"}
        BY DEF Verdict
      <4> QED BY <2>2, <4>1 DEF HandlerFind
    <3> QED BY <1>1, <2>1, <3>1, StartFollows, StopFollows
  <2>3. CASE HandlerAttach(h)
    BY <2>1, <2>3, StartFollows DEF HandlerAttach
  <2>4. CASE DrainTimeout(h)
    BY <2>4, StopFollows DEF DrainTimeout
  <2> QED BY <1>1, <1>5, <2>2, <2>3, <2>4
          DEF PodSeen, HandlerThrows, HandlerStep, HandlerMark, HandlerFail, HandlerLoads
<1>6. ASSUME NEW l \in Loaders, LoadStep(l) PROVE FollowInv'
  BY <1>1, <1>6 DEF LoadStep, LoadFind, LoadCommit
<1>8. CASE ApiRestarts
  BY <1>8, FreshStreamer DEF ApiRestarts, FollowInv, Following
<1>9. CASE UNCHANGED logVars
  BY <1>1, <1>9 DEF logVars
<1> QED BY <1>2, <1>3, <1>4, <1>5, <1>6, <1>8, <1>9, StreamerFollows DEF LogNext

-----------------------------------------------------------------------------
(* The row, the pods and the events. *)

\* A write of the row changes its status, or says that a call is under way.
LEMMA RowWrite ==
    ASSUME row \in LogRow, NEW st \in LogStatus, SetStatus(st)
    PROVE  row' \in LogRow
<1> QED BY DEF SetStatus, LogRow

\* An event is appended for a pod that changed.
LEMMA TurnKeepsWorld ==
    ASSUME WorldOK, NEW p \in Pods, NEW ph \in PodPhase, PodTurns(p, ph)
    PROVE  WorldOK'
<1>1. pods' \in [Pods -> Pod]
  BY DEF WorldOK, PodTurns, Pod
<1>2. [pod |-> p, phase |-> ph] \in [pod: Pods, phase: PodPhase]
  OBVIOUS
<1>3. informer' \in Seq([pod: Pods, phase: PodPhase])
  BY <1>2 DEF WorldOK, PodTurns
<1> QED BY <1>1, <1>3 DEF WorldOK, PodTurns

\* Deleting a Job marks the pods there are.
LEMMA DoomKeepsPods ==
    ASSUME WorldOK, DoomPods
    PROVE  pods' \in [Pods -> Pod]
<1> SUFFICES ASSUME NEW p \in Pods PROVE [pods[p] EXCEPT !.doomed = Launched(p)] \in Pod
  BY DEF DoomPods
<1>1. Launched(p) \in BOOLEAN
  BY DEF Launched
<1>2. pods[p] \in Pod
  BY DEF WorldOK
<1> QED BY <1>1, <1>2 DEF Pod

\* What a pod does.
LEMMA PodKeepsWorld ==
    ASSUME LogAssumption, WorldOK, NEW p \in Pods,
           LaunchPod(p) \/ PodRuns(p) \/ PodEnds(p) \/ PodGoes(p) \/ PodWrites(p)
    PROVE  WorldOK'
<1>1. CASE LaunchPod(p)
  <2>1. FreshPod \in Pod
    BY DEF FreshPod, Pod, PodPhase, LogAssumption
  <2> QED BY <1>1, <2>1 DEF LaunchPod, WorldOK
<1>2. CASE PodRuns(p)
  BY <1>2, TurnKeepsWorld DEF PodRuns, PodPhase
<1>3. CASE PodEnds(p)
  BY <1>3, TurnKeepsWorld DEF PodEnds, PodPhase
<1>4. CASE PodGoes(p)
  BY <1>4, TurnKeepsWorld DEF PodGoes, PodPhase
<1>5. CASE PodWrites(p)
  BY <1>5 DEF PodWrites, WorldOK, Pod
<1> QED BY <1>1, <1>2, <1>3, <1>4, <1>5

\* The calls that write the row, and the delete of its Job.
LEMMA WorldStep ==
    ASSUME LogAssumption, WorldOK, CallsOK, [LogNext]_logVars
    PROVE  WorldOK'
<1> USE DEF rowVars
<1>1. ASSUME UNCHANGED rowVars PROVE WorldOK'
  BY <1>1 DEF WorldOK
<1>2. ASSUME NEW st \in LogStatus, SetStatus(st), UNCHANGED <<pods, informer>> PROVE WorldOK'
  BY <1>2, RowWrite DEF WorldOK
<1>3. row.status \in LogStatus
  BY DEF WorldOK, LogRow
<1>4. CASE Submit
  BY <1>4 DEF Submit, WorldOK, LogRow, LogStatus
<1>5. CASE Cancel
  BY <1>5, DoomKeepsPods, RowWrite DEF Cancel, WorldOK, LogStatus
<1>6. CASE ResumeRun
  BY <1>6, DoomKeepsPods DEF ResumeRun, WorldOK, LogRow, LogStatus
<1>7. CASE SweepEnds
  BY <1>2, <1>7 DEF SweepEnds, LogStatus
<1>8. CASE PodDeleted
  BY <1>8 DEF PodDeleted, WorldOK
<1>9. ASSUME NEW s \in Streamers, StreamerStep(s) PROVE WorldOK'
  BY <1>1, <1>9 DEF StreamerStep, StreamBroke, BackoffOver, LogEnds
<1>10. ASSUME NEW h \in LogHandlers, PodSeen(h) PROVE WorldOK'
  BY <1>10 DEF PodSeen, WorldOK
<1>11. ASSUME NEW h \in LogHandlers, HandlerThrows(h) \/ HandlerStep(h) PROVE WorldOK'
  <2>1. CASE HandlerMark(h)
    BY <1>2, <1>3, <2>1 DEF HandlerMark, LogStatus
  <2>2. CASE HandlerFail(h)
    BY <1>2, <1>3, <2>2 DEF HandlerFail, LogStatus
  <2> QED BY <1>1, <1>11, <2>1, <2>2
          DEF HandlerThrows, HandlerStep, HandlerFind, HandlerAttach, DrainTimeout, HandlerLoads
<1>12. ASSUME NEW l \in Loaders, LoadStep(l) PROVE WorldOK'
  <2>1. CASE LoadCommit(l)
    BY <1>2, <1>3, <2>1 DEF LoadCommit, LogStatus
  <2> QED BY <1>1, <1>12, <2>1 DEF LoadStep, LoadFind
<1>14. CASE SweepLoads
  BY <1>1, <1>14 DEF SweepLoads
<1>15. CASE ApiRestarts
  <2>1. row' \in LogRow
    BY <1>15 DEF ApiRestarts, WorldOK, LogRow
  <2>2. ASSUME NEW p \in Pods PROVE [pod |-> p, phase |-> pods[p].phase] \in [pod: Pods, phase: PodPhase]
    BY DEF WorldOK, Pod
  <2>3. informer' \in Seq([pod: Pods, phase: PodPhase])
    <3>1. CASE informer' = <<>>
      BY <3>1
    <3>2. ASSUME NEW e \in [pod: Pods, phase: PodPhase], informer' = <<e>>
          PROVE informer' \in Seq([pod: Pods, phase: PodPhase])
      BY <3>2
    <3> QED BY <1>15, <2>2, <3>1, <3>2 DEF ApiRestarts
  <2> QED BY <1>15, <2>1, <2>3 DEF ApiRestarts, WorldOK
<1>16. CASE UNCHANGED logVars
  BY <1>1, <1>16 DEF logVars
<1> QED BY <1>4, <1>5, <1>6, <1>7, <1>8, <1>9, <1>10, <1>11, <1>12, <1>14, <1>15, <1>16,
           PodKeepsWorld DEF LogNext

-----------------------------------------------------------------------------
(* Handlers and loads. *)

\* What a handler that has read its row may come to.
CallPcs == {"mark", "attach", "drain", "drained", "fail", "loading"}

\* A handler that is idle.
LEMMA IdleTyped == LogAssumption => IdleHandler \in LogHandler
BY DEF LogAssumption, IdleHandler, LogHandler, PodPhase, Pods

\* What awaited the streamer goes on, and a load is over.
LEMMA CallsMove ==
    ASSUME LogAssumption, handler \in [LogHandlers -> LogHandler], load \in [Loaders -> LoadPcs]
    PROVE  /\ \A hs \in [LogHandlers -> LogHandler] : Drained(hs) \in [LogHandlers -> LogHandler]
           /\ \A h \in LogHandlers :
                 HandlerEnds(h) => handler' \in [LogHandlers -> LogHandler]
           /\ \A h \in LogHandlers, pc \in CallPcs :
                 /\ [handler EXCEPT ![h].pc = pc] \in [LogHandlers -> LogHandler]
                 /\ HandlerGoto(h, pc) => handler' \in [LogHandlers -> LogHandler]
           /\ \A l \in Loaders :
                 LoadOver(l) => /\ handler' \in [LogHandlers -> LogHandler]
                                /\ load' \in [Loaders -> LoadPcs]
<1>1. ASSUME NEW hs \in [LogHandlers -> LogHandler] PROVE Drained(hs) \in [LogHandlers -> LogHandler]
  BY <1>1 DEF Drained, LogHandler
<1>2. ASSUME NEW h \in LogHandlers, HandlerEnds(h) PROVE handler' \in [LogHandlers -> LogHandler]
  BY <1>2, IdleTyped DEF HandlerEnds
<1>3. ASSUME NEW h \in LogHandlers,
             NEW pc \in CallPcs
      PROVE  /\ [handler EXCEPT ![h].pc = pc] \in [LogHandlers -> LogHandler]
             /\ HandlerGoto(h, pc) => handler' \in [LogHandlers -> LogHandler]
  <2>1. [handler EXCEPT ![h].pc = pc] \in [LogHandlers -> LogHandler]
    BY DEF LogHandler, CallPcs
  <2> QED BY <2>1 DEF HandlerGoto
<1>4. ASSUME NEW l \in Loaders, LoadOver(l)
      PROVE  handler' \in [LogHandlers -> LogHandler] /\ load' \in [Loaders -> LoadPcs]
  BY <1>4, IdleTyped DEF LoadOver, LoadPcs
<1> QED BY <1>1, <1>2, <1>3, <1>4

\* Each call goes from one of its awaits to another.
LEMMA CallsStep ==
    ASSUME LogAssumption, WorldOK, CallsOK, [LogNext]_logVars
    PROVE  CallsOK'
<1>1. ASSUME UNCHANGED <<handler, load, logFaults>> PROVE CallsOK'
  BY <1>1 DEF CallsOK
<1>2. /\ handler \in [LogHandlers -> LogHandler] /\ load \in [Loaders -> LoadPcs]
      /\ logFaults \in 0..MaxLogFaults
  BY DEF CallsOK
<1>3. ASSUME NEW p \in Pods, LaunchPod(p) \/ PodRuns(p) \/ PodEnds(p) \/ PodGoes(p) \/ PodWrites(p)
      PROVE CallsOK'
  BY <1>1, <1>3 DEF LaunchPod, PodRuns, PodEnds, PodGoes, PodWrites, PodTurns
<1>4. CASE Submit \/ Cancel \/ ResumeRun \/ SweepEnds
  BY <1>1, <1>4 DEF Submit, Cancel, ResumeRun, SweepEnds
<1>5. CASE PodDeleted
  BY <1>2, <1>5, CallsMove DEF PodDeleted, StopStreamer, CallsOK
<1>6. ASSUME NEW s \in Streamers, StreamerStep(s) PROVE CallsOK'
  <2>1. UNCHANGED <<load, logFaults>> /\ handler' \in {handler, Drained(handler)}
    BY <1>6 DEF StreamerStep, StreamBroke, BackoffOver, LogEnds,
                StreamerOver, StopStreamer
  <2> QED BY <1>2, <2>1, CallsMove DEF CallsOK
<1>7. ASSUME NEW h \in LogHandlers, PodSeen(h) PROVE CallsOK'
  <2>1. Head(informer) \in [pod: Pods, phase: PodPhase]
    <3> DEFINE E == [pod: Pods, phase: PodPhase]
    <3>1. informer \in Seq(E) /\ informer # <<>>
      BY <1>7 DEF PodSeen, WorldOK
    <3> HIDE DEF E
    <3>2. Head(informer) \in E
      BY <3>1
    <3> QED BY <3>2 DEF E
  <2>2. [pc |-> "find", pod |-> Head(informer).pod, phase |-> Head(informer).phase] \in LogHandler
    BY <2>1 DEF LogHandler
  <2> QED BY <1>2, <1>7, <2>2 DEF PodSeen, CallsOK
<1>8. ASSUME NEW h \in LogHandlers, HandlerThrows(h) PROVE CallsOK'
  BY <1>2, <1>8, CallsMove DEF HandlerThrows, CallsOK, LogAssumption
<1>9. ASSUME NEW h \in LogHandlers, HandlerStep(h) PROVE CallsOK'
  <2>1. CASE HandlerFind(h)
    <3>1. Verdict(h) \in {"noop", "running", "attach", "load-report", "failed-terminal"}
      BY DEF Verdict
    <3>2. \/ HandlerEnds(h)
          \/ \E pc \in CallPcs : HandlerGoto(h, pc)
          \/ handler' = Drained([handler EXCEPT ![h].pc = "fail"])
      BY <2>1, <3>1 DEF HandlerFind, StopStreamer, CallPcs
    <3>3. [handler EXCEPT ![h].pc = "fail"] \in [LogHandlers -> LogHandler]
      BY <1>2, CallsMove DEF CallPcs
    <3>4. handler' \in [LogHandlers -> LogHandler]
      <4>1. CASE HandlerEnds(h)
        BY <1>2, <4>1, CallsMove
      <4>2. ASSUME NEW pc \in CallPcs, HandlerGoto(h, pc)
            PROVE handler' \in [LogHandlers -> LogHandler]
        BY <1>2, <4>2, CallsMove
      <4>3. CASE handler' = Drained([handler EXCEPT ![h].pc = "fail"])
        BY <1>2, <3>3, <4>3, CallsMove
      <4> QED BY <3>2, <4>1, <4>2, <4>3
    <3> QED BY <1>2, <2>1, <3>4 DEF HandlerFind, CallsOK
  <2>2. CASE HandlerMark(h) \/ HandlerFail(h) \/ HandlerAttach(h)
    BY <1>2, <2>2, CallsMove DEF HandlerMark, HandlerFail, HandlerAttach, CallsOK, CallPcs
  <2>3. CASE DrainTimeout(h)
    BY <1>2, <2>3, CallsMove DEF DrainTimeout, StopStreamer, CallsOK
  <2>4. CASE HandlerLoads(h)
    BY <1>2, <2>4, CallsMove DEF HandlerLoads, CallsOK, LoadPcs, CallPcs
  <2> QED BY <1>9, <2>1, <2>2, <2>3, <2>4 DEF HandlerStep
<1>10. CASE SweepLoads
  BY <1>2, <1>10 DEF SweepLoads, CallsOK, LoadPcs
<1>11. ASSUME NEW l \in Loaders, LoadStep(l) PROVE CallsOK'
  <2>1. CASE LoadOver(l)
    BY <1>2, <1>11, <2>1, CallsMove DEF LoadStep, LoadFind, LoadCommit, CallsOK
  <2>2. CASE ~LoadOver(l)
    BY <1>2, <1>11, <2>2 DEF LoadStep, LoadFind, LoadCommit, CallsOK, LoadPcs
  <2> QED BY <2>1, <2>2
<1>13. CASE ApiRestarts
  BY <1>2, <1>13, IdleTyped DEF ApiRestarts, CallsOK, LoadPcs, LogAssumption
<1>14. CASE UNCHANGED logVars
  BY <1>1, <1>14 DEF logVars
<1> QED BY <1>3, <1>4, <1>5, <1>6, <1>7, <1>8, <1>9, <1>10, <1>11, <1>13, <1>14 DEF LogNext

-----------------------------------------------------------------------------
(* The hub and the pages. *)

\* At first no page is open.
LEMMA PagesInitial == PagesInit => PagesOK
BY DEF PagesInit, EmptyHub, PagesOK, PagesTypeOK, ListenersReleased, Hub

\* A page opens on a stream that is there; the close leaves none open.
LEMMA PagesStep ==
    ASSUME PagesOK, [PagesNext]_pageVars
    PROVE  PagesOK'
<1> USE DEF PagesOK, PagesTypeOK, ListenersReleased
<1>1. CASE EndsUnclosed \/ ResumesUnderId
  BY <1>1 DEF EndsUnclosed, ResumesUnderId
<1>2. CASE HubRestarts
  BY <1>2 DEF HubRestarts, EmptyHub, Hub
<1>3. ASSUME NEW l \in Loads, CloseFind(l) \/ CloseCommit(l) PROVE PagesOK'
  BY <1>3 DEF CloseFind, CloseCommit
<1>4. ASSUME NEW l \in Loads, HubClose(l) PROVE PagesOK'
  <2>1. hub' \in Hub /\ ~hub'.stream /\ hub'.closed = (hub.closed \/ hub.stream)
    BY <1>4 DEF HubClose, Hub
  <2>2. listener' = [t \in Pages |-> IF hub.stream /\ listener[t] = "open" THEN "idle" ELSE listener[t]]
    BY <1>4 DEF HubClose
  <2>3. listener' \in [Pages -> {"idle", "found", "open"}]
    BY <2>2
  <2>4. hub.closed \/ hub.stream => \A t \in Pages : listener'[t] # "open"
    BY <2>2
  <2>5. inProgress' \in BOOLEAN /\ closing' \in [Loads -> {"idle", "commit", "finally"}]
    BY <1>4 DEF HubClose
  <2> QED BY <2>1, <2>3, <2>4, <2>5
<1>5. ASSUME NEW t \in Pages, EventsFind(t) \/ PageLeft(t) PROVE PagesOK'
  BY <1>5 DEF EventsFind, PageLeft
<1>6. ASSUME NEW t \in Pages, Subscribe(t) PROVE PagesOK'
  BY <1>6 DEF Subscribe, Hub
<1>7. CASE UNCHANGED pageVars
  BY <1>7 DEF pageVars
<1> QED BY <1>1, <1>2, <1>3, <1>4, <1>5, <1>6, <1>7 DEF PagesNext

-----------------------------------------------------------------------------
(* The theorems. *)

\* At first nothing is followed.
LEMMA LogInitial == LogAssumption /\ LogInit => LogInv
<1> SUFFICES ASSUME LogAssumption, LogInit PROVE LogInv
  OBVIOUS
<1>1. FollowInv
  BY FreshStreamer DEF LogInit, FollowInv, Following
<1>2. WorldOK
  <2>1. NoPod \in Pod
    BY DEF LogAssumption, NoPod, Pod, PodPhase
  <2> QED BY <2>1 DEF LogInit, WorldOK, LogRow, LogStatus
<1>3. CallsOK
  BY IdleTyped DEF LogInit, CallsOK, LoadPcs, LogAssumption
<1> QED BY <1>1, <1>2, <1>3 DEF LogInv

\* The invariant holds at all times.
LEMMA LogInvAlways == LogSpec => []LogInv
<1>1. LogInit => LogInv
  BY LogInitial, LogAssumption
<1>2. LogInv /\ [LogNext]_logVars => LogInv'
  BY FollowStep, WorldStep, CallsStep, LogAssumption DEF LogInv
<1> QED BY <1>1, <1>2, PTL DEF LogSpec

\* LogTypeOK holds in every state of every instance.
THEOREM LogTypeCorrect == LogSpec => []LogTypeOK
<1>1. LogInv => LogTypeOK
  BY DEF LogInv, FollowInv, WorldOK, CallsOK, LogTypeOK
<1> QED BY <1>1, LogInvAlways, PTL

\* At most one streamer follows a run, however late handlers, drains and deleted
\* pods come (k8s-job-watcher.service.ts and the pool).
THEOREM OneFollowerSafe == LogSpec => []OneFollower
<1>1. LogInv => OneFollower
  BY DEF LogInv, FollowInv, OneFollower
<1> QED BY <1>1, LogInvAlways, PTL

\* No page waits on a stream that was closed (sse-hub.service.ts).
THEOREM PagesReleased == PagesSpec => []ListenersReleased
<1>1. PagesOK => ListenersReleased
  BY DEF PagesOK
<1>2. PagesOK /\ [PagesNext]_pageVars => PagesOK'
  BY PagesStep
<1> QED BY <1>1, <1>2, PagesInitial, PTL DEF PagesSpec

-----------------------------------------------------------------------------
(* The agent: what a transcript has asked and not answered is on the list of  *)
(* its run, under way, or waits for the user, in which case the run pauses.   *)

AgentShape ==
    /\ run \in [Runs -> Run] /\ page \in Page /\ invented \subseteq Calls
    /\ ran \in [once: SUBSET Calls, again: SUBSET Calls]

IsBuiltin(c) == Kind[c] = "builtin"

\* Only the calls of the latest message may be open.
WellFormed(t, known) ==
    /\ t.last \subseteq t.asked /\ t.asked \subseteq t.answered \cup t.last
    /\ t.asked \cup t.answered \subseteq known

\* A transcript that waits for the user.
Resumable(t, known) ==
    /\ WellFormed(t, known) /\ Unanswered(t) # {}
    /\ \A c \in Unanswered(t) : ~IsBuiltin(c)

\* A run that goes through the calls of a turn, with those it has left to the user.
Calling(x) ==
    /\ x.todo \cup x.call \subseteq Unanswered(x.t) /\ x.todo \cap x.call = {}
    /\ x.pc = "calls" => x.call = {}
    /\ \A c \in Unanswered(x.t) \ (x.todo \cup x.call) : x.paused /\ ~IsBuiltin(c)
    /\ x.paused => Unanswered(x.t) \ (x.todo \cup x.call) # {}

RunSound(x, known, once) ==
    /\ WellFormed(x.t, known)
    /\ x.pc \in {"calls", "tool"} => Calling(x)
    /\ x.pc \notin {"calls", "tool"} => x.todo = {} /\ x.call = {} /\ ~x.paused
    /\ x.pc \in {"turn", "model", "judge"} => Unanswered(x.t) = {}
    /\ x.pc = "resume" => \A c \in Unanswered(x.t) : ~IsBuiltin(c)
    /\ \A c \in x.todo : IsBuiltin(c) => c \notin once

AgentInv ==
    /\ AgentShape
    /\ \A r \in Runs : RunSound(run[r], invented, ran.once)
    /\ \A r, q \in Runs : r # q => \A c \in run[r].todo \cap run[q].todo : ~IsBuiltin(c)
    /\ \A t \in page.cont : Resumable(t, invented)
    /\ page.inline \cup ran.once \subseteq invented
    /\ \A c \in ran.again : ~IsBuiltin(c)

\* What a run has to do was asked for.
LEMMA TodoKnown ==
    ASSUME NEW known, NEW once, NEW x, RunSound(x, known, once)
    PROVE  x.todo \subseteq known
BY DEF RunSound, WellFormed, Calling, Unanswered

\* A step of one run, or of the page that starts it.
LEMMA OneRun ==
    ASSUME AgentInv, NEW r \in Runs, NEW x \in Run, run' = [run EXCEPT ![r] = x], AgentShape',
           invented \subseteq invented', RunSound(x, invented', ran'.once),
           \A c \in x.todo : c \in run[r].todo \/ c \notin invented \/ ~IsBuiltin(c),
           \A c \in ran'.once \ ran.once : IsBuiltin(c) => c \in run[r].todo,
           \A t \in page'.cont : t \in page.cont \/ Resumable(t, invented'),
           page'.inline \cup ran'.once \subseteq invented',
           \A c \in ran'.again : ~IsBuiltin(c)
    PROVE  AgentInv'
<1>1. \A q \in Runs : run'[q] = IF q = r THEN x ELSE run[q]
  BY DEF AgentInv, AgentShape
<1>2. \A q \in Runs : run[q].todo \subseteq invented
  BY TodoKnown DEF AgentInv
<1>3. ASSUME NEW q \in Runs PROVE RunSound(run'[q], invented', ran'.once)
  <2>1. CASE q = r
    BY <1>1, <2>1
  <2>2. CASE q # r
    <3>1. run'[q] = run[q] /\ RunSound(run[q], invented, ran.once)
      BY <1>1, <2>2 DEF AgentInv
    <3>2. \A c \in run[q].todo : IsBuiltin(c) => c \notin ran'.once
      BY <2>2, <3>1 DEF AgentInv, RunSound
    <3>3. WellFormed(run[q].t, invented')
      BY <3>1 DEF RunSound, WellFormed
    <3> QED BY <3>1, <3>2, <3>3 DEF RunSound
  <2> QED BY <2>1, <2>2
<1>4. ASSUME NEW p \in Runs, NEW q \in Runs, p # q, NEW c \in run'[p].todo \cap run'[q].todo
      PROVE  ~IsBuiltin(c)
  <2>1. CASE p = r
    BY <1>1, <1>2, <1>4, <2>1 DEF AgentInv
  <2>2. CASE q = r
    BY <1>1, <1>2, <1>4, <2>2 DEF AgentInv
  <2>3. CASE p # r /\ q # r
    BY <1>1, <1>4, <2>3 DEF AgentInv
  <2> QED BY <2>1, <2>2, <2>3
<1>5. ASSUME NEW t \in page'.cont PROVE Resumable(t, invented')
  BY DEF AgentInv, Resumable, WellFormed
<1> QED BY <1>3, <1>4, <1>5 DEF AgentInv

\* A request that has called nothing yet.
NothingCalled(x) == x.pc \in {"turn", "resume"} /\ x.todo = {} /\ x.call = {} /\ ~x.paused

\* What the page starts from.
LEMMA Records ==
    /\ NoRun \in Run /\ EmptyTranscript \in Transcript
    /\ \A known : WellFormed(EmptyTranscript, known) /\ Unanswered(EmptyTranscript) = {}
<1>1. EmptyTranscript \in Transcript
  BY DEF EmptyTranscript, Transcript
<1>2. NoRun \in Run
  BY <1>1, AgentAssumption DEF NoRun, Run, RunPcs
<1>3. \A known : WellFormed(EmptyTranscript, known) /\ Unanswered(EmptyTranscript) = {}
  BY DEF EmptyTranscript, WellFormed, Unanswered
<1> QED BY <1>1, <1>2, <1>3

\* The page starts a run.
LEMMA Starts ==
    ASSUME AgentInv, NEW x \in Run, NEW cont, StartRun(x, cont), NothingCalled(x), UNCHANGED <<invented, ran>>,
           WellFormed(x.t, invented), \A c \in Unanswered(x.t) : ~IsBuiltin(c),
           x.pc = "turn" => Unanswered(x.t) = {},
           cont \subseteq page.cont
    PROVE  AgentInv'
<1>1. PICK r \in Runs :
         /\ run' = [run EXCEPT ![r] = x]
         /\ page' = [page EXCEPT !.approval = {}, !.inline = {}, !.cont = cont, !.running = TRUE, !.ctl = r]
  BY DEF StartRun
<1>2. page' \in Page /\ page'.cont = cont /\ page'.inline = {}
  BY <1>1 DEF AgentInv, AgentShape, Page
<1>3. AgentShape'
  BY <1>1, <1>2 DEF AgentInv, AgentShape
<1>4. RunSound(x, invented', ran'.once)
  BY DEF RunSound, NothingCalled
<1>5. \A c \in x.todo : c \in run[r].todo \/ c \notin invented \/ ~IsBuiltin(c)
  BY DEF NothingCalled
<1>6. page'.inline \cup ran'.once \subseteq invented' /\ \A c \in ran'.again : ~IsBuiltin(c)
  BY <1>2 DEF AgentInv
<1> QED BY <1>1, <1>2, <1>3, <1>4, <1>5, <1>6, OneRun

\* A run returns, with what the page may send back.
LEMMA Returns ==
    ASSUME AgentInv, NEW r \in Runs, NEW cont, Return(r, cont), UNCHANGED <<invented, ran>>,
           cont \subseteq Transcript, \A t \in cont : Resumable(t, invented)
    PROVE  AgentInv'
<1> DEFINE x == [NoRun EXCEPT !.pc = "over"]
<1>1. x \in Run /\ x.pc = "over" /\ x.todo = {} /\ x.call = {} /\ ~x.paused /\ x.t = EmptyTranscript
  BY Records DEF NoRun, Run, RunPcs
<1>2. page' \in Page /\ page'.inline = page.inline /\ \A t \in page'.cont : t \in page.cont \/ t \in cont
  BY DEF Return, AgentInv, AgentShape, Page
<1>3. run' = [run EXCEPT ![r] = x]
  BY DEF Return
<1> HIDE DEF x
<1>4. AgentShape'
  BY <1>1, <1>2, <1>3 DEF AgentInv, AgentShape
<1>5. RunSound(x, invented', ran'.once)
  BY <1>1, Records DEF RunSound
<1>6. page'.inline \cup ran'.once \subseteq invented' /\ \A c \in ran'.again : ~IsBuiltin(c)
  BY <1>2 DEF AgentInv
<1> QED BY <1>1, <1>2, <1>3, <1>4, <1>5, <1>6, OneRun

\* A run goes on and tells nobody.
LEMMA GoesOn ==
    ASSUME AgentInv, NEW r \in Runs, NEW x \in Run, run' = [run EXCEPT ![r] = x], UNCHANGED <<page, ran>>,
           invented \subseteq invented', invented' \subseteq Calls, RunSound(x, invented', ran.once),
           \A c \in x.todo : c \in run[r].todo \/ c \notin invented \/ ~IsBuiltin(c)
    PROVE  AgentInv'
<1>1. AgentShape'
  BY DEF AgentInv, AgentShape
<1>2. page'.inline \cup ran'.once \subseteq invented' /\ \A c \in ran'.again : ~IsBuiltin(c)
  BY DEF AgentInv
<1> QED BY <1>1, <1>2, OneRun

-----------------------------------------------------------------------------
(* The page. *)

\* What the user does.
LEMMA PageStep ==
    ASSUME AgentInv,
           Send \/ SubmitToolResult \/ ApproveMcp \/ RejectMcp \/ ToggleAutoRun \/ ResetPage \/ RestoreSnap \/ Stop
    PROVE  AgentInv'
<1>0. page \in Page /\ NoRun \in Run /\ page.toggle \in BOOLEAN
  BY Records DEF AgentInv, AgentShape, Page
<1>1. CASE Send
  <2>1. PICK plan \in BOOLEAN, resend \in BOOLEAN :
           StartRun([NoRun EXCEPT !.pc = IF resend THEN "resume" ELSE "turn", !.plan = plan /\ ~resend,
                                  !.auto = page.toggle], {})
    BY <1>1 DEF Send
  <2> DEFINE x == [NoRun EXCEPT !.pc = IF resend THEN "resume" ELSE "turn", !.plan = plan /\ ~resend,
                                !.auto = page.toggle]
  <2>2. /\ x \in Run /\ x.t = EmptyTranscript /\ NothingCalled(x)
    <3>1. (plan /\ ~resend) \in BOOLEAN /\ (IF resend THEN "resume" ELSE "turn") \in {"turn", "resume"}
      BY Zenon
    <3> QED BY <1>0, <3>1 DEF NoRun, Run, RunPcs, NothingCalled
  <2>3. StartRun(x, {})
    BY <2>1
  <2> HIDE DEF x
  <2>4. UNCHANGED <<invented, ran>>
    BY <1>1 DEF Send
  <2> QED BY <2>2, <2>3, <2>4, Records, Starts
<1>2. CASE SubmitToolResult
  <2>1. PICK t \in page.cont :
          StartRun([NoRun EXCEPT !.pc = "resume", !.t = [t EXCEPT !.answered = @ \cup page.inline],
                                 !.auto = page.toggle], page.cont)
    BY <1>2 DEF SubmitToolResult
  <2> DEFINE u == [t EXCEPT !.answered = @ \cup page.inline]
             x == [NoRun EXCEPT !.pc = "resume", !.t = u, !.auto = page.toggle]
  <2>2. /\ u \in Transcript /\ u.answered = t.answered \cup page.inline /\ u.asked = t.asked
        /\ u.last = t.last
    BY <1>0 DEF Page, Transcript
  <2>3. WellFormed(u, invented) /\ \A c \in Unanswered(u) : ~IsBuiltin(c)
    <3> HIDE DEF u
    <3> QED BY <2>2 DEF AgentInv, Resumable, WellFormed, Unanswered
  <2>4. StartRun(x, page.cont)
    BY <2>1
  <2> HIDE DEF u
  <2>5. x \in Run /\ x.t = u /\ NothingCalled(x) /\ x.pc = "resume"
    BY <1>0, <2>2 DEF NoRun, Run, RunPcs, NothingCalled
  <2> HIDE DEF x
  <2>6. UNCHANGED <<invented, ran>>
    BY <1>2 DEF SubmitToolResult
  <2> QED BY <2>3, <2>4, <2>5, <2>6, Starts
<1>3. CASE ApproveMcp
  <2>1. PICK t \in page.cont :
          StartRun([NoRun EXCEPT !.pc = "resume", !.t = t, !.auto = TRUE], page.cont)
    BY <1>3 DEF ApproveMcp
  <2> DEFINE x == [NoRun EXCEPT !.pc = "resume", !.t = t, !.auto = TRUE]
  <2>2. t \in Transcript
    BY <1>0 DEF Page
  <2>3. x \in Run /\ x.t = t /\ NothingCalled(x) /\ x.pc = "resume"
    BY <1>0, <2>2 DEF NoRun, Run, RunPcs, NothingCalled, Page
  <2>4. StartRun(x, page.cont)
    BY <2>1
  <2> HIDE DEF x
  <2>5. WellFormed(t, invented) /\ \A c \in Unanswered(t) : ~IsBuiltin(c)
    BY DEF AgentInv, Resumable
  <2>6. UNCHANGED <<invented, ran>>
    BY <1>3 DEF ApproveMcp
  <2> QED BY <2>3, <2>4, <2>5, <2>6, Starts
<1>4. CASE RejectMcp \/ ToggleAutoRun \/ ResetPage \/ RestoreSnap
  <2>1. page' \in Page /\ page'.cont \subseteq page.cont /\ page'.inline \subseteq page.inline
    <3>1. CASE RejectMcp \/ ToggleAutoRun \/ ResetPage
      BY <1>0, <3>1 DEF RejectMcp, ToggleAutoRun, ResetPage, Page
    <3>2. CASE RestoreSnap
      BY <3>2 DEF RestoreSnap, Page
    <3> QED BY <1>4, <3>1, <3>2
  <2>2. UNCHANGED <<run, invented, ran>>
    BY <1>4 DEF RejectMcp, ToggleAutoRun, ResetPage, RestoreSnap
  <2> QED BY <2>1, <2>2 DEF AgentInv, AgentShape
<1>5. CASE Stop
  <2> DEFINE r == page.ctl
             x == [run[r] EXCEPT !.closed = TRUE]
  <2>1. r \in Runs /\ run[r] \in Run
    BY <1>0, <1>5 DEF Stop, Page, AgentInv, AgentShape
  <2>2. x \in Run /\ x.t = run[r].t /\ x.pc = run[r].pc /\ x.todo = run[r].todo /\ x.call = run[r].call
        /\ x.paused = run[r].paused
    BY <2>1 DEF Run
  <2>3. run' = [run EXCEPT ![r] = x]
    BY <1>5, <2>1 DEF Stop
  <2>4. page' \in Page /\ page'.cont = page.cont /\ page'.inline = page.inline
    BY <1>0, <1>5 DEF Stop, Page
  <2> HIDE DEF x
  <2>5. UNCHANGED <<invented, ran>>
    BY <1>5 DEF Stop
  <2>6. RunSound(x, invented', ran'.once)
    BY <2>1, <2>2, <2>5 DEF AgentInv, RunSound, Calling
  <2>7. AgentShape'
    BY <2>1, <2>2, <2>3, <2>4, <2>5 DEF AgentInv, AgentShape
  <2>8. page'.inline \cup ran'.once \subseteq invented' /\ \A c \in ran'.again : ~IsBuiltin(c)
    BY <2>4, <2>5 DEF AgentInv
  <2> HIDE DEF r
  <2> QED BY <2>1, <2>2, <2>3, <2>4, <2>5, <2>6, <2>7, <2>8, OneRun
<1> QED BY <1>1, <1>2, <1>3, <1>4, <1>5

-----------------------------------------------------------------------------
(* The runs. *)

\* Turns: what is sent to the model is whole.
LEMMA TurnStep ==
    ASSUME AgentInv, NEW r \in Runs,
           Resume(r) \/ Turn(r) \/ ModelFails(r) \/ ModelPlans(r) \/ ModelAnswers(r) \/ Judge(r)
    PROVE  AgentInv'
<1>0. run[r] \in Run /\ RunSound(run[r], invented, ran.once) /\ invented \subseteq Calls
  BY DEF AgentInv, AgentShape
<1>1. CASE Return(r, {}) /\ UNCHANGED <<invented, ran>>
  BY <1>1, Returns
<1>2. CASE Resume(r) /\ ~Aborted(r)
  <2> DEFINE open == Unanswered(run[r].t)
             x == [run[r] EXCEPT !.pc = IF open = {} THEN "turn" ELSE "calls", !.todo = open]
  <2>1. run' = [run EXCEPT ![r] = x] /\ UNCHANGED <<page, invented, ran>> /\ run[r].pc = "resume"
    BY <1>2 DEF Resume
  <2>2. open \subseteq Calls
    BY <1>0 DEF Run, Transcript, Unanswered
  <2>3. /\ x \in Run /\ x.t = run[r].t /\ x.todo = open /\ x.call = run[r].call /\ x.paused = run[r].paused
        /\ x.pc = IF open = {} THEN "turn" ELSE "calls"
    BY <1>0, <2>2 DEF Run, RunPcs
  <2>4. open = Unanswered(run[r].t)
    OBVIOUS
  <2> HIDE DEF x, open
  <2>5. x.call = {} /\ ~x.paused /\ \A c \in open : ~IsBuiltin(c)
    BY <1>0, <2>1, <2>3, <2>4 DEF RunSound
  <2>6. RunSound(x, invented, ran.once)
    BY <1>0, <2>3, <2>4, <2>5 DEF RunSound, Calling
  <2>7. \A c \in x.todo : c \in run[r].todo \/ ~IsBuiltin(c)
    BY <2>3, <2>5
  <2> QED BY <1>0, <2>1, <2>3, <2>6, <2>7, GoesOn
<1>3. CASE Turn(r) /\ ~Aborted(r)
  <2> DEFINE x == [run[r] EXCEPT !.pc = IF run[r].turns = MaxSteps THEN "judge" ELSE "model",
                                 !.turns = IF @ = MaxSteps THEN @ ELSE @ + 1]
  <2>1. run' = [run EXCEPT ![r] = x] /\ UNCHANGED <<page, invented, ran>> /\ run[r].pc = "turn"
    BY <1>3 DEF Turn
  <2>2. /\ x \in Run /\ x.t = run[r].t /\ x.todo = run[r].todo /\ x.call = run[r].call
        /\ x.paused = run[r].paused /\ x.pc \in {"judge", "model"}
    <3>1. (IF run[r].turns = MaxSteps THEN run[r].turns ELSE run[r].turns + 1) \in 0..MaxSteps
      BY <1>0, AgentAssumption DEF Run
    <3> QED BY <1>0, <3>1 DEF Run, RunPcs
  <2> HIDE DEF x
  <2>3. RunSound(x, invented, ran.once)
    BY <1>0, <2>1, <2>2 DEF RunSound
  <2> QED BY <1>0, <2>1, <2>2, <2>3, GoesOn
<1>4. CASE ModelPlans(r)
  <2> DEFINE x == [run[r] EXCEPT !.pc = "turn"]
  <2>1. run' = [run EXCEPT ![r] = x] /\ UNCHANGED <<page, invented, ran>> /\ run[r].pc = "model"
    BY <1>4 DEF ModelPlans
  <2>2. /\ x \in Run /\ x.t = run[r].t /\ x.todo = run[r].todo /\ x.call = run[r].call
        /\ x.paused = run[r].paused /\ x.pc = "turn"
    BY <1>0 DEF Run, RunPcs
  <2> HIDE DEF x
  <2>3. RunSound(x, invented, ran.once)
    BY <1>0, <2>1, <2>2 DEF RunSound
  <2> QED BY <1>0, <2>1, <2>2, <2>3, GoesOn
<1>5. CASE ModelAnswers(r)
  <2>1. PICK calls \in SUBSET (Calls \ invented) :
           /\ invented' = invented \cup calls
           /\ run' = [run EXCEPT ![r].pc = IF calls = {} THEN "judge" ELSE "calls", ![r].todo = calls,
                                 ![r].t = IF calls = {} THEN @
                                          ELSE [asked |-> @.asked \cup calls, answered |-> @.answered,
                                                last |-> calls]]
    BY <1>5 DEF ModelAnswers
  <2>2. UNCHANGED <<page, ran>> /\ run[r].pc = "model" /\ run[r].t \in Transcript
    BY <1>0, <1>5 DEF ModelAnswers, Run
  <2>3. CASE calls = {}
    <3> DEFINE x == [run[r] EXCEPT !.pc = "judge"]
    <3>0. run[r].todo = {}
      BY <1>0, <2>2 DEF RunSound
    <3>1. run' = [run EXCEPT ![r] = x] /\ invented' = invented
      BY <1>0, <2>1, <2>3, <3>0 DEF Run
    <3>2. /\ x \in Run /\ x.t = run[r].t /\ x.todo = run[r].todo /\ x.call = run[r].call
          /\ x.paused = run[r].paused /\ x.pc = "judge"
      BY <1>0 DEF Run, RunPcs
    <3> HIDE DEF x
    <3>3. RunSound(x, invented, ran.once)
      BY <1>0, <2>2, <3>2 DEF RunSound
    <3> QED BY <1>0, <2>2, <3>1, <3>2, <3>3, GoesOn
  <2>4. CASE calls # {}
    <3> DEFINE t == [asked |-> run[r].t.asked \cup calls, answered |-> run[r].t.answered, last |-> calls]
               x == [run[r] EXCEPT !.pc = "calls", !.todo = calls, !.t = t]
    <3>2. run' = [run EXCEPT ![r] = x]
      BY <1>0, <2>1, <2>4 DEF Run
    <3>3. t \in Transcript /\ t.asked = run[r].t.asked \cup calls /\ t.answered = run[r].t.answered
          /\ t.last = calls
      BY <2>2 DEF Transcript
    <3> HIDE DEF t
    <3>4. /\ x \in Run /\ x.t = t /\ x.todo = calls /\ x.call = run[r].call
          /\ x.paused = run[r].paused /\ x.pc = "calls"
      BY <1>0, <3>3 DEF Run, RunPcs
    <3> HIDE DEF x
    <3>5. x.call = {} /\ ~x.paused /\ WellFormed(run[r].t, invented) /\ Unanswered(run[r].t) = {}
      BY <1>0, <2>2, <3>4 DEF RunSound
    <3>6. WellFormed(t, invented') /\ Unanswered(t) = calls
      BY <2>1, <3>3, <3>5 DEF WellFormed, Unanswered
    <3>7. ran.once \subseteq invented
      BY DEF AgentInv
    <3>8. RunSound(x, invented', ran.once)
      BY <2>1, <3>4, <3>5, <3>6, <3>7 DEF RunSound, Calling
    <3> QED BY <1>0, <2>1, <2>2, <3>2, <3>4, <3>8, GoesOn
  <2> QED BY <2>3, <2>4
<1> QED BY <1>1, <1>2, <1>3, <1>4, <1>5 DEF Resume, Turn, ModelFails, Judge

\* Calls: each is answered, or the user is asked and the run pauses.
LEMMA CallStep ==
    ASSUME AgentInv, NEW r \in Runs,
           CallUnknown(r) \/ CallTool(r) \/ ToolReturns(r) \/ AskPage(r) \/ EndCalls(r)
    PROVE  AgentInv'
<1>0. /\ run[r] \in Run /\ RunSound(run[r], invented, ran.once) /\ invented \subseteq Calls
      /\ run[r].t \in Transcript /\ page \in Page /\ run[r].pc \in {"calls", "tool"}
  BY DEF AgentInv, AgentShape, Run, CallUnknown, CallTool, ToolReturns, AskPage, EndCalls
<1>a. /\ Calling(run[r]) /\ WellFormed(run[r].t, invented)
      /\ \A c \in run[r].todo : c \in Calls /\ (IsBuiltin(c) => c \notin ran.once)
  BY <1>0 DEF RunSound, Run
<1>1. CASE CallUnknown(r)
  <2>1. PICK c \in run[r].todo :
           /\ Kind[c] = "mcp"
           /\ run' = [run EXCEPT ![r].todo = @ \ {c}, ![r].t.answered = @ \cup {c}]
    BY <1>1 DEF CallUnknown
  <2> DEFINE t == [run[r].t EXCEPT !.answered = @ \cup {c}]
             x == [run[r] EXCEPT !.todo = @ \ {c}, !.t = t]
  <2>2. run' = [run EXCEPT ![r] = x] /\ UNCHANGED <<page, invented, ran>> /\ run[r].pc = "calls"
    <3>1. UNCHANGED <<page, invented, ran>> /\ run[r].pc = "calls"
      BY <1>1 DEF CallUnknown
    <3>2. run' = [run EXCEPT ![r] = x]
      BY <1>0, <2>1 DEF Run, Transcript
    <3> QED BY <3>1, <3>2
  <2>3. t \in Transcript /\ t.asked = run[r].t.asked /\ t.answered = run[r].t.answered \cup {c}
        /\ t.last = run[r].t.last
    BY <1>0, <1>a DEF Transcript
  <2> HIDE DEF t
  <2>4. /\ x \in Run /\ x.t = t /\ x.todo = run[r].todo \ {c} /\ x.call = run[r].call
        /\ x.paused = run[r].paused /\ x.pc = run[r].pc
    BY <1>0, <2>3 DEF Run
  <2> HIDE DEF x
  <2>5. WellFormed(t, invented) /\ Unanswered(t) = Unanswered(run[r].t) \ {c}
    BY <1>a, <2>3 DEF WellFormed, Unanswered, Calling
  <2>6. Calling(x)
    BY <1>a, <2>2, <2>4, <2>5 DEF Calling
  <2>7. RunSound(x, invented, ran.once)
    BY <1>0, <1>a, <2>2, <2>4, <2>5, <2>6 DEF RunSound
  <2> QED BY <1>0, <2>2, <2>4, <2>7, GoesOn
<1>2. CASE CallTool(r)
  <2>1. PICK c \in run[r].todo :
           /\ RunsHere(r, c)
           /\ run' = [run EXCEPT ![r].pc = "tool", ![r].todo = @ \ {c}, ![r].call = {c}, ![r].paused = PausedBy(r, c)]
           /\ ran' = [once |-> ran.once \cup {c}, again |-> ran.again \cup (ran.once \cap {c})]
    BY <1>2 DEF CallTool
  <2> DEFINE x == [run[r] EXCEPT !.pc = "tool", !.todo = @ \ {c}, !.call = {c}, !.paused = PausedBy(r, c)]
  <2>2. run' = [run EXCEPT ![r] = x] /\ UNCHANGED <<page, invented>> /\ run[r].pc = "calls" /\ run[r].call = {}
    <3>1. run[r].pc = "calls" /\ UNCHANGED <<page, invented>>
      BY <1>2 DEF CallTool
    <3>2. run' = [run EXCEPT ![r] = x]
      BY <1>0, <2>1 DEF Run
    <3> QED BY <1>a, <3>1, <3>2 DEF Calling
  <2>3. PausedBy(r, c) = run[r].paused
    BY <1>0, <2>1 DEF PausedBy, Run
  <2>4. /\ x \in Run /\ x.t = run[r].t /\ x.todo = run[r].todo \ {c} /\ x.call = {c}
        /\ x.paused = run[r].paused /\ x.pc = "tool"
    BY <1>0, <1>a, <2>3 DEF Run, RunPcs
  <2> HIDE DEF x
  <2>5. /\ ran' \in [once: SUBSET Calls, again: SUBSET Calls]
        /\ ran'.once = ran.once \cup {c} /\ ran'.again = ran.again \cup (ran.once \cap {c})
    BY <1>a, <2>1 DEF AgentInv, AgentShape
  <2>6. Calling(x)
    BY <1>a, <2>2, <2>4 DEF Calling
  <2>7. RunSound(x, invented', ran'.once)
    BY <1>0, <1>a, <2>2, <2>4, <2>5, <2>6 DEF RunSound
  <2>8. AgentShape'
    BY <2>2, <2>4, <2>5 DEF AgentInv, AgentShape
  <2>9. c \in invented /\ run[r].todo \subseteq invented
    BY <1>0, TodoKnown
  <2>10. page'.inline \cup ran'.once \subseteq invented' /\ \A d \in ran'.again : ~IsBuiltin(d)
    BY <1>a, <2>2, <2>5, <2>9 DEF AgentInv
  <2>11. \A d \in ran'.once \ ran.once : IsBuiltin(d) => d \in run[r].todo
    BY <2>5
  <2> QED BY <2>2, <2>4, <2>7, <2>8, <2>10, <2>11, OneRun
<1>3. CASE ToolReturns(r)
  <2> DEFINE t == [run[r].t EXCEPT !.answered = @ \cup run[r].call]
             x == [run[r] EXCEPT !.pc = "calls", !.call = {}, !.t = t]
  <2>1. run' = [run EXCEPT ![r] = x] /\ UNCHANGED <<page, invented, ran>> /\ run[r].pc = "tool"
    <3>1. /\ UNCHANGED <<page, invented, ran>> /\ run[r].pc = "tool"
          /\ run' = [run EXCEPT ![r].pc = "calls", ![r].call = {}, ![r].t.answered = @ \cup run[r].call]
      BY <1>3 DEF ToolReturns
    <3>2. run' = [run EXCEPT ![r] = x]
      BY <1>0, <3>1 DEF Run, Transcript
    <3> QED BY <3>1, <3>2
  <2>2. t \in Transcript /\ t.asked = run[r].t.asked /\ t.answered = run[r].t.answered \cup run[r].call
        /\ t.last = run[r].t.last
    BY <1>0 DEF Transcript, Run
  <2> HIDE DEF t
  <2>3. /\ x \in Run /\ x.t = t /\ x.todo = run[r].todo /\ x.call = {}
        /\ x.paused = run[r].paused /\ x.pc = "calls"
    BY <1>0, <2>2 DEF Run, RunPcs
  <2> HIDE DEF x
  <2>4. WellFormed(t, invented) /\ Unanswered(t) = Unanswered(run[r].t) \ run[r].call
    BY <1>a, <2>2 DEF WellFormed, Unanswered, Calling
  <2>5. Calling(x)
    BY <1>a, <2>3, <2>4 DEF Calling
  <2>6. RunSound(x, invented, ran.once)
    BY <1>0, <1>a, <2>3, <2>4, <2>5 DEF RunSound
  <2> QED BY <1>0, <2>1, <2>3, <2>6, GoesOn
<1>4. CASE AskPage(r)
  <2>1. PICK c \in run[r].todo :
           /\ ~RunsHere(r, c)
           /\ run' = [run EXCEPT ![r].todo = @ \ {c}, ![r].paused = PausedBy(r, c)]
           /\ page' = IF Kind[c] = "mcp" THEN [page EXCEPT !.approval = {c}] ELSE [page EXCEPT !.inline = {c}]
    BY <1>4 DEF AskPage
  <2> DEFINE x == [run[r] EXCEPT !.todo = @ \ {c}, !.paused = PausedBy(r, c)]
  <2>2. run' = [run EXCEPT ![r] = x] /\ UNCHANGED <<invented, ran>> /\ run[r].pc = "calls" /\ run[r].call = {}
    BY <1>a, <1>4, <2>1 DEF AskPage, Calling
  <2>3. PausedBy(r, c) = TRUE /\ ~IsBuiltin(c)
    BY <2>1 DEF PausedBy, RunsHere, IsBuiltin
  <2>4. /\ x \in Run /\ x.t = run[r].t /\ x.todo = run[r].todo \ {c} /\ x.call = {}
        /\ x.paused /\ x.pc = "calls"
    BY <1>0, <2>2, <2>3 DEF Run
  <2> HIDE DEF x
  <2>5. c \in Calls /\ c \in invented /\ run[r].todo \subseteq invented
    BY <1>0, <1>a, TodoKnown
  <2>6. page' \in Page /\ page'.cont = page.cont /\ page'.inline \subseteq page.inline \cup {c}
    BY <1>0, <2>1, <2>5 DEF Page
  <2>7. c \in Unanswered(run[r].t)
    BY <1>a DEF Calling
  <2>8. Calling(x)
    BY <1>a, <2>2, <2>3, <2>4, <2>7 DEF Calling
  <2>9. RunSound(x, invented', ran'.once)
    BY <1>0, <1>a, <2>2, <2>4, <2>8 DEF RunSound
  <2>10. AgentShape'
    BY <2>2, <2>4, <2>6 DEF AgentInv, AgentShape
  <2>11. page'.inline \cup ran'.once \subseteq invented' /\ \A d \in ran'.again : ~IsBuiltin(d)
    BY <2>2, <2>5, <2>6 DEF AgentInv
  <2> QED BY <2>2, <2>4, <2>6, <2>9, <2>10, <2>11, OneRun
<1>5. CASE EndCalls(r) /\ ~Aborted(r)
  <2>1. run[r].pc = "calls" /\ run[r].todo = {} /\ run[r].call = {} /\ UNCHANGED <<invented, ran>>
    BY <1>a, <1>5 DEF EndCalls, Calling
  <2>2. CASE run[r].paused
    <3>1. Resumable(run[r].t, invented)
      BY <1>a, <2>1, <2>2 DEF Calling, Resumable
    <3>2. Return(r, {run[r].t})
      BY <1>5, <2>2 DEF EndCalls
    <3> QED BY <1>0, <2>1, <3>1, <3>2, Returns
  <2>3. CASE ~run[r].paused
    <3> DEFINE x == [run[r] EXCEPT !.pc = "turn"]
    <3>1. run' = [run EXCEPT ![r] = x] /\ UNCHANGED page
      BY <1>5, <2>3 DEF EndCalls
    <3>2. /\ x \in Run /\ x.t = run[r].t /\ x.todo = {} /\ x.call = {}
          /\ ~x.paused /\ x.pc = "turn"
      BY <1>0, <2>1, <2>3 DEF Run, RunPcs
    <3> HIDE DEF x
    <3>3. Unanswered(run[r].t) = {}
      BY <1>a, <2>1, <2>3 DEF Calling
    <3>4. RunSound(x, invented, ran.once)
      BY <1>a, <3>2, <3>3 DEF RunSound
    <3> QED BY <1>0, <2>1, <3>1, <3>2, <3>4, GoesOn
  <2> QED BY <2>2, <2>3
<1>6. CASE EndCalls(r) /\ Aborted(r)
  BY <1>6, Returns DEF EndCalls
<1> QED BY <1>1, <1>2, <1>3, <1>4, <1>5, <1>6

\* All steps.
LEMMA AgentStep == AgentInv /\ [AgentNext]_agentVars => AgentInv'
<1>1. ASSUME AgentInv, UNCHANGED agentVars PROVE AgentInv'
  BY <1>1 DEF agentVars, AgentInv, AgentShape
<1> QED BY <1>1, PageStep, TurnStep, CallStep DEF AgentNext, RunStep

\* At first there are no runs and no transcripts.
LEMMA AgentInitial == AgentInit => AgentInv
<1> SUFFICES ASSUME AgentInit PROVE AgentInv
  OBVIOUS
<1>1. AgentShape /\ page.cont = {} /\ page.inline = {} /\ ran.once = {} /\ ran.again = {}
  BY Records DEF AgentInit, AgentShape, Page
<1>2. \A r \in Runs : RunSound(run[r], invented, ran.once) /\ run[r].todo = {}
  BY Records DEF AgentInit, RunSound, NoRun
<1> QED BY <1>1, <1>2 DEF AgentInv

\* The model is never given a transcript in which a call has no answer
\* (agent-loop.service.ts): a run that left one to the user returns before its next
\* turn, and a continuation goes through the open ones first.
THEOREM TranscriptSafe == AgentSpec => []TranscriptWhole
<1>1. AgentInv => TranscriptWhole
  BY DEF AgentInv, RunSound, WellFormed, Unanswered, TranscriptWhole
<1> QED BY <1>1, AgentInitial, AgentStep, PTL DEF AgentSpec

\* What the page keeps to send back has open calls that are for the user alone, and
\* no builtin is executed twice however often it is sent.
THEOREM PauseSafe == AgentSpec => []ResumesFromThePause
<1>1. ASSUME AgentInv PROVE ResumesFromThePause
  <2>1. ASSUME NEW t \in page.cont, NEW c \in Unanswered(t) PROVE Kind[c] \in {"mcp", "inline"}
    <3>1. c \in Calls /\ ~IsBuiltin(c)
      BY <1>1 DEF AgentInv, AgentShape, Resumable, WellFormed, Unanswered
    <3> QED BY <3>1, AgentAssumption DEF IsBuiltin, Kinds
  <2> QED BY <1>1, <2>1 DEF AgentInv, Resumable, ResumesFromThePause, IsBuiltin
<1> QED BY <1>1, AgentInitial, AgentStep, PTL DEF AgentSpec
=============================================================================
