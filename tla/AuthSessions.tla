---------------------------- MODULE AuthSessions ----------------------------
(***************************************************************************)
(* Sessions of one browser: its tabs share a cookie jar and refresh under  *)
(* a Web Lock where there is one, and AuthService rotates refresh tokens   *)
(* in serializable transactions that lock the presented row, are retried   *)
(* once when they are refused, and answer a token that was just rotated    *)
(* within a grace window.  A refused or lost request may be made again at  *)
(* any time.  Access tokens, the in-memory store and the expiry of refresh  *)
(* tokens, days away, are left out.                                        *)
(***************************************************************************)
EXTENDS Naturals, FiniteSets

CONSTANTS
    Tabs,
    WebLocks,      \* navigator.locks exists
    MaxTokens,     \* bound on refresh tokens
    MaxRequests,   \* bound on refresh and logout requests
    MaxAuthFaults  \* bound on answers and requests that are lost and on transactions
                   \* that are refused without a conflict of theirs

ASSUME AuthAssumption ==
    /\ WebLocks \in BOOLEAN /\ MaxTokens \in Nat \ {0}
    /\ {MaxRequests, MaxAuthFaults} \subseteq Nat

Tokens == 1..MaxTokens
NoToken == 0
Requests == 1..MaxRequests

VARIABLES
    refreshTokens,   \* the table
    recent,          \* tokens revoked less than GRACE_WINDOW_MS ago
    jar,             \* the refresh cookie
    tab,             \* where coordinatedRefresh of each tab is
    request,
    replayed,        \* tokens answered in the grace window
    alarms,          \* tokens that were rotated and later taken for stolen
    aborts, lost

authVars == <<refreshTokens, recent, jar, tab, request, replayed, alarms, aborts, lost>>

\* A row: family is the root of the chain, next the token that replaced it.
TokenRow == [there: BOOLEAN, family: Tokens \cup {NoToken}, live: BOOLEAN, next: Tokens \cup {NoToken}]
NoRow == [there |-> FALSE, family |-> NoToken, live |-> FALSE, next |-> NoToken]
Root(t) == [there |-> TRUE, family |-> t, live |-> TRUE, next |-> NoToken]

RequestPcs == {"none", "sent", "waiting", "locked", "answered", "over"}
Outcomes == {"none", "rotated", "replayed", "refused", "theft", "error", "loggedOut"}
NoSeen == [t \in Tokens |-> NoRow]

\* heard: the browser still waits for the answer.  seen: the transaction's snapshot.
Request == [pc: RequestPcs, logout: BOOLEAN, tab: SUBSET Tabs, heard: BOOLEAN, token: Tokens \cup {NoToken},
            seen: [Tokens -> TokenRow], retried: BOOLEAN, outcome: Outcomes]
NoRequest == [pc |-> "none", logout |-> FALSE, tab |-> {}, heard |-> TRUE, token |-> NoToken,
              seen |-> NoSeen, retried |-> FALSE, outcome |-> "none"]
Over == [NoRequest EXCEPT !.pc = "over"]

UsedTokens == {t \in Tokens : refreshTokens[t].there}
NextToken(t) == t \notin UsedTokens /\ \A u \in Tokens : u < t => u \in UsedTokens
NextRequest(r) == request[r].pc = "none" /\ \A q \in Requests : q < r => request[q].pc # "none"
InFlight == {r \in Requests : request[r].pc \notin {"none", "over"}}

\* Logged in once.
AuthInit ==
    /\ refreshTokens = [t \in Tokens |-> IF t = 1 THEN Root(1) ELSE NoRow]
    /\ recent = {} /\ jar = 1
    /\ tab = [i \in Tabs |-> "idle"]
    /\ request = [r \in Requests |-> NoRequest]
    /\ replayed = {} /\ alarms = {} /\ aborts = 0 /\ lost = 0

-----------------------------------------------------------------------------
(* The browser. *)

\* At boot, before the access token expires, or after a 401; a tab that is at it
\* already waits for its own call.
StartRefresh(i) ==
    /\ tab[i] = "idle" /\ tab' = [tab EXCEPT ![i] = "queued"]
    /\ UNCHANGED <<refreshTokens, recent, jar, request, replayed, alarms, aborts, lost>>

\* The lock is held until the fetch is over.  Without a cookie the server refuses.
SendRefresh(i) ==
    /\ tab[i] = "queued"
    /\ WebLocks => \A k \in Tabs : tab[k] # "sent"
    /\ IF jar = NoToken
       THEN tab' = [tab EXCEPT ![i] = "idle"] /\ UNCHANGED request
       ELSE \E r \in Requests :
               /\ NextRequest(r)
               /\ request' = [request EXCEPT ![r] = [NoRequest EXCEPT !.pc = "sent", !.tab = {i}, !.token = jar]]
               /\ tab' = [tab EXCEPT ![i] = "sent"]
    /\ UNCHANGED <<refreshTokens, recent, jar, replayed, alarms, aborts, lost>>

\* handleLogout, which no lock guards.
SendLogout ==
    /\ jar # NoToken
    /\ \E r \in Requests :
          /\ NextRequest(r)
          /\ request' = [request EXCEPT ![r] = [NoRequest EXCEPT !.pc = "sent", !.logout = TRUE, !.token = jar]]
    /\ UNCHANGED <<refreshTokens, recent, jar, tab, replayed, alarms, aborts, lost>>

\* register and login: the root of a new chain, in a transaction of its own.
\* Tokens are kept for the rotations the requests may still make.
Login ==
    /\ jar = NoToken
    /\ Cardinality(UsedTokens) + Cardinality({r \in Requests : request[r].pc # "over"}) < MaxTokens
    /\ \E t \in Tokens :
          /\ NextToken(t)
          /\ refreshTokens' = [refreshTokens EXCEPT ![t] = Root(t)]
          /\ jar' = t
    /\ UNCHANGED <<recent, tab, request, replayed, alarms, aborts, lost>>

\* Mutant: what is in flight is cleared by a success only.
AnswerKeepsFailed(r) ==
    /\ request[r].pc = "answered"
    /\ LET q == request[r]
       IN /\ jar' = CASE q.heard /\ q.outcome = "rotated" -> refreshTokens[q.token].next
                      [] q.heard /\ q.outcome = "loggedOut" -> NoToken
                      [] OTHER -> jar
          /\ tab' = [i \in Tabs |-> IF q.heard /\ i \in q.tab /\ q.outcome \in {"rotated", "replayed"}
                                     THEN "idle" ELSE tab[i]]
    /\ request' = [request EXCEPT ![r] = Over]
    /\ UNCHANGED <<refreshTokens, recent, replayed, alarms, aborts, lost>>

\* The answer: only a rotation sets the cookie, and a logout clears it.
Answer(r) ==
    /\ request[r].pc = "answered"
    /\ LET q == request[r]
       IN /\ jar' = CASE q.heard /\ q.outcome = "rotated" -> refreshTokens[q.token].next
                      [] q.heard /\ q.outcome = "loggedOut" -> NoToken
                      [] OTHER -> jar
          /\ tab' = [i \in Tabs |-> IF q.heard /\ i \in q.tab THEN "idle" ELSE tab[i]]
    /\ request' = [request EXCEPT ![r] = Over]
    /\ UNCHANGED <<refreshTokens, recent, replayed, alarms, aborts, lost>>

\* The network fails: the caller is told, the server goes on or never starts.
Lose(r) ==
    /\ r \in InFlight /\ request[r].heard
    /\ aborts + lost < MaxAuthFaults /\ lost' = lost + 1
    /\ tab' = [i \in Tabs |-> IF i \in request[r].tab THEN "idle" ELSE tab[i]]
    /\ \/ request' = [request EXCEPT ![r].heard = FALSE]
       \/ request[r].pc = "sent" /\ request' = [request EXCEPT ![r] = Over]
    /\ UNCHANGED <<refreshTokens, recent, jar, replayed, alarms, aborts>>

-----------------------------------------------------------------------------
(* AuthService.  A transaction takes its snapshot with its first statement, *)
(* which then waits for the row; it is refused when the row has changed.    *)

\* Mutant: the row is read without FOR UPDATE.
LockedByNobody(t) == FALSE

Locked(t) == \E q \in Requests : request[q].pc = "locked" /\ request[q].token = t

\* A refused transaction is tried once more; then the call fails.
Refuse(r) ==
    request' = [request EXCEPT ![r] =
                  IF @.retried THEN [@ EXCEPT !.pc = "answered", !.seen = NoSeen, !.outcome = "error"]
                  ELSE [@ EXCEPT !.pc = "sent", !.seen = NoSeen, !.retried = TRUE]]

TxSelect(r) ==
    /\ request[r].pc = "sent" /\ ~request[r].logout
    /\ request' = [request EXCEPT ![r].pc = IF Locked(request[r].token) THEN "waiting" ELSE "locked",
                                  ![r].seen = refreshTokens]
    /\ UNCHANGED <<refreshTokens, recent, jar, tab, replayed, alarms, aborts, lost>>

\* Mutant: the transaction goes on with its snapshot once it has the lock,
\* though the row has changed.
TxWakeStale(r) ==
    /\ request[r].pc = "waiting" /\ ~Locked(request[r].token)
    /\ request' = [request EXCEPT ![r].pc = "locked"]
    /\ UNCHANGED <<refreshTokens, recent, jar, tab, replayed, alarms, aborts, lost>>

TxWake(r) ==
    /\ request[r].pc = "waiting" /\ ~Locked(request[r].token)
    /\ IF refreshTokens[request[r].token] = request[r].seen[request[r].token]
       THEN request' = [request EXCEPT ![r].pc = "locked"]
       ELSE Refuse(r)
    /\ UNCHANGED <<refreshTokens, recent, jar, tab, replayed, alarms, aborts, lost>>

\* Serializable isolation may refuse for dependencies that are none.
TxRefused(r) ==
    /\ request[r].pc = "locked"
    /\ aborts + lost < MaxAuthFaults /\ aborts' = aborts + 1
    /\ Refuse(r)
    /\ UNCHANGED <<refreshTokens, recent, jar, tab, replayed, alarms, lost>>

Presented(r) == request[r].seen[request[r].token]
EndTx(r, outcome) ==
    request' = [request EXCEPT ![r].pc = "answered", ![r].seen = NoSeen, ![r].outcome = outcome]

\* issueRotation, then revokedAt and replacedById of the parent.
TxRotate(r) ==
    /\ request[r].pc = "locked" /\ Presented(r).live
    /\ \E t \in Tokens :
          /\ NextToken(t)
          /\ refreshTokens' = [refreshTokens EXCEPT
                                 ![t] = [there |-> TRUE, family |-> Presented(r).family, live |-> TRUE, next |-> NoToken],
                                 ![request[r].token].live = FALSE, ![request[r].token].next = t]
    /\ recent' = recent \cup {request[r].token}
    /\ EndTx(r, "rotated")
    /\ UNCHANGED <<jar, tab, replayed, alarms, aborts, lost>>

\* Mutant: the window is looked at the wrong way round.
InGraceInverted(r) == Presented(r).next # NoToken /\ request[r].token \notin recent

InGrace(r) == Presented(r).next # NoToken /\ request[r].token \in recent

TxReplay(r) ==
    /\ request[r].pc = "locked"
    /\ ~Presented(r).live /\ InGrace(r)
    /\ replayed' = replayed \cup {request[r].token}
    /\ EndTx(r, "replayed")
    /\ UNCHANGED <<refreshTokens, recent, jar, tab, alarms, aborts, lost>>

Family(f) == {t \in Tokens : refreshTokens[t].there /\ refreshTokens[t].family = f}

\* The family is revoked, which waits for those that hold its rows, and the
\* transaction is refused when the family has changed since its snapshot.
TxTheft(r) ==
    /\ request[r].pc = "locked"
    /\ ~Presented(r).live /\ ~InGrace(r)
    /\ LET live == {t \in Family(Presented(r).family) : refreshTokens[t].live}
       IN /\ \A t \in live : ~Locked(t)
          /\ IF \A t \in Family(Presented(r).family) : refreshTokens[t] = request[r].seen[t]
             THEN /\ refreshTokens' = [t \in Tokens |-> IF t \in live THEN [refreshTokens[t] EXCEPT !.live = FALSE]
                                                         ELSE refreshTokens[t]]
                  /\ recent' = recent \cup live
                  /\ EndTx(r, "theft")
                  /\ alarms' = IF Presented(r).next # NoToken THEN alarms \cup {request[r].token} ELSE alarms
             ELSE Refuse(r) /\ UNCHANGED <<refreshTokens, recent, alarms>>
    /\ UNCHANGED <<jar, tab, replayed, aborts, lost>>

\* updateMany on the token if it is not revoked, once nobody holds its row.
Logout(r) ==
    /\ request[r].pc = "sent" /\ request[r].logout /\ ~Locked(request[r].token)
    /\ LET t == request[r].token
       IN /\ refreshTokens' = [refreshTokens EXCEPT ![t].live = FALSE]
          /\ recent' = IF refreshTokens[t].live THEN recent \cup {t} ELSE recent
    /\ request' = [request EXCEPT ![r].pc = "answered", ![r].outcome = "loggedOut"]
    /\ UNCHANGED <<jar, tab, replayed, alarms, aborts, lost>>

\* Half a minute is longer than any request that presents the token takes.
GraceEnds(t) ==
    /\ t \in recent /\ recent' = recent \ {t}
    /\ \A r \in InFlight : request[r].token # t
    /\ UNCHANGED <<refreshTokens, jar, tab, request, replayed, alarms, aborts, lost>>

Serve(r) == TxSelect(r) \/ TxWake(r) \/ TxRotate(r) \/ TxReplay(r) \/ TxTheft(r) \/ Logout(r)
AuthNext ==
    \/ \E i \in Tabs : StartRefresh(i) \/ SendRefresh(i)
    \/ SendLogout \/ Login
    \/ \E r \in Requests : Answer(r) \/ Lose(r) \/ Serve(r) \/ TxRefused(r)
    \/ \E t \in Tokens : GraceEnds(t)

AuthSpec == AuthInit /\ [][AuthNext]_authVars

-----------------------------------------------------------------------------
(* Types of all variables. *)
AuthTypeOK ==
    /\ refreshTokens \in [Tokens -> TokenRow]
    /\ recent \subseteq Tokens
    /\ jar \in Tokens \cup {NoToken}
    /\ tab \in [Tabs -> {"idle", "queued", "sent"}]
    /\ request \in [Requests -> Request]
    /\ replayed \subseteq Tokens /\ alarms \subseteq Tokens
    /\ aborts \in Nat /\ lost \in Nat /\ aborts + lost <= MaxAuthFaults

(* However many tabs refresh at once, and whichever of their transactions   *)
(* are refused and tried again, a session is a chain: one token of a family *)
(* at most is live.                                                         *)
OneLivePerFamily ==
    \A t, u \in UsedTokens :
        refreshTokens[t].live /\ refreshTokens[u].live /\ refreshTokens[t].family = refreshTokens[u].family => t = u

(* A logout that presents the live token of its session leaves it without   *)
(* one, and a session without a live token, after such a logout or a        *)
(* detected reuse, gets none from a rotation under way.  A logout that      *)
(* presents a token already rotated revokes nothing (auth.service.ts:233):  *)
(* the session then goes on, also in this browser if the answer of that     *)
(* rotation comes after the logout's.                                       *)
RevokedStaysRevoked ==
    [][/\ \A f \in Tokens :
             Family(f) # {} /\ (\A t \in Family(f) : ~refreshTokens[t].live)
                => \A t \in Family(f)' : ~refreshTokens'[t].live
       /\ \A r \in Requests :
             LET token == refreshTokens[request[r].token]
             IN request[r].outcome # "loggedOut" /\ request'[r].outcome = "loggedOut" /\ token.live
                   => \A t \in Family(token.family) : ~refreshTokens'[t].live]_authVars

(* As long as no answer is lost, tabs that refresh at once, under a lock or *)
(* not, are never taken for a theft.                                        *)
NoFalseAlarm == lost = 0 => alarms = {}

(* The tabs that wait for a refresh get an answer, or the network error:    *)
(* transactions that wait for each other's rows do not block for ever.      *)
RefreshReturns == []<>(\A i \in Tabs : tab[i] # "sent")

(* The grace window "Eliminates StrictMode / multi-tab / network-retry      *)
(* false-positive theft detections" (auth.service.ts:38-41).  A retry that  *)
(* was answered in it leaves the browser the token that was rotated, since  *)
(* the cookie is not set again, and the next refresh ends the session.      *)
GraceSettlesRetry == alarms \cap replayed = {}
=============================================================================
