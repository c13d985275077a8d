------------------------------ MODULE Sessions ------------------------------
(***************************************************************************)
(* The session of one user: login(), refresh() and logout() of             *)
(* auth.service.ts with their controllers, the refresh token whose hash    *)
(* redis-session.store.ts keeps, the cookie it is held in, and the access  *)
(* tokens that jwt.guard.ts accepts.                                       *)
(*                                                                         *)
(* Both tokens are JWTs.  They name the user, the role and the second they *)
(* were signed in, so two logins within one second get the same refresh    *)
(* token.  An access token is not looked up anywhere: it works until it    *)
(* runs out.                                                               *)
(***************************************************************************)
EXTENDS Naturals, FiniteSets

CONSTANTS
  Devices,       \* browsers of the user
  Calls,         \* bound on the requests in progress
  AccessLife,    \* life of an access token: JWT_ACCESS_EXPIRES_IN
  RefreshLife,   \* life of a refresh token and of its key in Redis
  Delay,         \* the longest time a request is in progress
  MaxTime        \* bound on the time of one behaviour

ASSUME SessionTimes ==
  /\ {AccessLife, RefreshLife} \subseteq Nat \ {0}
  /\ {Delay, MaxTime} \subseteq Nat

Time == 0 .. MaxTime
Until == 0 .. MaxTime + RefreshLife + AccessLife

(* A refresh token is the second it was signed in.                         *)
Stored == [token: Time, until: Until]
(* alive: its session was there at some time of the request it answered.   *)
Access == [root: Time, until: Until, alive: BOOLEAN]

VARIABLES
  now,      \* the time
  stored,   \* auth:refresh:{userId}: a set of one record at most
  cookie,   \* cookie[d]: the refresh token in the cookie of device d, if any
  access,   \* access[d]: the newest access token of device d, if any
  request,  \* request[q]: what request q does next
  over      \* tokens whose session a logout, a newer login or time has ended

vars == <<now, stored, cookie, access, request, over>>

Idle == [at |-> "idle"]
Signing == [at: {"save", "answer"}, device: Devices, since: Time, token: Time]
Refreshing == [at: {"look", "sign"}, device: Devices, since: Time, token: Time, alive: BOOLEAN]
Leaving == [at: {"delete"}, device: Devices, since: Time]

TypeOK ==
  /\ now \in Time
  /\ stored \in SUBSET Stored /\ Cardinality(stored) <= 1
  /\ cookie \in [Devices -> {{}} \cup {{t} : t \in Time}]
  /\ \A d \in Devices : access[d] \in SUBSET Access /\ Cardinality(access[d]) <= 1
  /\ request \in [Calls -> {Idle} \cup Signing \cup Refreshing \cup Leaving]
  /\ over \subseteq Time

Init ==
  /\ now = 0
  /\ stored = {}
  /\ cookie = [d \in Devices |-> {}]
  /\ access = [d \in Devices |-> {}]
  /\ request = [q \in Calls |-> Idle]
  /\ over = {}

Begins(q, r) == request[q] = Idle /\ request' = [request EXCEPT ![q] = r]
GoesTo(q, step) == request' = [request EXCEPT ![q].at = step]
Ends(q) == request' = [request EXCEPT ![q] = Idle]
StoredTokens == {s.token : s \in stored}
Gets(d, a) == access' = [access EXCEPT ![d] = {a}]

-----------------------------------------------------------------------------
(* login(): the password is right and the address verified. *)
LogsIn(q, d) ==
  /\ Begins(q, [at |-> "save", device |-> d, since |-> now, token |-> now])
  /\ UNCHANGED <<now, stored, cookie, access, over>>

(* saveRefresh(): SET ... EX.  The session before it is over; one that was *)
(* over lives again if its token was signed in the same second.            *)
Replaces_Mut(token) == stored \cup {[token |-> token, until |-> now + RefreshLife]}
Replaces(token) == {[token |-> token, until |-> now + RefreshLife]}

SavesRefresh(q) ==
  /\ request[q].at = "save"
  /\ LET token == request[q].token
     IN  /\ stored' = Replaces(token)
         /\ over' = (over \cup StoredTokens) \ {token}
         /\ request' = [x \in Calls |->
              IF x = q THEN [request[q] EXCEPT !.at = "answer"]
              ELSE IF request[x].at = "look" /\ request[x].token = token
                   THEN [request[x] EXCEPT !.alive = TRUE] ELSE request[x]]
  /\ UNCHANGED <<now, cookie, access>>

(* AuthController.login(): the cookie and the access token *)
AnswersLogin(q) ==
  /\ request[q].at = "answer"
  /\ LET r == request[q]
     IN  /\ cookie' = [cookie EXCEPT ![r.device] = {r.token}]
         /\ Gets(r.device, [root |-> r.token, until |-> r.since + AccessLife, alive |-> TRUE])
  /\ Ends(q)
  /\ UNCHANGED <<now, stored, over>>

-----------------------------------------------------------------------------
(* verifyRefreshToken(): jwt.verify() *)
Verified_Mut(token) == TRUE
Verified(token) == now < token + RefreshLife

(* refresh(), with the token of the cookie *)
Refreshes(q, d) ==
  /\ \E token \in cookie[d] :
       /\ Verified(token)
       /\ Begins(q, [at |-> "look", device |-> d, since |-> now, token |-> token,
                     alive |-> token \notin over])
  /\ UNCHANGED <<now, stored, cookie, access, over>>

(* isRefreshValid(): GET and compare *)
IsStored_Mut(token) == stored # {}
IsStored(token) == token \in StoredTokens

LooksUp(q) ==
  /\ request[q].at = "look"
  /\ IF IsStored(request[q].token) THEN GoesTo(q, "sign") ELSE Ends(q)
  /\ UNCHANGED <<now, stored, cookie, access, over>>

SignsAccess(q) ==
  /\ request[q].at = "sign"
  /\ LET r == request[q]
     IN Gets(r.device, [root |-> r.token, until |-> now + AccessLife, alive |-> r.alive])
  /\ Ends(q)
  /\ UNCHANGED <<now, stored, cookie, over>>

-----------------------------------------------------------------------------
(* jwtGuard() *)
Passes(d) == \E a \in access[d] : now < a.until

LogsOut(q, d) ==
  /\ Passes(d)
  /\ Begins(q, [at |-> "delete", device |-> d, since |-> now])
  /\ UNCHANGED <<now, stored, cookie, access, over>>

(* deleteRefresh(): DEL, whichever device the stored token is of.  The     *)
(* cookie is cleared with the answer, whatever the answer is.              *)
DeletesRefresh(q) ==
  /\ request[q].at = "delete"
  /\ stored' = {}
  /\ over' = over \cup StoredTokens
  /\ cookie' = [cookie EXCEPT ![request[q].device] = {}]
  /\ Ends(q)
  /\ UNCHANGED <<now, access>>

(* Redis does not answer: a login or a refresh is refused, a logout fails, *)
(* with its cookie cleared.                                                *)
RequestFails(q) ==
  /\ request[q].at \in {"save", "look", "delete"}
  /\ cookie' = IF request[q].at = "delete"
               THEN [cookie EXCEPT ![request[q].device] = {}] ELSE cookie
  /\ Ends(q)
  /\ UNCHANGED <<now, stored, access, over>>

(* Time passes: Redis drops the key when its time is over. *)
TimePasses ==
  /\ now < MaxTime
  /\ \A q \in Calls : request[q] # Idle => now < request[q].since + Delay
  /\ now' = now + 1
  /\ stored' = {s \in stored : now' < s.until}
  /\ over' = over \cup {s.token : s \in stored \ stored'}
  /\ UNCHANGED <<cookie, access, request>>

-----------------------------------------------------------------------------
Handle(q) ==
  \/ \E d \in Devices : LogsIn(q, d) \/ Refreshes(q, d) \/ LogsOut(q, d)
  \/ SavesRefresh(q)
  \/ AnswersLogin(q)
  \/ LooksUp(q)
  \/ SignsAccess(q)
  \/ DeletesRefresh(q)
  \/ RequestFails(q)

Next == (\E q \in Calls : Handle(q)) \/ TimePasses

Spec == Init /\ [][Next]_vars

-----------------------------------------------------------------------------
(* "Revokes refresh" (README, POST /api/auth/logout): a refresh that began *)
(* after its session had ended gets no access token, whether a logout of   *)
(* any device, a newer login or time had ended it, and whatever the other  *)
(* devices do meanwhile.                                                   *)
EndedSessionsGrantNothing == \A d \in Devices : \A a \in access[d] : a.alive

(* "JWT access 15m ... refresh cookie 7d": a login gives access for the    *)
(* two lives added up and no longer; refreshing extends nothing, and the   *)
(* key in Redis, whose life begins when it is set, does not either.        *)
AccessIsBounded ==
  \A d \in Devices : \A a \in access[d] : a.until < a.root + RefreshLife + Delay + AccessLife
=============================================================================
