-------------------------------- MODULE Otp --------------------------------
(***************************************************************************)
(* One-time codes of one e-mail address: the store of                      *)
(* providers/otp/redis-otp.store.ts, the limiter in front of it            *)
(* (common/utils/rate-limit.util.ts, auth/otp-rate-limit.middleware.ts)    *)
(* and the part of auth.service.ts that issues and claims codes.           *)
(*                                                                         *)
(* A Redis command or Lua script is one action; a request is several of    *)
(* them.  Keys carry the time they have left to live: 0 means no key.  One *)
(* tick is the resend cooldown's granularity, far longer than a request,   *)
(* so time passes only between requests.  The limit per IP address is not  *)
(* kept: it can only turn more requests away.                              *)
(***************************************************************************)
EXTENDS Integers, FiniteSets, FiniteSetsExt

CONSTANTS
  Requests,      \* bound on the requests in progress at the same time
  MaxAttempts,   \* OTP_MAX_ATTEMPTS
  CodeTtl,       \* OTP_TTL_SECONDS, in ticks; also the life of an attempts key
  Limit,         \* OTP_RATE_LIMIT_MAX_PER_EMAIL
  Window,        \* OTP_RATE_LIMIT_WINDOW_SECONDS
  Cooldown,      \* OTP_RESEND_COOLDOWN_SECONDS
  MaxCodes       \* bound on the codes sent for one scope

(* The values of otp.constants.ts and security.constants.ts satisfy these. *)
ASSUME Durations == {MaxAttempts, CodeTtl, Limit, Window, Cooldown, MaxCodes} \subseteq Nat \ {0}
ASSUME LimiterCovers == CodeTtl <= Window /\ Limit <= MaxAttempts

Scopes == {"verify", "reset"}
Phase == {"idle", "first", "claim", "issue", "save", "cool", "ok"}

VARIABLES
  registered,   \* the address has a row in table "users"
  codeTtl,      \* auth:otp:{scope}:{email}, life left
  attempts,     \* auth:otp:attempts:{scope}:{email}
  attemptsTtl,
  guesses,      \* guesses the stored code was compared with since it was saved
  issued,       \* codes saved so far
  accepted,     \* claims that were answered with 'ok' so far
  cooldown,     \* auth:otp:cooldown:{scope}:{email}, life left
  hits,         \* security:otp:email:{email}, counted up to one above Limit
  hitsTtl,
  phase,        \* phase[q]: what request q does next
  scope         \* scope[q]: the scope it does it in

codeVars == <<codeTtl, attempts, attemptsTtl, guesses, issued, accepted, cooldown>>
limitVars == <<hits, hitsTtl>>
requestVars == <<phase, scope>>
otpVars == <<registered, codeVars, limitVars, requestVars>>

OtpTypeOK ==
  /\ registered \in BOOLEAN
  /\ codeTtl \in [Scopes -> 0 .. CodeTtl]
  /\ attempts \in [Scopes -> 0 .. MaxAttempts]
  /\ attemptsTtl \in [Scopes -> 0 .. CodeTtl]
  /\ guesses \in [Scopes -> Nat]
  /\ issued \in [Scopes -> 0 .. MaxCodes]
  /\ accepted \in [Scopes -> Nat]
  /\ cooldown \in [Scopes -> 0 .. Cooldown]
  /\ hits \in 0 .. Limit + 1
  /\ hitsTtl \in 0 .. Window
  /\ phase \in [Requests -> Phase]
  /\ scope \in [Requests -> Scopes]

OtpInit ==
  /\ registered = FALSE
  /\ codeTtl = [s \in Scopes |-> 0]
  /\ attempts = [s \in Scopes |-> 0]
  /\ attemptsTtl = [s \in Scopes |-> 0]
  /\ guesses = [s \in Scopes |-> 0]
  /\ issued = [s \in Scopes |-> 0]
  /\ accepted = [s \in Scopes |-> 0]
  /\ cooldown = [s \in Scopes |-> 0]
  /\ hits = 0 /\ hitsTtl = 0
  /\ phase = [q \in Requests |-> "idle"]
  /\ scope = [q \in Requests |-> "verify"]

GoesOn(q, p) == phase' = [phase EXCEPT ![q] = p] /\ UNCHANGED scope

-----------------------------------------------------------------------------
(* isRateLimited(): the key is renewed by every hit, refused ones too. *)
RenewedTtl_Mut == IF hitsTtl = 0 THEN Window ELSE hitsTtl
RenewedTtl == Window

Admits_Mut(n) == n <= Limit + 1
Admits(n) == n <= Limit

(* otpRateLimit() lets a request through to claim or to issue a code. *)
Arrives(q, s, what) ==
  /\ phase[q] = "idle"
  /\ hits' = Min({hits + 1, Limit + 1})
  /\ hitsTtl' = RenewedTtl
  /\ IF Admits(hits + 1)
     THEN /\ phase' = [phase EXCEPT ![q] = what]
          /\ scope' = [scope EXCEPT ![q] = s]
     ELSE UNCHANGED requestVars
  /\ UNCHANGED <<registered, codeVars>>

(* resendVerification() and forgotPassword(), up to assertResendCooldown(). *)
CheckCooldown(q) ==
  /\ phase[q] = "issue"
  /\ GoesOn(q, IF ~registered \/ cooldown[scope[q]] > 0 THEN "idle" ELSE "save")
  /\ UNCHANGED <<registered, codeVars, limitVars>>

(* otpStore.save(): a new code replaces the old one, whose attempts stay.  *)
StoreCode(s) ==
  /\ issued[s] < MaxCodes
  /\ issued' = [issued EXCEPT ![s] = @ + 1]
  /\ codeTtl' = [codeTtl EXCEPT ![s] = CodeTtl]
  /\ guesses' = [guesses EXCEPT ![s] = 0]
  /\ UNCHANGED <<attempts, attemptsTtl, accepted, cooldown>>

(* The code is stored and mailed. *)
SaveCode(q) ==
  /\ phase[q] = "save"
  /\ StoreCode(scope[q])
  /\ GoesOn(q, "cool")
  /\ UNCHANGED <<registered, limitVars>>

SetCooldown(q) ==
  /\ phase[q] = "cool"
  /\ cooldown' = [cooldown EXCEPT ![scope[q]] = Cooldown]
  /\ GoesOn(q, "idle")
  /\ UNCHANGED <<registered, codeTtl, attempts, attemptsTtl, guesses, issued, accepted, limitVars>>

(* Redis or sendEmail() throws: the request ends where it is, with no code *)
(* or with a code and no cooldown.                                         *)
SendFails(q) ==
  /\ phase[q] \in {"first", "save", "cool"}
  /\ GoesOn(q, "idle")
  /\ UNCHANGED <<registered, codeVars, limitVars>>

(* register(): UNIQUE(email) lets one INSERT through; a first code follows *)
(* it, behind no limit and starting no cooldown.                           *)
Register(q) ==
  /\ phase[q] = "idle"
  /\ ~registered
  /\ registered' = TRUE
  /\ phase' = [phase EXCEPT ![q] = "first"]
  /\ scope' = [scope EXCEPT ![q] = "verify"]
  /\ UNCHANGED <<codeVars, limitVars>>

FirstCode(q) ==
  /\ phase[q] = "first"
  /\ StoreCode("verify")
  /\ GoesOn(q, "idle")
  /\ UNCHANGED <<registered, limitVars>>

-----------------------------------------------------------------------------
(* CLAIM_SCRIPT.  right: the code supplied is the one that is stored.      *)
Forget_Mut(s) ==
  /\ attempts' = [attempts EXCEPT ![s] = 0]
  /\ attemptsTtl' = [attemptsTtl EXCEPT ![s] = 0]
  /\ UNCHANGED <<codeTtl, guesses>>
Forget(s) ==
  /\ codeTtl' = [codeTtl EXCEPT ![s] = 0]
  /\ attempts' = [attempts EXCEPT ![s] = 0]
  /\ attemptsTtl' = [attemptsTtl EXCEPT ![s] = 0]
  /\ guesses' = [guesses EXCEPT ![s] = 0]

Expired(q) ==
  /\ codeTtl[scope[q]] = 0
  /\ GoesOn(q, "idle")
  /\ UNCHANGED codeVars

TooManyAttempts(s) == attempts[s] + 1 > MaxAttempts

GivenUp(q) ==
  /\ codeTtl[scope[q]] > 0
  /\ TooManyAttempts(scope[q])
  /\ Forget(scope[q])
  /\ GoesOn(q, "idle")
  /\ UNCHANGED <<issued, accepted, cooldown>>

Accepted(q) ==
  /\ codeTtl[scope[q]] > 0
  /\ ~TooManyAttempts(scope[q])
  /\ Forget(scope[q])
  /\ accepted' = [accepted EXCEPT ![scope[q]] = @ + 1]
  /\ GoesOn(q, "ok")
  /\ UNCHANGED <<issued, cooldown>>

Wrong(q) ==
  LET s == scope[q] IN
  /\ codeTtl[s] > 0
  /\ ~TooManyAttempts(s)
  /\ attempts' = [attempts EXCEPT ![s] = @ + 1]
  /\ attemptsTtl' = [attemptsTtl EXCEPT ![s] = IF attempts[s] = 0 THEN CodeTtl ELSE @]
  /\ guesses' = [guesses EXCEPT ![s] = @ + 1]
  /\ GoesOn(q, "idle")
  /\ UNCHANGED <<codeTtl, issued, accepted, cooldown>>

Claim(q) ==
  /\ phase[q] = "claim"
  /\ Expired(q) \/ GivenUp(q) \/ Accepted(q) \/ Wrong(q)
  /\ UNCHANGED <<registered, limitVars>>

(* What verifyEmail() or resetPassword() does with a claimed code is over. *)
Finishes(q) ==
  /\ phase[q] = "ok"
  /\ GoesOn(q, "idle")
  /\ UNCHANGED <<registered, codeVars, limitVars>>

-----------------------------------------------------------------------------
Less_Mut(n) == n - 1
Less(n) == IF n = 0 THEN 0 ELSE n - 1

(* Time passes; a key whose life is over is gone, and a counter with it.   *)
Tick ==
  /\ \A q \in Requests : phase[q] = "idle"
  /\ codeTtl' = [s \in Scopes |-> Less(codeTtl[s])]
  /\ guesses' = [s \in Scopes |-> IF codeTtl[s] <= 1 THEN 0 ELSE guesses[s]]
  /\ attemptsTtl' = [s \in Scopes |-> Less(attemptsTtl[s])]
  /\ attempts' = [s \in Scopes |-> IF attemptsTtl[s] <= 1 THEN 0 ELSE attempts[s]]
  /\ cooldown' = [s \in Scopes |-> Less(cooldown[s])]
  /\ hitsTtl' = Less(hitsTtl)
  /\ hits' = IF hitsTtl <= 1 THEN 0 ELSE hits
  /\ UNCHANGED <<registered, issued, accepted, requestVars>>

Serve(q) ==
  \/ Register(q)
  \/ FirstCode(q)
  \/ \E s \in Scopes, what \in {"claim", "issue"} : Arrives(q, s, what)
  \/ CheckCooldown(q)
  \/ SaveCode(q)
  \/ SetCooldown(q)
  \/ SendFails(q)
  \/ Claim(q)

OtpNext ==
  \/ \E q \in Requests : Serve(q) \/ Finishes(q)
  \/ Tick

OtpSpec == OtpInit /\ [][OtpNext]_otpVars

-----------------------------------------------------------------------------
(* "single-use 15m max 5": no code is compared with more wrong guesses     *)
(* than that.  The attempts counter alone does not see to it: a new code   *)
(* inherits the counter of the old one, which runs out before the code     *)
(* does.  It takes the limiter in front of it.                             *)
GuessesAreBounded == \A s \in Scopes : guesses[s] <= MaxAttempts

(* "single-use": of concurrent claims with the same code, one is accepted, *)
(* and none after a newer code has replaced it.                            *)
CodesWorkOnce == \A s \in Scopes : accepted[s] <= issued[s]

(* Who enters the right code in time is let in: whatever went wrong before *)
(* with this code or with an older one, the limiter refuses requests       *)
(* before the attempts counter would kill a code that is still good.       *)
GoodCodesAreAccepted ==
  \A q \in Requests :
    phase[q] = "claim" /\ codeTtl[scope[q]] > 0 => ~TooManyAttempts(scope[q])

-----------------------------------------------------------------------------
(* What the project's own words promise and the steps above do not keep.   *)

(* "resend verification respects cooldown" (auth.e2e.test.ts): no request  *)
(* mails a code while the cooldown of an earlier one runs.                 *)
CooldownIsRespected ==
  [][\A q \in Requests : SaveCode(q) => cooldown[scope[q]] = 0]_otpVars
=============================================================================
