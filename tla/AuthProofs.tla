------------------------------ MODULE AuthProofs ------------------------------
(***************************************************************************)
(* Proofs about one-time codes and accounts (modules Otp and Accounts) and *)
(* about sessions (module Sessions).                                       *)
(*                                                                         *)
(* Codes.  What bounds the guesses at a code is not the counter of         *)
(* attempts, which may run out before the code does, but the limiter in    *)
(* front of it: as its key is renewed by every hit and lives as long as a  *)
(* code, it has counted every guess at a code that is alive, and every     *)
(* claim that is still to be compared.                                     *)
(*                                                                         *)
(* Sessions.  What a refresh finds out by its one look at the store is     *)
(* enough, although logouts and logins run between its steps: a token that *)
(* is stored is one whose session is not over, and a session that was over *)
(* when the refresh began can only be stored by a login that revives it.   *)
(***************************************************************************)
EXTENDS Accounts, Sessions, FiniteSetTheorems, TLAPS

(* Requests the limiter has let through to claim a code of scope s. *)
InClaim(s) == {q \in Requests : phase[q] = "claim" /\ scope[q] = s}

Counted(n, s) ==
  /\ n + Cardinality(InClaim(s)) <= hits
  /\ n + Cardinality(InClaim(s)) <= Limit

LimiterInv ==
  /\ \A s \in Scopes :
       /\ IsFiniteSet(InClaim(s))
       /\ Counted(guesses[s], s)
       /\ Counted(attempts[s], s)
       /\ guesses[s] > 0 => codeTtl[s] <= hitsTtl
       /\ attempts[s] > 0 => attemptsTtl[s] <= hitsTtl
  /\ \A q \in Requests : phase[q] = "claim" => hitsTtl = Window

(* A code that can still be accepted is one that has not been. *)
SingleUse ==
  \A s \in Scopes :
    /\ accepted[s] <= issued[s]
    /\ codeTtl[s] > 0 => accepted[s] + 1 <= issued[s]

OtpInv == OtpTypeOK /\ LimiterInv /\ SingleUse

-----------------------------------------------------------------------------
(* Who got in, and what was read of the row meanwhile, came after a code.  *)
Proved == accepted["verify"] > 0

VerifiedByCode ==
  /\ logins > 0 \/ user.verified => Proved
  /\ \A q \in Requests :
       /\ held[q].verified \/ work[q] = "login" => Proved
       /\ phase[q] = "ok" => accepted[scope[q]] > 0

(* Each accepted reset code is on its way to a password or has become one. *)
InReset == {q \in Requests : work[q] = "reset"}
Claimed == {q \in Requests : phase[q] = "ok" /\ scope[q] = "reset"}

ResetByCode ==
  /\ IsFiniteSet(InReset) /\ IsFiniteSet(Claimed)
  /\ resets + Cardinality(InReset) + Cardinality(Claimed) <= accepted["reset"]
  /\ user.password <= resets
  /\ \A q \in Requests : held[q].password <= resets

AccountInv == AccountTypeOK /\ OtpInv /\ VerifiedByCode /\ ResetByCode
-----------------------------------------------------------------------------
LEMMA Bounds ==
  /\ MaxAttempts \in Nat /\ CodeTtl \in Nat /\ Limit \in Nat /\ Window \in Nat
  /\ Cooldown \in Nat /\ MaxCodes \in Nat
  /\ MaxAttempts > 0 /\ CodeTtl > 0 /\ Limit > 0 /\ Window > 0 /\ Cooldown > 0
  /\ CodeTtl <= Window /\ Limit <= MaxAttempts
BY Durations, LimiterCovers

LEMMA Least ==
  ASSUME NEW a \in Nat, NEW b \in Nat
  PROVE  Min({a, b}) = IF a <= b THEN a ELSE b
<1> DEFINE m == IF a <= b THEN a ELSE b
<1>1. m \in {a, b} /\ \A y \in {a, b} : m <= y
  OBVIOUS
<1>2. \A x \in {a, b} : (\A y \in {a, b} : x <= y) => x = m
  OBVIOUS
<1> QED
  BY <1>1, <1>2 DEF Min

(* Removing and adding one member of a finite set. *)
LEMMA WithoutOne ==
  ASSUME NEW S, IsFiniteSet(S), NEW x
  PROVE  /\ IsFiniteSet(S \ {x}) /\ Cardinality(S) \in Nat /\ Cardinality(S \ {x}) \in Nat
         /\ Cardinality(S \ {x}) <= Cardinality(S)
         /\ x \in S => Cardinality(S \ {x}) + 1 = Cardinality(S)
<1>1. IsFiniteSet(S \ {x}) /\ Cardinality(S \ {x}) = IF x \in S THEN Cardinality(S)-1 ELSE Cardinality(S)
  BY FS_RemoveElement
<1>2. Cardinality(S) \in Nat /\ Cardinality(S \ {x}) \in Nat
  BY <1>1, FS_CardinalityType
<1> QED
  BY <1>1, <1>2

LEMMA WithOne ==
  ASSUME NEW S, IsFiniteSet(S), NEW x
  PROVE  /\ IsFiniteSet(S \cup {x}) /\ Cardinality(S) \in Nat /\ Cardinality(S \cup {x}) \in Nat
         /\ Cardinality(S \cup {x}) <= Cardinality(S) + 1
<1>1. IsFiniteSet(S \cup {x})
      /\ Cardinality(S \cup {x}) = IF x \in S THEN Cardinality(S) ELSE Cardinality(S)+1
  BY FS_AddElement
<1>2. Cardinality(S) \in Nat /\ Cardinality(S \cup {x}) \in Nat
  BY <1>1, FS_CardinalityType
<1> QED
  BY <1>1, <1>2

-----------------------------------------------------------------------------
(* Claims in progress: request q leaves them, or none of them changes.     *)
LEMMA LeavesClaims ==
  ASSUME OtpTypeOK, NEW q \in Requests, NEW p \in Phase \ {"claim"}, GoesOn(q, p)
  PROVE  /\ phase' \in [Requests -> Phase] /\ scope' \in [Requests -> Scopes]
         /\ \A s \in Scopes : InClaim(s)' = InClaim(s) \ {q}
         /\ \A x \in Requests : phase'[x] = "claim" => phase[x] = "claim"
<1>1. phase \in [Requests -> Phase] /\ scope \in [Requests -> Scopes]
  BY DEF OtpTypeOK
<1>2. phase' = [phase EXCEPT ![q] = p] /\ scope' = scope
  BY DEF GoesOn
<1>3. phase' \in [Requests -> Phase] /\ \A x \in Requests : phase'[x] = IF x = q THEN p ELSE phase[x]
  BY <1>1, <1>2
<1>4. \A s \in Scopes : InClaim(s)' = InClaim(s) \ {q}
  BY <1>2, <1>3 DEF InClaim
<1> QED
  BY <1>1, <1>2, <1>3, <1>4

(* A step that takes nothing from the limiter and at most ends a claim,    *)
(* without a further guess, or with a counter that begins anew.            *)
LEMMA FewerClaims ==
  ASSUME OtpTypeOK, OtpTypeOK', LimiterInv, UNCHANGED limitVars, NEW q \in Requests,
         \A s \in Scopes : InClaim(s)' = InClaim(s) \ {q},
         \A x \in Requests : phase'[x] = "claim" => phase[x] = "claim",
         \A s \in Scopes : guesses'[s] = 0 \/ (guesses'[s] = guesses[s] /\ codeTtl'[s] = codeTtl[s]),
         \A s \in Scopes : attempts'[s] = 0 \/ (attempts'[s] = attempts[s] /\ attemptsTtl'[s] = attemptsTtl[s])
  PROVE  LimiterInv'
<1>1. hits' = hits /\ hitsTtl' = hitsTtl
  BY DEF limitVars
<1>2. ASSUME NEW s \in Scopes
      PROVE  /\ IsFiniteSet(InClaim(s)')
             /\ Counted(guesses[s], s)' /\ Counted(attempts[s], s)'
             /\ guesses'[s] > 0 => codeTtl'[s] <= hitsTtl'
             /\ attempts'[s] > 0 => attemptsTtl'[s] <= hitsTtl'
  <2>1. guesses[s] \in Nat /\ attempts[s] \in Nat /\ hits \in Nat /\ Limit \in Nat
    BY Bounds DEF OtpTypeOK
  <2>2. IsFiniteSet(InClaim(s)) /\ Counted(guesses[s], s) /\ Counted(attempts[s], s)
    BY DEF LimiterInv
  <2>3. /\ IsFiniteSet(InClaim(s)')
        /\ Cardinality(InClaim(s)) \in Nat /\ Cardinality(InClaim(s)') \in Nat
        /\ Cardinality(InClaim(s)') <= Cardinality(InClaim(s))
    BY <2>2, WithoutOne
  <2>4. Counted(guesses[s], s)'
    BY <1>1, <2>1, <2>2, <2>3 DEF Counted
  <2>5. Counted(attempts[s], s)'
    BY <1>1, <2>1, <2>2, <2>3 DEF Counted
  <2> QED
    BY <1>1, <2>1, <2>3, <2>4, <2>5 DEF LimiterInv
<1> QED
  BY <1>1, <1>2 DEF LimiterInv

(* Steps of a request that compare nothing with a code. *)
LEMMA CodesKept ==
  ASSUME OtpInv, NEW q \in Requests, NEW p \in Phase \ {"claim"}, GoesOn(q, p),
         UNCHANGED <<registered, codeVars, limitVars>>
  PROVE  OtpInv'
<1> USE DEF OtpInv
<1>1. /\ phase' \in [Requests -> Phase] /\ scope' \in [Requests -> Scopes]
      /\ \A s \in Scopes : InClaim(s)' = InClaim(s) \ {q}
      /\ \A x \in Requests : phase'[x] = "claim" => phase[x] = "claim"
  BY LeavesClaims
<1>2. OtpTypeOK'
  BY <1>1 DEF OtpTypeOK, codeVars, limitVars
<1>3. LimiterInv'
  BY <1>1, <1>2, FewerClaims DEF codeVars
<1>4. SingleUse'
  BY DEF SingleUse, codeVars
<1> QED
  BY <1>2, <1>3, <1>4

(* A new code: nothing has been compared with it. *)
LEMMA StoreCodeInv ==
  ASSUME OtpInv, NEW q \in Requests, NEW p \in Phase \ {"claim"}, GoesOn(q, p),
         NEW s \in Scopes, StoreCode(s), UNCHANGED <<registered, limitVars>>
  PROVE  OtpInv'
<1> USE DEF OtpInv
<1>1. /\ phase' \in [Requests -> Phase] /\ scope' \in [Requests -> Scopes]
      /\ \A t \in Scopes : InClaim(t)' = InClaim(t) \ {q}
      /\ \A x \in Requests : phase'[x] = "claim" => phase[x] = "claim"
  BY LeavesClaims
<1>2. OtpTypeOK'
  BY <1>1, Bounds DEF OtpTypeOK, limitVars, StoreCode
<1>3. LimiterInv'
  <2>1. \A t \in Scopes : guesses'[t] = 0 \/ (guesses'[t] = guesses[t] /\ codeTtl'[t] = codeTtl[t])
    BY DEF StoreCode, OtpTypeOK
  <2>2. \A t \in Scopes : attempts'[t] = attempts[t] /\ attemptsTtl'[t] = attemptsTtl[t]
    BY DEF StoreCode
  <2> QED
    BY <1>1, <1>2, <2>1, <2>2, FewerClaims
<1>4. SingleUse'
  BY DEF SingleUse, StoreCode, OtpTypeOK
<1> QED
  BY <1>2, <1>3, <1>4

(* A claim that forgets the code, because it was right or tried too often. *)
LEMMA ForgetInv ==
  ASSUME OtpInv, NEW q \in Requests, NEW p \in Phase \ {"claim"}, GoesOn(q, p),
         Forget(scope[q]), codeTtl[scope[q]] > 0,
         \/ UNCHANGED accepted
         \/ accepted' = [accepted EXCEPT ![scope[q]] = @ + 1],
         UNCHANGED <<registered, issued, cooldown, limitVars>>
  PROVE  OtpInv'
<1> USE DEF OtpInv
<1>1. /\ phase' \in [Requests -> Phase] /\ scope' \in [Requests -> Scopes]
      /\ \A t \in Scopes : InClaim(t)' = InClaim(t) \ {q}
      /\ \A x \in Requests : phase'[x] = "claim" => phase[x] = "claim"
  BY LeavesClaims
<1>2. scope[q] \in Scopes
  BY DEF OtpTypeOK
<1>3. OtpTypeOK'
  BY <1>1, <1>2, Bounds DEF OtpTypeOK, limitVars, Forget
<1>4. LimiterInv'
  <2>1. \A t \in Scopes : guesses'[t] = 0 \/ (guesses'[t] = guesses[t] /\ codeTtl'[t] = codeTtl[t])
    BY <1>2 DEF Forget, OtpTypeOK
  <2>2. \A t \in Scopes : attempts'[t] = 0 \/ (attempts'[t] = attempts[t] /\ attemptsTtl'[t] = attemptsTtl[t])
    BY <1>2 DEF Forget, OtpTypeOK
  <2> QED
    BY <1>1, <1>3, <2>1, <2>2, FewerClaims
<1>5. SingleUse'
  BY <1>2 DEF SingleUse, Forget, OtpTypeOK
<1> QED
  BY <1>3, <1>4, <1>5

(* A wrong guess: what the claim was counted for is now a guess.           *)
LEMMA WrongInv ==
  ASSUME OtpInv, NEW q \in Requests, phase[q] = "claim", Wrong(q),
         UNCHANGED <<registered, limitVars>>
  PROVE  OtpInv'
<1> USE DEF OtpInv
<1> DEFINE s == scope[q]
<1>1. /\ phase' \in [Requests -> Phase] /\ scope' \in [Requests -> Scopes]
      /\ \A t \in Scopes : InClaim(t)' = InClaim(t) \ {q}
      /\ \A x \in Requests : phase'[x] = "claim" => phase[x] = "claim"
  BY LeavesClaims DEF Wrong, Phase
<1>2. s \in Scopes
  BY DEF OtpTypeOK
<1>3. /\ attempts' = [attempts EXCEPT ![s] = @ + 1]
      /\ attemptsTtl' = [attemptsTtl EXCEPT ![s] = IF attempts[s] = 0 THEN CodeTtl ELSE @]
      /\ guesses' = [guesses EXCEPT ![s] = @ + 1]
      /\ ~TooManyAttempts(s)
      /\ UNCHANGED <<codeTtl, issued, accepted, cooldown, hits, hitsTtl, registered>>
  BY DEF Wrong, limitVars
<1>4. OtpTypeOK'
  BY <1>1, <1>2, <1>3, Bounds DEF OtpTypeOK, TooManyAttempts
<1>5. hitsTtl' = Window /\ hits' = hits /\ hits \in Nat
  BY <1>3, Bounds DEF LimiterInv, OtpTypeOK
<1>6. ASSUME NEW t \in Scopes
      PROVE  /\ IsFiniteSet(InClaim(t)')
             /\ Counted(guesses[t], t)' /\ Counted(attempts[t], t)'
             /\ codeTtl'[t] <= hitsTtl'
             /\ attemptsTtl'[t] <= hitsTtl'
  <2>1. guesses[t] \in Nat /\ attempts[t] \in Nat /\ Limit \in Nat
    BY Bounds DEF OtpTypeOK
  <2>2. IsFiniteSet(InClaim(t)) /\ Counted(guesses[t], t) /\ Counted(attempts[t], t)
    BY DEF LimiterInv
  <2>3. t = s => q \in InClaim(t)
    BY DEF InClaim
  <2>4. /\ IsFiniteSet(InClaim(t)')
        /\ Cardinality(InClaim(t)) \in Nat /\ Cardinality(InClaim(t)') \in Nat
        /\ Cardinality(InClaim(t)') <= Cardinality(InClaim(t))
        /\ t = s => Cardinality(InClaim(t)') + 1 = Cardinality(InClaim(t))
    BY <1>1, <2>2, <2>3, WithoutOne
  <2>5. /\ guesses'[t] = IF t = s THEN guesses[t] + 1 ELSE guesses[t]
        /\ attempts'[t] = IF t = s THEN attempts[t] + 1 ELSE attempts[t]
    BY <1>2, <1>3 DEF OtpTypeOK
  <2>6. Counted(guesses[t], t)'
    BY <1>5, <2>1, <2>2, <2>4, <2>5 DEF Counted
  <2>7. Counted(attempts[t], t)'
    BY <1>5, <2>1, <2>2, <2>4, <2>5 DEF Counted
  <2>8. codeTtl'[t] <= hitsTtl' /\ attemptsTtl'[t] <= hitsTtl'
    BY <1>4, <1>5, Bounds DEF OtpTypeOK
  <2> QED
    BY <2>4, <2>6, <2>7, <2>8
<1>7. LimiterInv'
  BY <1>5, <1>6 DEF LimiterInv
<1>8. SingleUse'
  BY <1>3 DEF SingleUse
<1> QED
  BY <1>4, <1>7, <1>8

LEMMA ClaimInv ==
  ASSUME OtpInv, NEW q \in Requests, Claim(q)
  PROVE  OtpInv'
<1>1. UNCHANGED <<registered, limitVars>> /\ phase[q] = "claim"
  BY DEF Claim
<1>2. CASE Expired(q)
  BY <1>1, <1>2, CodesKept DEF Expired, Phase
<1>3. CASE GivenUp(q)
  BY <1>1, <1>3, ForgetInv DEF GivenUp, Phase
<1>4. CASE Accepted(q)
  BY <1>1, <1>4, ForgetInv DEF Accepted, Phase
<1>5. CASE Wrong(q)
  BY <1>1, <1>5, WrongInv
<1> QED
  BY <1>2, <1>3, <1>4, <1>5 DEF Claim

-----------------------------------------------------------------------------
(* The limiter counts a claim before it lets it through, and renews its    *)
(* key, which then outlives every code and every counter of attempts.      *)
LEMMA ArrivesInv ==
  ASSUME OtpInv, NEW q \in Requests, NEW s \in Scopes, NEW what \in {"claim", "issue"},
         Arrives(q, s, what)
  PROVE  OtpInv'
<1> USE DEF OtpInv
<1>1. hits \in Nat /\ hits <= Limit + 1 /\ Limit \in Nat /\ Window \in Nat
  BY Bounds DEF OtpTypeOK
<1>2. hits' = IF hits <= Limit THEN hits + 1 ELSE Limit + 1
  <2>1. Min({hits + 1, Limit + 1}) = IF hits + 1 <= Limit + 1 THEN hits + 1 ELSE Limit + 1
    BY <1>1, Least
  <2> QED
    BY <1>1, <2>1 DEF Arrives
<1>3. hitsTtl' = Window /\ UNCHANGED <<registered, codeVars>>
  BY DEF Arrives, RenewedTtl
<1>4. phase \in [Requests -> Phase] /\ scope \in [Requests -> Scopes] /\ phase[q] = "idle"
  BY DEF Arrives, OtpTypeOK
<1>5. /\ phase' \in [Requests -> Phase] /\ scope' \in [Requests -> Scopes]
      /\ \A x \in Requests \ {q} : phase'[x] = phase[x] /\ scope'[x] = scope[x]
      /\ phase'[q] = "claim" => scope'[q] = s /\ hits + 1 <= Limit
  BY <1>4 DEF Arrives, Admits, requestVars, Phase
<1>6. OtpTypeOK'
  BY <1>1, <1>2, <1>3, <1>5 DEF OtpTypeOK, codeVars
<1>7. ASSUME NEW t \in Scopes
      PROVE  /\ IsFiniteSet(InClaim(t)')
             /\ Counted(guesses[t], t)' /\ Counted(attempts[t], t)'
  <2>1. guesses[t] \in Nat /\ attempts[t] \in Nat
        /\ guesses'[t] = guesses[t] /\ attempts'[t] = attempts[t]
    BY <1>3, Bounds DEF OtpTypeOK, codeVars
  <2>2. IsFiniteSet(InClaim(t)) /\ Counted(guesses[t], t) /\ Counted(attempts[t], t)
    BY DEF LimiterInv
  <2>3. CASE phase'[q] = "claim" /\ t = s
    <3>1. InClaim(t)' = InClaim(t) \cup {q}
      BY <1>4, <1>5, <2>3 DEF InClaim
    <3>2. /\ IsFiniteSet(InClaim(t)')
          /\ Cardinality(InClaim(t)) \in Nat /\ Cardinality(InClaim(t)') \in Nat
          /\ Cardinality(InClaim(t)') <= Cardinality(InClaim(t)) + 1
      BY <2>2, <3>1, WithOne
    <3>3. Counted(guesses[t], t)'
      BY <1>1, <1>2, <1>5, <2>1, <2>2, <2>3, <3>2 DEF Counted
    <3>4. Counted(attempts[t], t)'
      BY <1>1, <1>2, <1>5, <2>1, <2>2, <2>3, <3>2 DEF Counted
    <3> QED
      BY <3>2, <3>3, <3>4
  <2>4. CASE ~(phase'[q] = "claim" /\ t = s)
    <3>1. InClaim(t)' = InClaim(t)
      BY <1>4, <1>5, <2>4 DEF InClaim
    <3>2. Cardinality(InClaim(t)) \in Nat
      BY <2>2, FS_CardinalityType
    <3>3. Counted(guesses[t], t)' /\ Counted(attempts[t], t)'
      BY <1>1, <1>2, <2>1, <2>2, <3>1, <3>2 DEF Counted
    <3> QED
      BY <2>2, <3>1, <3>3
  <2> QED
    BY <2>3, <2>4
<1>8. \A t \in Scopes : codeTtl'[t] <= hitsTtl' /\ attemptsTtl'[t] <= hitsTtl'
  BY <1>3, <1>6, Bounds DEF OtpTypeOK
<1>9. LimiterInv'
  BY <1>3, <1>7, <1>8 DEF LimiterInv
<1>10. SingleUse'
  BY <1>3 DEF SingleUse, codeVars
<1> QED
  BY <1>6, <1>9, <1>10

(* Time runs for the limiter's key and the codes alike.                    *)
LEMMA TickInv ==
  ASSUME OtpInv, Tick
  PROVE  OtpInv'
<1> USE DEF OtpInv
<1>1. \A s \in Scopes : /\ codeTtl[s] \in Nat /\ codeTtl[s] <= CodeTtl
                        /\ attemptsTtl[s] \in Nat /\ attemptsTtl[s] <= CodeTtl
                        /\ cooldown[s] \in Nat /\ cooldown[s] <= Cooldown
                        /\ guesses[s] \in Nat /\ attempts[s] \in 0 .. MaxAttempts
  BY Bounds DEF OtpTypeOK
<1>2. hitsTtl \in Nat /\ hitsTtl <= Window /\ hits \in 0 .. Limit + 1 /\ hits \in Nat
  BY Bounds DEF OtpTypeOK
<1>3. \A n \in Nat : Less(n) \in Nat /\ Less(n) <= n /\ (n > 0 => Less(n) = n - 1)
  BY DEF Less
<1>4. OtpTypeOK'
  <2>1. /\ codeTtl' \in [Scopes -> 0 .. CodeTtl]
        /\ attemptsTtl' \in [Scopes -> 0 .. CodeTtl]
        /\ cooldown' \in [Scopes -> 0 .. Cooldown]
    BY <1>1, <1>3, Bounds DEF Tick
  <2>2. guesses' \in [Scopes -> Nat] /\ attempts' \in [Scopes -> 0 .. MaxAttempts]
    BY <1>1, Bounds DEF Tick
  <2>3. hits' \in 0 .. Limit + 1 /\ hitsTtl' \in 0 .. Window
    BY <1>2, <1>3, Bounds DEF Tick
  <2> QED
    BY <2>1, <2>2, <2>3 DEF Tick, OtpTypeOK, requestVars
<1>5. ASSUME NEW s \in Scopes
      PROVE  /\ InClaim(s)' = {}
             /\ Counted(guesses[s], s)' /\ Counted(attempts[s], s)'
             /\ guesses'[s] > 0 => codeTtl'[s] <= hitsTtl'
             /\ attempts'[s] > 0 => attemptsTtl'[s] <= hitsTtl'
  <2>1. InClaim(s) = {} /\ InClaim(s)' = {}
    BY DEF Tick, InClaim, requestVars
  <2>2. Cardinality(InClaim(s)) = 0 /\ Cardinality(InClaim(s)') = 0
    BY <2>1, FS_EmptySet
  <2>3. /\ guesses[s] <= hits /\ guesses[s] <= Limit
        /\ attempts[s] <= hits /\ attempts[s] <= Limit
        /\ guesses[s] > 0 => codeTtl[s] <= hitsTtl
        /\ attempts[s] > 0 => attemptsTtl[s] <= hitsTtl
    BY <1>1, <2>2 DEF LimiterInv, Counted
  <2>4. /\ guesses'[s] = IF codeTtl[s] <= 1 THEN 0 ELSE guesses[s]
        /\ attempts'[s] = IF attemptsTtl[s] <= 1 THEN 0 ELSE attempts[s]
        /\ codeTtl'[s] = Less(codeTtl[s]) /\ attemptsTtl'[s] = Less(attemptsTtl[s])
        /\ hitsTtl' = Less(hitsTtl) /\ hits' = IF hitsTtl <= 1 THEN 0 ELSE hits
    BY DEF Tick
  <2>5. /\ guesses'[s] > 0 => codeTtl[s] > 1 /\ hitsTtl > 1 /\ hits' = hits
        /\ attempts'[s] > 0 => attemptsTtl[s] > 1 /\ hitsTtl > 1 /\ hits' = hits
    BY <1>1, <1>2, <2>3, <2>4
  <2>6. guesses'[s] <= hits' /\ guesses'[s] <= Limit /\ attempts'[s] <= hits' /\ attempts'[s] <= Limit
    BY <1>1, <1>2, <2>3, <2>4, <2>5, Bounds
  <2>7. Counted(guesses[s], s)' /\ Counted(attempts[s], s)'
    BY <1>1, <2>2, <2>4, <2>6 DEF Counted
  <2>8. /\ guesses'[s] > 0 => codeTtl'[s] <= hitsTtl'
        /\ attempts'[s] > 0 => attemptsTtl'[s] <= hitsTtl'
    BY <1>1, <1>2, <1>3, <2>3, <2>4, <2>5
  <2> QED
    BY <2>1, <2>7, <2>8
<1>6. LimiterInv'
  BY <1>5, FS_EmptySet DEF LimiterInv, Tick, requestVars
<1>7. SingleUse'
  BY <1>1, <1>3 DEF SingleUse, Tick
<1> QED
  BY <1>4, <1>6, <1>7

LEMMA RegisterInv ==
  ASSUME OtpInv, NEW q \in Requests, Register(q)
  PROVE  OtpInv'
<1> USE DEF OtpInv
<1>1. /\ phase' = [phase EXCEPT ![q] = "first"] /\ scope' = [scope EXCEPT ![q] = "verify"]
      /\ phase[q] = "idle" /\ registered' = TRUE /\ UNCHANGED <<codeVars, limitVars>>
  BY DEF Register
<1>2. OtpTypeOK'
  BY <1>1 DEF OtpTypeOK, Phase, Scopes, codeVars, limitVars
<1>3. \A x \in Requests : /\ x # q => phase'[x] = phase[x] /\ scope'[x] = scope[x]
                          /\ phase'[q] = "first"
  BY <1>1 DEF OtpTypeOK
<1>4. \A t \in Scopes : InClaim(t)' = InClaim(t) \ {q}
  BY <1>3 DEF InClaim
<1>5. LimiterInv'
  BY <1>1, <1>2, <1>3, <1>4, FewerClaims DEF codeVars
<1>6. SingleUse'
  BY <1>1 DEF SingleUse, codeVars
<1> QED
  BY <1>2, <1>5, <1>6

LEMMA SetCooldownInv ==
  ASSUME OtpInv, NEW q \in Requests, SetCooldown(q)
  PROVE  OtpInv'
<1> USE DEF OtpInv
<1>1. /\ phase' \in [Requests -> Phase] /\ scope' \in [Requests -> Scopes]
      /\ \A t \in Scopes : InClaim(t)' = InClaim(t) \ {q}
      /\ \A x \in Requests : phase'[x] = "claim" => phase[x] = "claim"
  BY LeavesClaims DEF SetCooldown, Phase
<1>2. OtpTypeOK'
  BY <1>1, Bounds DEF OtpTypeOK, SetCooldown, limitVars
<1>3. LimiterInv'
  BY <1>1, <1>2, FewerClaims DEF SetCooldown
<1>4. SingleUse'
  BY DEF SingleUse, SetCooldown
<1> QED
  BY <1>2, <1>3, <1>4

LEMMA ServeInv ==
  ASSUME OtpInv, NEW q \in Requests, Serve(q) \/ Finishes(q) \/ AlreadyVerified(q)
  PROVE  OtpInv'
<1>1. CASE Register(q)
  BY <1>1, RegisterInv
<1>2. CASE FirstCode(q)
  BY <1>2, StoreCodeInv DEF FirstCode, Phase, Scopes
<1>3. CASE \E s \in Scopes, what \in {"claim", "issue"} : Arrives(q, s, what)
  BY <1>3, ArrivesInv
<1>4. CASE CheckCooldown(q)
  <2>1. (IF ~registered \/ cooldown[scope[q]] > 0 THEN "idle" ELSE "save") \in Phase \ {"claim"}
    BY DEF Phase
  <2> QED
    BY <1>4, <2>1, CodesKept DEF CheckCooldown
<1>5. CASE SaveCode(q)
  BY <1>5, StoreCodeInv DEF SaveCode, Phase, OtpInv, OtpTypeOK
<1>6. CASE SetCooldown(q)
  BY <1>6, SetCooldownInv
<1>7. CASE SendFails(q)
  BY <1>7, CodesKept DEF SendFails, Phase
<1>8. CASE Claim(q)
  BY <1>8, ClaimInv
<1>9. CASE Finishes(q)
  BY <1>9, CodesKept DEF Finishes, Phase
<1>10. CASE AlreadyVerified(q)
  BY <1>10, CodesKept DEF AlreadyVerified, Phase
<1> QED
  BY <1>1, <1>2, <1>3, <1>4, <1>5, <1>6, <1>7, <1>8, <1>9, <1>10 DEF Serve

-----------------------------------------------------------------------------
(* What a step of the code requests tells the account: a request holds a   *)
(* claim that it did not hold before only by an acceptance of its own.     *)
LEMMA ServeGrants ==
  ASSUME OtpTypeOK, NEW q \in Requests, Serve(q)
  PROVE  /\ phase[q] # "ok"
         /\ \A x \in Requests \ {q} : phase'[x] = phase[x] /\ scope'[x] = scope[x]
         /\ \A s \in Scopes : accepted'[s] \in Nat /\ accepted'[s] >= accepted[s]
         /\ phase'[q] = "ok" => /\ scope'[q] = scope[q]
                                /\ accepted'[scope[q]] = accepted[scope[q]] + 1
<1> USE DEF OtpTypeOK
<1>1. CASE Register(q)
  BY <1>1 DEF Register, codeVars
<1>2. CASE FirstCode(q)
  BY <1>2 DEF FirstCode, StoreCode, GoesOn
<1>3. CASE \E s \in Scopes, what \in {"claim", "issue"} : Arrives(q, s, what)
  BY <1>3 DEF Arrives, codeVars, requestVars
<1>4. CASE CheckCooldown(q)
  BY <1>4 DEF CheckCooldown, GoesOn, codeVars
<1>5. CASE SaveCode(q)
  BY <1>5 DEF SaveCode, StoreCode, GoesOn
<1>6. CASE SetCooldown(q)
  BY <1>6 DEF SetCooldown, GoesOn
<1>7. CASE SendFails(q)
  BY <1>7 DEF SendFails, GoesOn, codeVars
<1>8. CASE Claim(q)
  <2>1. phase[q] = "claim"
    BY <1>8 DEF Claim
  <2>2. CASE Expired(q)
    BY <2>1, <2>2 DEF Expired, GoesOn, codeVars
  <2>3. CASE GivenUp(q)
    BY <2>1, <2>3 DEF GivenUp, GoesOn
  <2>4. CASE Accepted(q)
    BY <2>1, <2>4 DEF Accepted, GoesOn
  <2>5. CASE Wrong(q)
    BY <2>1, <2>5 DEF Wrong, GoesOn
  <2> QED
    BY <1>8, <2>2, <2>3, <2>4, <2>5 DEF Claim
<1> QED
  BY <1>1, <1>2, <1>3, <1>4, <1>5, <1>6, <1>7, <1>8 DEF Serve

LEMMA CodeStepInv ==
  ASSUME AccountInv, NEW q \in Requests, Serve(q), UNCHANGED accountVars
  PROVE  AccountInv'
<1>1. OtpInv'
  BY ServeInv DEF AccountInv
<1>2. OtpTypeOK /\ UNCHANGED <<user, held, work, resets, session, logins>>
  BY DEF AccountInv, OtpInv, accountVars
<1>3. /\ phase[q] # "ok"
      /\ \A x \in Requests \ {q} : phase'[x] = phase[x] /\ scope'[x] = scope[x]
      /\ \A s \in Scopes : accepted'[s] \in Nat /\ accepted'[s] >= accepted[s]
      /\ phase'[q] = "ok" => /\ scope'[q] = scope[q]
                             /\ accepted'[scope[q]] = accepted[scope[q]] + 1
  BY <1>2, ServeGrants
<1>4. AccountTypeOK'
  BY <1>1, <1>2 DEF AccountInv, AccountTypeOK, OtpInv
<1>5. \A s \in Scopes : accepted[s] \in Nat
  BY <1>2 DEF OtpTypeOK
<1>6. scope \in [Requests -> Scopes] /\ {"verify", "reset"} \subseteq Scopes
  BY <1>2 DEF OtpTypeOK, Scopes
<1>7. VerifiedByCode'
  BY <1>2, <1>3, <1>5, <1>6 DEF AccountInv, VerifiedByCode, Proved
<1>8. ResetByCode'
  <2>1. InReset' = InReset
    BY <1>2 DEF InReset
  <2>2. IsFiniteSet(Claimed) /\ Cardinality(Claimed) \in Nat /\ Cardinality(InReset) \in Nat /\ resets \in Nat
    BY AccountBounds, FS_CardinalityType DEF AccountInv, ResetByCode, AccountTypeOK
  <2>3. CASE phase'[q] = "ok" /\ scope[q] = "reset"
    <3>1. Claimed' = Claimed \cup {q}
      BY <1>3, <2>3 DEF Claimed
    <3>2. /\ IsFiniteSet(Claimed') /\ Cardinality(Claimed') \in Nat
          /\ Cardinality(Claimed') <= Cardinality(Claimed) + 1
      BY <2>2, <3>1, WithOne
    <3>3. accepted'["reset"] = accepted["reset"] + 1
      BY <1>3, <2>3
    <3> QED
      BY <1>2, <1>5, <1>6, <2>1, <2>2, <3>2, <3>3 DEF AccountInv, ResetByCode
  <2>4. CASE ~(phase'[q] = "ok" /\ scope[q] = "reset")
    <3>1. Claimed' = Claimed
      BY <1>3, <2>4 DEF Claimed
    <3> QED
      BY <1>2, <1>3, <1>5, <1>6, <2>1, <2>2, <3>1 DEF AccountInv, ResetByCode
  <2> QED
    BY <2>3, <2>4
<1> QED
  BY <1>1, <1>4, <1>7, <1>8 DEF AccountInv

-----------------------------------------------------------------------------
(* A request is done with its claim. *)
LEMMA ClaimSpent ==
  ASSUME AccountInv, NEW q \in Requests, GoesOn(q, "idle"),
         UNCHANGED <<registered, codeVars, limitVars>>
  PROVE  /\ OtpInv'
         /\ accepted' = accepted /\ scope' = scope
         /\ \A x \in Requests : phase'[x] = "ok" => phase[x] = "ok"
         /\ IsFiniteSet(Claimed')
         /\ Cardinality(Claimed) \in Nat /\ Cardinality(Claimed') \in Nat
         /\ Cardinality(Claimed') <= Cardinality(Claimed)
         /\ q \in Claimed => Cardinality(Claimed') + 1 = Cardinality(Claimed)
<1>1. OtpInv'
  BY CodesKept DEF AccountInv, Phase
<1>2. /\ accepted' = accepted /\ scope' = scope
      /\ \A x \in Requests : phase'[x] = IF x = q THEN "idle" ELSE phase[x]
  BY DEF GoesOn, codeVars, AccountInv, OtpInv, OtpTypeOK
<1>3. Claimed' = Claimed \ {q} /\ IsFiniteSet(Claimed)
  BY <1>2 DEF Claimed, AccountInv, ResetByCode
<1> QED
  BY <1>1, <1>2, <1>3, WithoutOne

LEMMA VerifyEmailInv ==
  ASSUME AccountInv, NEW q \in Requests, VerifyEmail(q)
  PROVE  AccountInv'
<1>1. /\ GoesOn(q, "idle") /\ UNCHANGED <<registered, codeVars, limitVars>>
      /\ scope[q] = "verify" /\ phase[q] = "ok"
      /\ user' = [user EXCEPT !.verified = TRUE]
      /\ UNCHANGED <<held, work, resets, session, logins>>
  BY DEF VerifyEmail, Finishes
<1>2. /\ OtpInv' /\ accepted' = accepted /\ scope' = scope
      /\ \A x \in Requests : phase'[x] = "ok" => phase[x] = "ok"
      /\ IsFiniteSet(Claimed')
      /\ Cardinality(Claimed) \in Nat /\ Cardinality(Claimed') \in Nat
      /\ Cardinality(Claimed') <= Cardinality(Claimed)
  BY <1>1, ClaimSpent
<1>3. AccountTypeOK'
  BY <1>1, <1>2 DEF AccountInv, AccountTypeOK, OtpInv, User
<1>4. VerifiedByCode'
  BY <1>1, <1>2 DEF AccountInv, VerifiedByCode, Proved
<1>5. ResetByCode'
  <2>1. InReset' = InReset /\ Cardinality(InReset) \in Nat /\ resets \in Nat /\ accepted["reset"] \in Nat
    BY <1>1, FS_CardinalityType, AccountBounds
       DEF InReset, AccountInv, AccountTypeOK, ResetByCode, OtpTypeOK, Scopes
  <2>2. user'.password = user.password
    BY <1>1 DEF AccountInv, AccountTypeOK, User
  <2> QED
    BY <1>1, <1>2, <2>1, <2>2 DEF AccountInv, ResetByCode
<1> QED
  BY <1>2, <1>3, <1>4, <1>5 DEF AccountInv

LEMMA ClaimIsLostInv ==
  ASSUME AccountInv, NEW q \in Requests, ClaimIsLost(q) \/ AlreadyVerified(q)
  PROVE  AccountInv'
<1>1. /\ GoesOn(q, "idle") /\ UNCHANGED <<registered, codeVars, limitVars>>
      /\ UNCHANGED <<user, held, work, resets, session, logins>>
  BY DEF ClaimIsLost, AlreadyVerified, Finishes, accountVars
<1>2. /\ OtpInv' /\ accepted' = accepted /\ scope' = scope
      /\ \A x \in Requests : phase'[x] = "ok" => phase[x] = "ok"
      /\ IsFiniteSet(Claimed')
      /\ Cardinality(Claimed) \in Nat /\ Cardinality(Claimed') \in Nat
      /\ Cardinality(Claimed') <= Cardinality(Claimed)
  BY <1>1, ClaimSpent
<1>3. AccountTypeOK'
  BY <1>1, <1>2 DEF AccountInv, AccountTypeOK, OtpInv
<1>4. VerifiedByCode'
  BY <1>1, <1>2 DEF AccountInv, VerifiedByCode, Proved
<1>5. ResetByCode'
  <2>1. InReset' = InReset /\ Cardinality(InReset) \in Nat /\ resets \in Nat /\ accepted["reset"] \in Nat
    BY <1>1, FS_CardinalityType, AccountBounds
       DEF InReset, AccountInv, AccountTypeOK, ResetByCode, OtpTypeOK, Scopes
  <2> QED
    BY <1>1, <1>2, <2>1 DEF AccountInv, ResetByCode
<1> QED
  BY <1>2, <1>3, <1>4, <1>5 DEF AccountInv

(* The claimed code is handed on to the password it is for. *)
LEMMA ResetReadsInv ==
  ASSUME AccountInv, NEW q \in Requests, ResetReads(q)
  PROVE  AccountInv'
<1>1. /\ GoesOn(q, "idle") /\ UNCHANGED <<registered, codeVars, limitVars>>
      /\ scope[q] = "reset" /\ phase[q] = "ok"
      /\ held' = [held EXCEPT ![q] = user]
      /\ work' = [work EXCEPT ![q] = "reset"]
      /\ UNCHANGED <<user, resets, session, logins>>
  BY DEF ResetReads, Finishes, Reads, Found
<1>2. q \in Claimed
  BY <1>1 DEF Claimed
<1>3. /\ OtpInv' /\ accepted' = accepted /\ scope' = scope
      /\ \A x \in Requests : phase'[x] = "ok" => phase[x] = "ok"
      /\ IsFiniteSet(Claimed')
      /\ Cardinality(Claimed) \in Nat /\ Cardinality(Claimed') \in Nat
      /\ Cardinality(Claimed') + 1 = Cardinality(Claimed)
  BY <1>1, <1>2, ClaimSpent
<1>4. AccountTypeOK'
  BY <1>1, <1>3 DEF AccountInv, AccountTypeOK, OtpInv, Work
<1>5. /\ \A x \in Requests : held'[x] = IF x = q THEN user ELSE held[x]
      /\ \A x \in Requests : work'[x] = IF x = q THEN "reset" ELSE work[x]
  BY <1>1 DEF AccountInv, AccountTypeOK
<1>6. VerifiedByCode'
  BY <1>1, <1>3, <1>5 DEF AccountInv, VerifiedByCode, Proved
<1>7. ResetByCode'
  <2>1. InReset' = InReset \cup {q} /\ IsFiniteSet(InReset)
    BY <1>5 DEF InReset, AccountInv, ResetByCode
  <2>2. /\ IsFiniteSet(InReset') /\ Cardinality(InReset) \in Nat /\ Cardinality(InReset') \in Nat
        /\ Cardinality(InReset') <= Cardinality(InReset) + 1
    BY <2>1, WithOne
  <2>3. resets \in Nat /\ accepted["reset"] \in Nat
    BY AccountBounds DEF AccountInv, AccountTypeOK, OtpTypeOK, Scopes
  <2> QED
    BY <1>1, <1>3, <1>5, <2>2, <2>3 DEF AccountInv, ResetByCode
<1> QED
  BY <1>3, <1>4, <1>6, <1>7 DEF AccountInv

-----------------------------------------------------------------------------
(* Steps on the row and on sessions: no code is involved. *)
LEMMA OtpKept ==
  ASSUME OtpInv, UNCHANGED otpVars
  PROVE  OtpInv' /\ accepted' = accepted /\ phase' = phase /\ scope' = scope /\ Claimed' = Claimed
<1>1. UNCHANGED <<registered, codeTtl, attempts, attemptsTtl, guesses, issued, accepted, cooldown,
                  hits, hitsTtl, phase, scope>>
  BY DEF otpVars, codeVars, limitVars, requestVars
<1> QED
  BY <1>1 DEF OtpInv, OtpTypeOK, LimiterInv, Counted, InClaim, SingleUse, Claimed

LEMMA ReadsInv ==
  ASSUME AccountInv, NEW q \in Requests, ProfileReads(q) \/ LoginReads(q)
  PROVE  AccountInv'
<1>1. /\ UNCHANGED otpVars /\ UNCHANGED <<user, resets, session, logins>>
      /\ held' = [held EXCEPT ![q] = user]
      /\ work[q] = "none"
      /\ \E w \in {"rename", "login"} : /\ work' = [work EXCEPT ![q] = w]
                                        /\ w = "login" => user.verified
  BY DEF ProfileReads, LoginReads, Reads, Found, Free
<1>2. PICK w \in {"rename", "login"} : /\ work' = [work EXCEPT ![q] = w]
                                       /\ w = "login" => user.verified
  BY <1>1
<1>3. OtpInv' /\ accepted' = accepted /\ phase' = phase /\ scope' = scope /\ Claimed' = Claimed
  BY <1>1, OtpKept DEF AccountInv
<1>4. AccountTypeOK'
  BY <1>1, <1>2, <1>3 DEF AccountInv, AccountTypeOK, OtpInv, Work
<1>5. /\ \A x \in Requests : held'[x] = IF x = q THEN user ELSE held[x]
      /\ \A x \in Requests : work'[x] = IF x = q THEN w ELSE work[x]
  BY <1>1, <1>2 DEF AccountInv, AccountTypeOK
<1>6. VerifiedByCode'
  BY <1>1, <1>2, <1>3, <1>5 DEF AccountInv, VerifiedByCode, Proved
<1>7. InReset' = InReset
  BY <1>1, <1>5 DEF InReset
<1>8. ResetByCode'
  BY <1>1, <1>3, <1>5, <1>7 DEF AccountInv, ResetByCode
<1> QED
  BY <1>3, <1>4, <1>6, <1>8 DEF AccountInv

(* What a request does with the row it holds, or without doing it. *)
Saved(q) ==
  \/ SavesPassword(q)
  \/ SavesProfile(q)
  \/ SavesSession(q)
  \/ SaveFails(q)

LEMMA SavedInv ==
  ASSUME AccountInv, NEW q \in Requests, Saved(q)
  PROVE  AccountInv'
<1>1. work' = [work EXCEPT ![q] = "none"] /\ UNCHANGED <<otpVars, held>>
  BY DEF Saved, SavesPassword, SavesProfile, SavesSession, SaveFails, WorkDone
<1>2. OtpInv' /\ accepted' = accepted /\ phase' = phase /\ scope' = scope /\ Claimed' = Claimed
  BY <1>1, OtpKept DEF AccountInv
<1>3. \A x \in Requests : work'[x] = IF x = q THEN "none" ELSE work[x]
  BY <1>1 DEF AccountInv, AccountTypeOK
<1>4. /\ user \in User /\ held[q] \in User /\ resets \in Nat /\ logins \in Nat /\ session \in 0 .. logins
      /\ resets <= MaxResets /\ logins <= MaxSessions /\ MaxResets \in Nat /\ MaxSessions \in Nat
  BY AccountBounds DEF AccountInv, AccountTypeOK
<1>5. /\ resets' \in 0 .. MaxResets /\ user' \in User
      /\ logins' \in 0 .. MaxSessions /\ session' \in 0 .. logins'
      /\ user'.verified => user.verified \/ held[q].verified
      /\ logins' > 0 => logins > 0 \/ work[q] = "login"
      /\ resets' = resets \/ (resets' = resets + 1 /\ work[q] = "reset")
      /\ user'.password <= resets'
  <2>1. user.password <= resets /\ held[q].password <= resets
    BY DEF AccountInv, ResetByCode
  <2>2. CASE SavesPassword(q)
    <3>1. resets' = resets + 1 /\ resets < MaxResets /\ work[q] = "reset" /\ UNCHANGED <<session, logins>>
          /\ user' = [held[q] EXCEPT !.password = resets + 1]
      BY <2>2 DEF SavesPassword
    <3>2. user' \in User /\ user'.password = resets + 1 /\ user'.verified = held[q].verified
      BY <1>4, <3>1 DEF User
    <3> QED
      BY <1>4, <3>1, <3>2
  <2>3. CASE SavesProfile(q)
    <3>1. user' = [held[q] EXCEPT !.renamed = TRUE] /\ UNCHANGED <<resets, session, logins>>
      BY <2>3 DEF SavesProfile
    <3>2. user' \in User /\ user'.password = held[q].password /\ user'.verified = held[q].verified
      BY <1>4, <3>1 DEF User
    <3> QED
      BY <1>4, <2>1, <3>1, <3>2
  <2>4. CASE SavesSession(q)
    BY <1>4, <2>1, <2>4 DEF SavesSession
  <2>5. CASE SaveFails(q)
    BY <1>4, <2>1, <2>5 DEF SaveFails
  <2> QED
    BY <2>2, <2>3, <2>4, <2>5 DEF Saved
<1>6. AccountTypeOK'
  BY <1>1, <1>2, <1>5 DEF AccountInv, AccountTypeOK, OtpInv, Work
<1>7. VerifiedByCode'
  BY <1>1, <1>2, <1>3, <1>5 DEF AccountInv, VerifiedByCode, Proved
<1>8. ResetByCode'
  <2>1. InReset' = InReset \ {q} /\ IsFiniteSet(InReset) /\ (work[q] = "reset" => q \in InReset)
    BY <1>3 DEF InReset, AccountInv, ResetByCode
  <2>2. /\ IsFiniteSet(InReset') /\ Cardinality(InReset) \in Nat /\ Cardinality(InReset') \in Nat
        /\ Cardinality(InReset') <= Cardinality(InReset)
        /\ work[q] = "reset" => Cardinality(InReset') + 1 = Cardinality(InReset)
    BY <2>1, WithoutOne
  <2>3. Cardinality(Claimed) \in Nat /\ accepted["reset"] \in Nat
    BY FS_CardinalityType DEF AccountInv, AccountTypeOK, OtpTypeOK, ResetByCode, Scopes
  <2>4. /\ IsFiniteSet(Claimed)
        /\ resets + Cardinality(InReset) + Cardinality(Claimed) <= accepted["reset"]
        /\ \A x \in Requests : held[x].password \in Nat /\ held[x].password <= resets
    BY <1>4 DEF AccountInv, AccountTypeOK, ResetByCode, User
  <2>5. resets' \in Nat /\ resets <= resets'
    BY <1>4, <1>5
  <2>6. resets' + Cardinality(InReset') + Cardinality(Claimed') <= accepted'["reset"]
    BY <1>2, <1>4, <1>5, <2>2, <2>3, <2>4
  <2>7. \A x \in Requests : held'[x].password <= resets'
    BY <1>1, <1>4, <2>4, <2>5
  <2> QED
    BY <1>2, <1>5, <2>2, <2>4, <2>6, <2>7 DEF ResetByCode
<1> QED
  BY <1>2, <1>6, <1>7, <1>8 DEF AccountInv

-----------------------------------------------------------------------------
LEMMA AccountInitInv == AccountInit => AccountInv
<1> SUFFICES ASSUME AccountInit PROVE AccountInv
  OBVIOUS
<1>1. OtpTypeOK /\ AccountTypeOK
  <2>1. OtpTypeOK
    <3>1. "idle" \in Phase /\ "verify" \in Scopes
      BY DEF Phase, Scopes
    <3>2. {CodeTtl, MaxAttempts, MaxCodes, Cooldown, Limit + 1, Window} \subseteq Nat
      BY Bounds
    <3>3. 0 \in 0 .. CodeTtl /\ 0 \in 0 .. MaxAttempts /\ 0 \in 0 .. MaxCodes /\ 0 \in 0 .. Cooldown
          /\ 0 \in 0 .. Limit + 1 /\ 0 \in 0 .. Window
      BY <3>2
    <3> QED
      BY <3>1, <3>3 DEF AccountInit, OtpInit, OtpTypeOK
  <2>2. MaxResets \in Nat /\ MaxSessions \in Nat
    BY AccountBounds
  <2>3. NewUser \in User
    BY <2>2 DEF NewUser, User
  <2>4. resets \in 0 .. MaxResets /\ logins \in 0 .. MaxSessions /\ session \in 0 .. logins
    BY <2>2 DEF AccountInit
  <2> QED
    BY <2>1, <2>3, <2>4 DEF AccountInit, AccountTypeOK, Work
<1>2. \A s \in Scopes : InClaim(s) = {}
  BY DEF AccountInit, OtpInit, InClaim
<1>3. InReset = {} /\ Claimed = {}
  BY DEF AccountInit, OtpInit, InReset, Claimed
<1>4. IsFiniteSet({}) /\ Cardinality({}) = 0
  BY FS_EmptySet
<1>5. LimiterInv /\ SingleUse
  BY <1>2, <1>4, Bounds DEF AccountInit, OtpInit, LimiterInv, SingleUse, Counted
<1>6. VerifiedByCode
  BY DEF AccountInit, OtpInit, VerifiedByCode, NewUser
<1>7. ResetByCode
  BY <1>3, <1>4 DEF AccountInit, OtpInit, ResetByCode, NewUser, Scopes
<1> QED
  BY <1>1, <1>5, <1>6, <1>7 DEF AccountInv, OtpInv

LEMMA AccountNextInv == AccountInv /\ [AccountNext]_allVars => AccountInv'
<1> SUFFICES ASSUME AccountInv, [AccountNext]_allVars PROVE AccountInv'
  OBVIOUS
<1>1. ASSUME NEW q \in Requests, HandleCodes(q) PROVE AccountInv'
  BY <1>1, CodeStepInv, VerifyEmailInv, ResetReadsInv, ClaimIsLostInv DEF HandleCodes
<1>2. ASSUME NEW q \in Requests, HandleAccount(q) PROVE AccountInv'
  BY <1>2, ReadsInv, SavedInv DEF HandleAccount, Saved
<1>3. CASE Tick /\ UNCHANGED accountVars
  <2>1. OtpInv'
    BY <1>3, TickInv DEF AccountInv
  <2>2. UNCHANGED <<accepted, phase, scope, user, held, work, resets, session, logins>>
    BY <1>3 DEF Tick, requestVars, accountVars
  <2> QED
    BY <2>1, <2>2 DEF AccountInv, AccountTypeOK, OtpInv, VerifiedByCode, Proved, ResetByCode,
       InReset, Claimed
<1>4. CASE SessionEnds \/ UNCHANGED allVars
  <2>1. OtpInv' /\ accepted' = accepted /\ phase' = phase /\ scope' = scope /\ Claimed' = Claimed
    BY <1>4, OtpKept DEF AccountInv, SessionEnds, allVars
  <2>2. UNCHANGED <<user, held, work, resets, logins>> /\ (session' = 0 \/ session' = session)
    BY <1>4 DEF SessionEnds, allVars, accountVars
  <2>3. AccountTypeOK'
    BY <2>1, <2>2, AccountBounds DEF AccountInv, AccountTypeOK, OtpInv
  <2> QED
    BY <2>1, <2>2, <2>3 DEF AccountInv, VerifiedByCode, Proved, ResetByCode, InReset
<1> QED
  BY <1>1, <1>2, <1>3, <1>4 DEF AccountNext

LEMMA AccountsKept == AccountSpec => []AccountInv
BY AccountInitInv, AccountNextInv, PTL DEF AccountSpec

(* The limit on hits counts every guess at a live code, so a code is       *)
(* compared with at most MaxAttempts wrong ones although its counter of    *)
(* attempts may run out before it does.                                    *)
THEOREM GuessesRunOut == AccountSpec => []GuessesAreBounded
<1>1. AccountInv => GuessesAreBounded
  <2> SUFFICES ASSUME AccountInv, NEW s \in Scopes PROVE guesses[s] <= MaxAttempts
    BY DEF GuessesAreBounded
  <2>1. IsFiniteSet(InClaim(s)) /\ guesses[s] + Cardinality(InClaim(s)) <= Limit /\ guesses[s] \in Nat
    BY DEF AccountInv, OtpInv, OtpTypeOK, LimiterInv, Counted
  <2>2. Cardinality(InClaim(s)) \in Nat
    BY <2>1, FS_CardinalityType
  <2> QED
    BY <2>1, <2>2, Bounds
<1> QED
  BY <1>1, AccountsKept, PTL

(* However claims of one code interleave, one of them is accepted: the     *)
(* script that accepts a code deletes it.                                  *)
THEOREM CodesAreSingleUse == AccountSpec => []CodesWorkOnce
<1>1. AccountInv => CodesWorkOnce
  BY DEF AccountInv, OtpInv, SingleUse, CodesWorkOnce
<1> QED
  BY <1>1, AccountsKept, PTL

(* The limiter turns a request away before the counter of attempts, which  *)
(* a code inherits from the one before it, would kill a code that is good. *)
THEOREM GoodCodesGetIn == AccountSpec => []GoodCodesAreAccepted
<1>1. AccountInv => GoodCodesAreAccepted
  <2> SUFFICES ASSUME AccountInv, NEW q \in Requests, phase[q] = "claim"
               PROVE  ~TooManyAttempts(scope[q])
    BY DEF GoodCodesAreAccepted
  <2> DEFINE s == scope[q]
  <2>1. s \in Scopes /\ q \in InClaim(s)
    BY DEF AccountInv, OtpInv, OtpTypeOK, InClaim
  <2>2. IsFiniteSet(InClaim(s)) /\ attempts[s] + Cardinality(InClaim(s)) <= Limit /\ attempts[s] \in Nat
    BY <2>1, Bounds DEF AccountInv, OtpInv, OtpTypeOK, LimiterInv, Counted
  <2>3. /\ Cardinality(InClaim(s)) \in Nat /\ Cardinality(InClaim(s) \ {q}) \in Nat
        /\ Cardinality(InClaim(s) \ {q}) + 1 = Cardinality(InClaim(s))
    BY <2>1, <2>2, WithoutOne
  <2> QED
    BY <2>2, <2>3, Bounds DEF TooManyAttempts
<1> QED
  BY <1>1, AccountsKept, PTL

(* No stale save, reset or login gets anybody in whose address no claimed  *)
(* verification code has proved.                                           *)
THEOREM AddressesAreProved == AccountSpec => []SignedInUsersProvedTheirAddress
<1>1. AccountInv => SignedInUsersProvedTheirAddress
  BY DEF AccountInv, VerifiedByCode, Proved, SignedInUsersProvedTheirAddress
<1> QED
  BY <1>1, AccountsKept, PTL

(* With any number of resets in progress, each password that was set and   *)
(* each that is about to be has an accepted reset code of its own.         *)
THEOREM PasswordsArePaidFor == AccountSpec => []PasswordsCostCodes
<1>1. AccountInv => PasswordsCostCodes
  <2> SUFFICES ASSUME AccountInv PROVE PasswordsCostCodes
    OBVIOUS
  <2>1. /\ IsFiniteSet(InReset) /\ IsFiniteSet(Claimed)
        /\ resets + Cardinality(InReset) + Cardinality(Claimed) <= accepted["reset"]
        /\ user.password <= resets
        /\ resets \in Nat /\ accepted["reset"] \in Nat
    BY AccountBounds DEF AccountInv, AccountTypeOK, OtpTypeOK, ResetByCode, Scopes
  <2>2. Cardinality(InReset) \in Nat /\ Cardinality(Claimed) \in Nat
    BY <2>1, FS_CardinalityType
  <2>3. resets + Cardinality(InReset) <= accepted["reset"]
    BY <2>1, <2>2
  <2> QED
    BY <2>1, <2>3 DEF PasswordsCostCodes, InReset
<1> QED
  BY <1>1, AccountsKept, PTL

-----------------------------------------------------------------------------
(* What a step does to the row: nothing; a proof in its own column; or a   *)
(* save of what a request has read, with its change.                       *)
RowKept ==
  /\ user' = user
  /\ held' = held
  /\ \A x \in Requests : work'[x] \in {work[x], "none"}

RowRead(q) ==
  /\ user' = user
  /\ \A x \in Requests : held'[x] = IF x = q THEN user ELSE held[x]
  /\ \A x \in Requests \ {q} : work'[x] = work[x]

RowProved ==
  /\ user' = [user EXCEPT !.verified = TRUE]
  /\ held' = held /\ work' = work

RowSaved(q) ==
  /\ \/ user' = [held[q] EXCEPT !.password = resets + 1] /\ work[q] = "reset"
     \/ user' = [held[q] EXCEPT !.renamed = TRUE] /\ work[q] = "rename"
  /\ held' = held
  /\ \A x \in Requests : work'[x] \in {work[x], "none"}

LEMMA RowSteps ==
  ASSUME AccountInv, AccountNext
  PROVE  RowKept \/ RowProved \/ \E q \in Requests : RowRead(q) \/ RowSaved(q)
<1>1. held \in [Requests -> User] /\ work \in [Requests -> Work]
  BY DEF AccountInv, AccountTypeOK
<1>2. ASSUME NEW q \in Requests, HandleCodes(q)
      PROVE  RowKept \/ RowProved \/ RowRead(q)
  <2>1. CASE UNCHANGED accountVars
    BY <2>1 DEF RowKept, accountVars
  <2>2. CASE AlreadyVerified(q) \/ ClaimIsLost(q)
    BY <2>2 DEF AlreadyVerified, ClaimIsLost, RowKept, accountVars
  <2>3. CASE VerifyEmail(q)
    BY <2>3 DEF VerifyEmail, RowProved
  <2>4. CASE ResetReads(q)
    BY <1>1, <2>4 DEF ResetReads, Reads, Found, RowRead
  <2> QED
    BY <1>2, <2>1, <2>2, <2>3, <2>4 DEF HandleCodes
<1>3. ASSUME NEW q \in Requests, HandleAccount(q)
      PROVE  RowKept \/ RowRead(q) \/ RowSaved(q)
  <2>1. CASE ProfileReads(q) \/ LoginReads(q)
    BY <1>1, <2>1 DEF ProfileReads, LoginReads, Reads, Found, RowRead
  <2>2. CASE SavesPassword(q) \/ SavesProfile(q)
    BY <1>1, <2>2 DEF SavesPassword, SavesProfile, WorkDone, RowSaved
  <2>3. CASE SavesSession(q) \/ SaveFails(q)
    BY <1>1, <2>3 DEF SavesSession, SaveFails, WorkDone, RowKept
  <2> QED
    BY <1>3, <2>1, <2>2, <2>3 DEF HandleAccount
<1>4. CASE (Tick /\ UNCHANGED accountVars) \/ SessionEnds
  BY <1>4 DEF SessionEnds, RowKept, accountVars
<1> QED
  BY <1>2, <1>3, <1>4 DEF AccountNext

(* What a late save can put back rests on the requests that were under     *)
(* way: after the last of those, no step takes a proof of the address back *)
(* or brings a replaced password again, with any requests and resets.      *)
THEOREM WhatIsSettledStands == AccountSpec => SettledAccountsStand
<1>1. ASSUME AccountInv, [AccountNext]_allVars
      PROVE  /\ ProofIsSettled => ProofIsSettled'
             /\ \A p \in 0 .. MaxResets : IsReplaced(p) => IsReplaced(p)'
  <2>1. /\ user \in User /\ held \in [Requests -> User] /\ resets \in Nat
        /\ user.password <= resets /\ MaxResets \in Nat
    BY <1>1, AccountBounds DEF AccountInv, AccountTypeOK, ResetByCode
  <2>2. CASE RowKept \/ UNCHANGED allVars
    BY <2>2 DEF RowKept, allVars, accountVars, ProofIsSettled, IsReplaced
  <2>3. CASE RowProved
    <3>1. user'.verified = TRUE /\ user'.password = user.password /\ held' = held /\ work' = work
      BY <2>1, <2>3 DEF RowProved, User
    <3> QED
      BY <3>1 DEF ProofIsSettled, IsReplaced
  <2>4. ASSUME NEW q \in Requests, RowRead(q)
        PROVE  /\ ProofIsSettled => ProofIsSettled'
               /\ \A p \in 0 .. MaxResets : IsReplaced(p) => IsReplaced(p)'
    BY <2>4 DEF RowRead, ProofIsSettled, IsReplaced
  <2>5. ASSUME NEW q \in Requests, RowSaved(q)
        PROVE  /\ ProofIsSettled => ProofIsSettled'
               /\ \A p \in 0 .. MaxResets : IsReplaced(p) => IsReplaced(p)'
    <3>1. /\ held' = held /\ work[q] \in {"reset", "rename"}
          /\ \A x \in Requests : work'[x] \in {work[x], "none"}
          /\ user'.verified = held[q].verified
      BY <2>1, <2>5 DEF RowSaved, User
    <3>2. \/ user'.password = resets + 1
          \/ user'.password = held[q].password /\ work[q] = "rename"
      BY <2>1, <2>5 DEF RowSaved, User
    <3>3. ProofIsSettled => ProofIsSettled'
      BY <3>1 DEF ProofIsSettled
    <3>4. ASSUME NEW p \in 0 .. MaxResets, IsReplaced(p)
          PROVE  IsReplaced(p)'
      <4>1. user.password > p /\ \A x \in Requests : work[x] = "rename" => held[x].password > p
        BY <3>4 DEF IsReplaced
      <4>2. p \in Nat /\ user.password \in Nat
        BY <2>1 DEF User
      <4>3. user'.password > p
        BY <2>1, <3>2, <4>1, <4>2
      <4>4. \A x \in Requests : work'[x] = "rename" => work[x] = "rename"
        BY <3>1
      <4> QED
        BY <3>1, <4>1, <4>3, <4>4 DEF IsReplaced
    <3> QED
      BY <3>3, <3>4
  <2> QED
    BY <1>1, <2>2, <2>3, <2>4, <2>5, RowSteps
<1> QED
  BY <1>1, AccountsKept, PTL DEF SettledAccountsStand, AccountSpec

(* Keys, counters, requests and the row keep their types. *)
THEOREM AccountsTyped == AccountSpec => []AccountTypeOK
<1>1. AccountInv => AccountTypeOK
  BY DEF AccountInv
<1> QED
  BY <1>1, AccountsKept, PTL

-----------------------------------------------------------------------------
(* Sessions. *)
OneKey == \A s1, s2 \in stored : s1 = s2

(* What a refresh in progress knows of its session.                        *)
LookIsFair(r) == r.at = "look" => r.alive \/ r.token \in over
SignIsFair(r) == r.at = "sign" => r.alive

(* How long ago a request, and the token it works with, began.             *)
InTime(r) ==
  /\ r # Idle => now <= r.since + Delay
  /\ r.at \in {"save", "answer"} => r.token = r.since
  /\ r.at \in {"look", "sign"} => r.since < r.token + RefreshLife

AllInTime == \A q \in Calls : InTime(request[q])

Inv ==
  /\ TypeOK
  /\ OneKey
  /\ StoredTokens \cap over = {}
  /\ \A q \in Calls : LookIsFair(request[q]) /\ SignIsFair(request[q])
  /\ AllInTime
  /\ EndedSessionsGrantNothing
  /\ AccessIsBounded

-----------------------------------------------------------------------------
LEMMA AtMostOne == ASSUME NEW x PROVE Cardinality({x}) <= 1
<1>1. Cardinality({x}) = 1
  BY FS_Singleton
<1> QED
  BY <1>1

LEMMA Fewer ==
  ASSUME NEW S, NEW T \in SUBSET S, \A x, y \in S : x = y
  PROVE  Cardinality(T) <= 1
<1>1. CASE T = {}
  BY <1>1, FS_EmptySet
<1>2. CASE T # {}
  <2>1. PICK x \in T : TRUE
    BY <1>2
  <2>2. T = {x}
    BY <2>1
  <2> QED
    BY <2>2, FS_Singleton
<1> QED
  BY <1>1, <1>2

(* The shapes of the requests. *)
Shape == {Idle} \cup Signing \cup Refreshing \cup Leaving

LEMMA Steps ==
  ASSUME NEW r \in Shape
  PROVE  /\ r = Idle <=> r.at = "idle"
         /\ r.at \in {"save", "answer"} <=> r \in Signing
         /\ r.at \in {"look", "sign"} <=> r \in Refreshing
         /\ r.at = "delete" <=> r \in Leaving
BY DEF Shape, Idle, Signing, Refreshing, Leaving

LEMMA InitInv == Init => Inv
<1> SUFFICES ASSUME Init PROVE Inv
  OBVIOUS
<1>1. now \in Time /\ MaxTime \in Nat /\ Delay \in Nat
  BY SessionTimes DEF Init, Time
<1>2. TypeOK
  BY <1>1, FS_EmptySet DEF Init, TypeOK, Access, Stored
<1>3. Idle.at = "idle"
  BY DEF Idle
<1> QED
  BY <1>1, <1>2, <1>3 DEF Init, Inv, OneKey, StoredTokens, LookIsFair, SignIsFair, AllInTime,
     InTime, EndedSessionsGrantNothing, AccessIsBounded

-----------------------------------------------------------------------------
(* A step of request q that keeps the time and the store.                  *)
LEMMA OneRequestMoves ==
  ASSUME Inv, NEW q \in Calls, NEW r \in Shape,
         request' = [request EXCEPT ![q] = r],
         UNCHANGED now, LookIsFair(r), SignIsFair(r), InTime(r),
         over \subseteq over'
  PROVE  /\ request' \in [Calls -> Shape]
         /\ \A x \in Calls : LookIsFair(request[x])' /\ SignIsFair(request[x])'
         /\ AllInTime'
<1>1. request \in [Calls -> Shape]
  BY DEF Inv, TypeOK, Shape
<1>2. request' \in [Calls -> Shape]
  BY <1>1
<1>3. \A x \in Calls : request'[x] = IF x = q THEN r ELSE request[x]
  BY <1>1
<1>4. \A x \in Calls : LookIsFair(request[x])' /\ SignIsFair(request[x])'
  BY <1>3 DEF Inv, LookIsFair, SignIsFair
<1>5. AllInTime'
  BY <1>3 DEF Inv, AllInTime, InTime
<1> QED
  BY <1>2, <1>4, <1>5

LEMMA IdleIsFair == Idle \in Shape /\ LookIsFair(Idle) /\ SignIsFair(Idle) /\ InTime(Idle)
BY DEF Idle, Shape, LookIsFair, SignIsFair, InTime

LEMMA LogsInInv ==
  ASSUME Inv, NEW q \in Calls, NEW d \in Devices, LogsIn(q, d)
  PROVE  Inv'
<1> DEFINE r == [at |-> "save", device |-> d, since |-> now, token |-> now]
<1>1. now \in Time /\ now \in Nat /\ Delay \in Nat
  BY SessionTimes DEF Inv, TypeOK, Time
<1>2. r \in Shape
  BY <1>1 DEF Shape, Signing
<1>3. r.at = "save" /\ r.since = now /\ r.token = now
  OBVIOUS
<1> HIDE DEF r
<1>4. LookIsFair(r) /\ SignIsFair(r) /\ InTime(r)
  BY <1>1, <1>3 DEF LookIsFair, SignIsFair, InTime
<1>5. request' = [request EXCEPT ![q] = r] /\ UNCHANGED <<now, stored, cookie, access, over>>
  BY DEF LogsIn, Begins, r
<1>6. /\ request' \in [Calls -> Shape]
      /\ \A x \in Calls : LookIsFair(request[x])' /\ SignIsFair(request[x])'
      /\ AllInTime'
  BY <1>2, <1>4, <1>5, OneRequestMoves
<1> QED
  BY <1>5, <1>6 DEF Inv, TypeOK, Shape, OneKey, StoredTokens, EndedSessionsGrantNothing, AccessIsBounded

(* The session before a login is over, unless it has the same token. *)
LEMMA SavesRefreshInv ==
  ASSUME Inv, NEW q \in Calls, SavesRefresh(q)
  PROVE  Inv'
<1> DEFINE token == request[q].token
<1>1. request \in [Calls -> Shape] /\ request[q] \in Signing
  BY Steps DEF Inv, TypeOK, Shape, SavesRefresh
<1>2. token \in Time /\ now \in Nat /\ now <= MaxTime /\ {MaxTime, RefreshLife, AccessLife} \subseteq Nat
  BY <1>1, SessionTimes DEF Inv, TypeOK, Time, Signing
<1>3. /\ stored' = {[token |-> token, until |-> now + RefreshLife]}
      /\ over' = (over \cup StoredTokens) \ {token}
      /\ UNCHANGED <<now, cookie, access>>
  BY DEF SavesRefresh, Replaces
<1>4. now + RefreshLife \in Until
  BY <1>2 DEF Until
<1>5. stored' \in SUBSET Stored /\ Cardinality(stored') <= 1
  <2>1. [token |-> token, until |-> now + RefreshLife] \in Stored
    BY <1>2, <1>4 DEF Stored
  <2> QED
    BY <1>3, <2>1, AtMostOne
<1>6. StoredTokens' = {token} /\ OneKey'
  BY <1>3 DEF StoredTokens, OneKey
<1>7. StoredTokens' \cap over' = {} /\ over' \subseteq Time
  BY <1>3, <1>6 DEF Inv, TypeOK, Stored, StoredTokens
<1>8. ASSUME NEW x \in Calls
      PROVE  /\ request'[x] \in Shape
             /\ LookIsFair(request[x])' /\ SignIsFair(request[x])' /\ InTime(request[x])'
  <2>1. request[x] \in Shape /\ LookIsFair(request[x]) /\ SignIsFair(request[x]) /\ InTime(request[x])
    BY <1>1 DEF Inv, AllInTime
  <2>2. CASE x = q
    <3>1. request'[x] = [request[q] EXCEPT !.at = "answer"]
      BY <2>2 DEF SavesRefresh
    <3>2. /\ request'[x] \in Signing /\ request'[x].at = "answer"
          /\ request'[x].token = request[q].token /\ request'[x].since = request[q].since
      BY <1>1, <3>1 DEF Signing
    <3>3. request[q] # Idle /\ request[q].at \in {"save", "answer"}
      BY <1>1 DEF Idle, Signing
    <3>4. now <= request[q].since + Delay /\ request[q].token = request[q].since
      BY <2>1, <2>2, <3>3 DEF InTime
    <3> QED
      BY <1>3, <3>2, <3>4 DEF Shape, LookIsFair, SignIsFair, InTime
  <2>3. CASE x # q /\ request[x].at = "look" /\ request[x].token = token
    <3>1. request'[x] = [request[x] EXCEPT !.alive = TRUE]
      BY <2>3 DEF SavesRefresh
    <3>2. request[x] \in Refreshing
      BY <2>1, <2>3, Steps
    <3>3. /\ request'[x] \in Refreshing /\ request'[x].at = "look" /\ request'[x].alive
          /\ request'[x].token = request[x].token /\ request'[x].since = request[x].since
      BY <2>3, <3>1, <3>2 DEF Refreshing
    <3>4. request[x] # Idle
      BY <2>3 DEF Idle
    <3>5. now <= request[x].since + Delay /\ request[x].since < request[x].token + RefreshLife
      BY <2>1, <2>3, <3>4 DEF InTime
    <3> QED
      BY <1>3, <3>3, <3>5 DEF Shape, LookIsFair, SignIsFair, InTime
  <2>4. CASE x # q /\ ~(request[x].at = "look" /\ request[x].token = token)
    <3>1. request'[x] = request[x]
      BY <2>4 DEF SavesRefresh
    <3> QED
      BY <1>3, <2>1, <2>4, <3>1 DEF LookIsFair, SignIsFair, InTime
  <2> QED
    BY <2>2, <2>3, <2>4
<1>9. request' \in [Calls -> Shape]
  <2>1. request' = [x \in Calls |-> request'[x]]
    BY DEF SavesRefresh
  <2> QED
    BY <1>8, <2>1
<1> QED
  BY <1>3, <1>5, <1>6, <1>7, <1>8, <1>9
     DEF Inv, TypeOK, Shape, AllInTime, EndedSessionsGrantNothing, AccessIsBounded

-----------------------------------------------------------------------------
(* The newest access token of a device. *)
LEMMA GetsInv ==
  ASSUME Inv, NEW d \in Devices, NEW a \in Access, Gets(d, a), a.alive,
         a.until < a.root + RefreshLife + Delay + AccessLife
  PROVE  /\ \A x \in Devices : access'[x] \in SUBSET Access /\ Cardinality(access'[x]) <= 1
         /\ EndedSessionsGrantNothing'
         /\ AccessIsBounded'
<1>1. \A x \in Devices : access'[x] = {a} \/ access'[x] = access[x]
  BY DEF Gets
<1>2. \A x \in Devices : access[x] \in SUBSET Access /\ Cardinality(access[x]) <= 1
  BY DEF Inv, TypeOK
<1>3. Cardinality({a}) <= 1
  BY AtMostOne
<1>4. \A x \in Devices : access'[x] \in SUBSET Access /\ Cardinality(access'[x]) <= 1
  BY <1>1, <1>2, <1>3
<1>5. EndedSessionsGrantNothing' /\ AccessIsBounded'
  BY <1>1 DEF Inv, EndedSessionsGrantNothing, AccessIsBounded
<1> QED
  BY <1>4, <1>5

LEMMA AnswersLoginInv ==
  ASSUME Inv, NEW q \in Calls, AnswersLogin(q)
  PROVE  Inv'
<1> DEFINE r == request[q]
           a == [root |-> r.token, until |-> r.since + AccessLife, alive |-> TRUE]
<1>1. request \in [Calls -> Shape] /\ r \in Signing
  BY Steps DEF Inv, TypeOK, Shape, AnswersLogin
<1>2. r.token = r.since /\ r.since \in Time /\ r.device \in Devices
  BY <1>1 DEF Inv, AllInTime, InTime, Signing
<1>3. {MaxTime, AccessLife, RefreshLife, Delay} \subseteq Nat /\ RefreshLife > 0
      /\ r.since \in Nat /\ r.since <= MaxTime
  BY <1>2, SessionTimes DEF Time
<1>4. r.since + AccessLife \in Until
  BY <1>3 DEF Until
<1>5. a \in Access /\ a.alive /\ a.until = r.since + AccessLife /\ a.root = r.since
  BY <1>2, <1>4 DEF Access
<1>6. a.until < a.root + RefreshLife + Delay + AccessLife
  BY <1>3, <1>5
<1>7. /\ request' = [request EXCEPT ![q] = Idle]
      /\ cookie' = [cookie EXCEPT ![r.device] = {r.token}]
      /\ Gets(r.device, a)
      /\ UNCHANGED <<now, stored, over>>
  BY DEF AnswersLogin, Ends
<1> HIDE DEF a
<1>8. /\ \A x \in Devices : access'[x] \in SUBSET Access /\ Cardinality(access'[x]) <= 1
      /\ EndedSessionsGrantNothing' /\ AccessIsBounded'
  BY <1>2, <1>5, <1>6, <1>7, GetsInv
<1>9. /\ request' \in [Calls -> Shape]
      /\ \A x \in Calls : LookIsFair(request[x])' /\ SignIsFair(request[x])'
      /\ AllInTime'
  BY <1>7, IdleIsFair, OneRequestMoves
<1>10. cookie' \in [Devices -> {{}} \cup {{t} : t \in Time}]
  BY <1>2, <1>7 DEF Inv, TypeOK
<1> QED
  BY <1>7, <1>8, <1>9, <1>10 DEF Inv, TypeOK, Shape, OneKey, StoredTokens

LEMMA RefreshesInv ==
  ASSUME Inv, NEW q \in Calls, NEW d \in Devices, Refreshes(q, d)
  PROVE  Inv'
<1>1. PICK token \in cookie[d] :
        /\ Verified(token)
        /\ Begins(q, [at |-> "look", device |-> d, since |-> now, token |-> token,
                      alive |-> token \notin over])
  BY DEF Refreshes
<1> DEFINE r == [at |-> "look", device |-> d, since |-> now, token |-> token,
                 alive |-> token \notin over]
<1>2. now \in Time /\ token \in Time
  BY DEF Inv, TypeOK
<1>3. now \in Nat /\ Delay \in Nat
  BY <1>2, SessionTimes DEF Time
<1>4. (token \notin over) \in BOOLEAN
  OBVIOUS
<1>5. r \in Shape
  BY <1>2, <1>4 DEF Shape, Refreshing
<1>6. r.at = "look" /\ r.since = now /\ r.token = token /\ (r.alive = (token \notin over))
  OBVIOUS
<1>7. request' = [request EXCEPT ![q] = r] /\ UNCHANGED <<now, stored, cookie, access, over>>
  BY <1>1 DEF Refreshes, Begins
<1> HIDE DEF r
<1>8. LookIsFair(r) /\ SignIsFair(r) /\ InTime(r)
  <2>1. LookIsFair(r) /\ SignIsFair(r)
    BY <1>6 DEF LookIsFair, SignIsFair
  <2>2. now < token + RefreshLife
    BY <1>1 DEF Verified
  <2> QED
    BY <1>3, <1>6, <2>1, <2>2 DEF InTime
<1>9. /\ request' \in [Calls -> Shape]
      /\ \A x \in Calls : LookIsFair(request[x])' /\ SignIsFair(request[x])'
      /\ AllInTime'
  BY <1>5, <1>7, <1>8, OneRequestMoves
<1> QED
  BY <1>7, <1>9 DEF Inv, TypeOK, Shape, OneKey, StoredTokens, EndedSessionsGrantNothing, AccessIsBounded

(* What is stored is not over: the look decides rightly. *)
LEMMA LooksUpInv ==
  ASSUME Inv, NEW q \in Calls, LooksUp(q)
  PROVE  Inv'
<1> DEFINE r == IF IsStored(request[q].token) THEN [request[q] EXCEPT !.at = "sign"] ELSE Idle
<1>1. request \in [Calls -> Shape] /\ request[q] \in Refreshing /\ request[q].at = "look"
  BY Steps DEF Inv, TypeOK, Shape, LooksUp
<1>2. request' = [request EXCEPT ![q] = r] /\ UNCHANGED <<now, stored, cookie, access, over>>
  BY <1>1 DEF LooksUp, GoesTo, Ends
<1>3. r \in Shape /\ LookIsFair(r) /\ SignIsFair(r) /\ InTime(r)
  <2>1. CASE ~IsStored(request[q].token)
    BY <2>1, IdleIsFair
  <2>2. CASE IsStored(request[q].token)
    <3>1. r = [request[q] EXCEPT !.at = "sign"]
      BY <2>2
    <3>2. /\ r \in Refreshing /\ r.at = "sign" /\ r.alive = request[q].alive
          /\ r.token = request[q].token /\ r.since = request[q].since
      BY <1>1, <3>1 DEF Refreshing
    <3>3. request[q].alive
      BY <1>1, <2>2 DEF Inv, LookIsFair, IsStored
    <3>4. request[q] # Idle
      BY <1>1 DEF Idle
    <3>5. now <= request[q].since + Delay /\ request[q].since < request[q].token + RefreshLife
      BY <1>1, <3>4 DEF Inv, AllInTime, InTime
    <3> HIDE DEF r
    <3> QED
      BY <3>2, <3>3, <3>5 DEF Shape, LookIsFair, SignIsFair, InTime
  <2> QED
    BY <2>1, <2>2
<1> HIDE DEF r
<1>4. /\ request' \in [Calls -> Shape]
      /\ \A x \in Calls : LookIsFair(request[x])' /\ SignIsFair(request[x])'
      /\ AllInTime'
  BY <1>2, <1>3, OneRequestMoves
<1> QED
  BY <1>2, <1>4 DEF Inv, TypeOK, Shape, OneKey, StoredTokens, EndedSessionsGrantNothing, AccessIsBounded

LEMMA SignsAccessInv ==
  ASSUME Inv, NEW q \in Calls, SignsAccess(q)
  PROVE  Inv'
<1> DEFINE r == request[q]
           a == [root |-> r.token, until |-> now + AccessLife, alive |-> r.alive]
<1>1. request \in [Calls -> Shape] /\ r \in Refreshing /\ r.at = "sign"
  BY Steps DEF Inv, TypeOK, Shape, SignsAccess
<1>2. r # Idle /\ r.token \in Time /\ r.since \in Time /\ r.device \in Devices /\ r.alive \in BOOLEAN
  BY <1>1 DEF Refreshing, Idle
<1>3. now <= r.since + Delay /\ r.since < r.token + RefreshLife /\ r.alive
  BY <1>1, <1>2 DEF Inv, AllInTime, InTime, SignIsFair
<1>4. {MaxTime, AccessLife, RefreshLife, Delay, now, r.since, r.token} \subseteq Nat /\ now <= MaxTime
  BY <1>2, SessionTimes DEF Inv, TypeOK, Time
<1>5. now + AccessLife \in Until
  BY <1>4 DEF Until
<1>6. a \in Access /\ a.alive /\ a.until = now + AccessLife /\ a.root = r.token
  BY <1>2, <1>3, <1>5 DEF Access
<1>7. a.until < a.root + RefreshLife + Delay + AccessLife
  BY <1>3, <1>4, <1>6
<1>8. /\ request' = [request EXCEPT ![q] = Idle]
      /\ Gets(r.device, a)
      /\ UNCHANGED <<now, stored, cookie, over>>
  BY DEF SignsAccess, Ends
<1> HIDE DEF a
<1>9. /\ \A x \in Devices : access'[x] \in SUBSET Access /\ Cardinality(access'[x]) <= 1
      /\ EndedSessionsGrantNothing' /\ AccessIsBounded'
  BY <1>2, <1>6, <1>7, <1>8, GetsInv
<1>10. /\ request' \in [Calls -> Shape]
       /\ \A x \in Calls : LookIsFair(request[x])' /\ SignIsFair(request[x])'
       /\ AllInTime'
  BY <1>8, IdleIsFair, OneRequestMoves
<1> QED
  BY <1>8, <1>9, <1>10 DEF Inv, TypeOK, Shape, OneKey, StoredTokens

-----------------------------------------------------------------------------
LEMMA LogsOutInv ==
  ASSUME Inv, NEW q \in Calls, NEW d \in Devices, LogsOut(q, d)
  PROVE  Inv'
<1> DEFINE r == [at |-> "delete", device |-> d, since |-> now]
<1>1. now \in Time /\ now \in Nat /\ Delay \in Nat
  BY SessionTimes DEF Inv, TypeOK, Time
<1>2. r \in Shape /\ r.at = "delete" /\ r.since = now
  BY <1>1 DEF Shape, Leaving
<1>3. request' = [request EXCEPT ![q] = r] /\ UNCHANGED <<now, stored, cookie, access, over>>
  BY DEF LogsOut, Begins
<1> HIDE DEF r
<1>4. LookIsFair(r) /\ SignIsFair(r) /\ InTime(r)
  BY <1>1, <1>2 DEF LookIsFair, SignIsFair, InTime
<1>5. /\ request' \in [Calls -> Shape]
      /\ \A x \in Calls : LookIsFair(request[x])' /\ SignIsFair(request[x])'
      /\ AllInTime'
  BY <1>2, <1>3, <1>4, OneRequestMoves
<1> QED
  BY <1>3, <1>5 DEF Inv, TypeOK, Shape, OneKey, StoredTokens, EndedSessionsGrantNothing, AccessIsBounded

LEMMA CookieCleared ==
  ASSUME Inv, NEW d, cookie' = [cookie EXCEPT ![d] = {}]
  PROVE  cookie' \in [Devices -> {{}} \cup {{t} : t \in Time}]
BY DEF Inv, TypeOK

LEMMA DeletesRefreshInv ==
  ASSUME Inv, NEW q \in Calls, DeletesRefresh(q)
  PROVE  Inv'
<1>1. /\ stored' = {} /\ over' = over \cup StoredTokens
      /\ cookie' = [cookie EXCEPT ![request[q].device] = {}]
      /\ request' = [request EXCEPT ![q] = Idle]
      /\ UNCHANGED <<now, access>>
  BY DEF DeletesRefresh, Ends
<1>2. /\ request' \in [Calls -> Shape]
      /\ \A x \in Calls : LookIsFair(request[x])' /\ SignIsFair(request[x])'
      /\ AllInTime'
  BY <1>1, IdleIsFair, OneRequestMoves
<1>3. over' \subseteq Time
  BY <1>1 DEF Inv, TypeOK, Stored, StoredTokens
<1>4. StoredTokens' = {} /\ OneKey' /\ stored' \in SUBSET Stored /\ Cardinality(stored') <= 1
  BY <1>1, FS_EmptySet DEF StoredTokens, OneKey
<1>5. cookie' \in [Devices -> {{}} \cup {{t} : t \in Time}]
  BY <1>1, CookieCleared
<1> QED
  BY <1>1, <1>2, <1>3, <1>4, <1>5
     DEF Inv, TypeOK, Shape, EndedSessionsGrantNothing, AccessIsBounded

LEMMA RequestFailsInv ==
  ASSUME Inv, NEW q \in Calls, RequestFails(q)
  PROVE  Inv'
<1>1. request' = [request EXCEPT ![q] = Idle] /\ UNCHANGED <<now, stored, access, over>>
  BY DEF RequestFails, Ends
<1>2. /\ request' \in [Calls -> Shape]
      /\ \A x \in Calls : LookIsFair(request[x])' /\ SignIsFair(request[x])'
      /\ AllInTime'
  BY <1>1, IdleIsFair, OneRequestMoves
<1>3. cookie' \in [Devices -> {{}} \cup {{t} : t \in Time}]
  BY CookieCleared DEF RequestFails, Inv, TypeOK
<1> QED
  BY <1>1, <1>2, <1>3
     DEF Inv, TypeOK, Shape, OneKey, StoredTokens, EndedSessionsGrantNothing, AccessIsBounded

(* With one key, what runs out is not what is left. *)
LEMMA TimePassesInv == ASSUME Inv, TimePasses PROVE Inv'
<1>1. /\ now < MaxTime /\ now' = now + 1
      /\ stored' = {s \in stored : now' < s.until}
      /\ over' = over \cup {s.token : s \in stored \ stored'}
      /\ UNCHANGED <<cookie, access, request>>
  BY DEF TimePasses
<1>2. now \in Nat /\ MaxTime \in Nat /\ Delay \in Nat
  BY SessionTimes DEF Inv, TypeOK, Time
<1>3. now' \in Time
  BY <1>1, <1>2 DEF Time
<1>4. stored' \in SUBSET stored /\ OneKey'
  BY <1>1 DEF Inv, OneKey
<1>5. stored' \in SUBSET Stored /\ Cardinality(stored') <= 1
  BY <1>4, Fewer DEF Inv, TypeOK, OneKey
<1>6. over' \subseteq Time
  BY <1>1 DEF Inv, TypeOK, Stored
<1>7. StoredTokens' \cap over' = {}
  <2> SUFFICES ASSUME NEW s \in stored', s.token \in over' PROVE FALSE
    BY DEF StoredTokens
  <2>1. s.token \notin over
    BY <1>4 DEF Inv, StoredTokens
  <2>2. PICK x \in stored \ stored' : x.token = s.token
    BY <1>1, <2>1
  <2> QED
    BY <1>4, <2>2 DEF Inv, OneKey
<1>8. AllInTime'
  <2> SUFFICES ASSUME NEW q \in Calls PROVE InTime(request[q])'
    BY DEF AllInTime
  <2>1. InTime(request[q])
    BY DEF Inv, AllInTime
  <2>2. CASE request[q] = Idle
    BY <1>1, <2>2 DEF InTime, Idle
  <2>3. CASE request[q] # Idle
    <3>1. now < request[q].since + Delay
      BY <2>3 DEF TimePasses
    <3>2. request[q] \in Signing \cup Refreshing \cup Leaving
      BY <2>3 DEF Inv, TypeOK
    <3>3. request[q].since \in Nat
      BY <1>2, <3>2 DEF Signing, Refreshing, Leaving, Time
    <3>4. now' <= request[q].since + Delay
      BY <1>1, <1>2, <3>1, <3>3
    <3> QED
      BY <1>1, <2>1, <3>4 DEF InTime
  <2> QED
    BY <2>2, <2>3
<1>9. \A q \in Calls : LookIsFair(request[q])' /\ SignIsFair(request[q])'
  BY <1>1 DEF Inv, LookIsFair, SignIsFair
<1> QED
  BY <1>1, <1>3, <1>4, <1>5, <1>6, <1>7, <1>8, <1>9
     DEF Inv, TypeOK, EndedSessionsGrantNothing, AccessIsBounded

LEMMA NextInv == Inv /\ [Next]_vars => Inv'
<1> SUFFICES ASSUME Inv, [Next]_vars PROVE Inv'
  OBVIOUS
<1>1. ASSUME NEW q \in Calls, Handle(q) PROVE Inv'
  BY <1>1, LogsInInv, RefreshesInv, LogsOutInv, SavesRefreshInv, AnswersLoginInv, LooksUpInv,
     SignsAccessInv, DeletesRefreshInv, RequestFailsInv DEF Handle
<1>2. CASE UNCHANGED vars
  BY <1>2 DEF vars, Inv, TypeOK, OneKey, StoredTokens, LookIsFair, SignIsFair, AllInTime, InTime,
     EndedSessionsGrantNothing, AccessIsBounded
<1> QED
  BY <1>1, <1>2, TimePassesInv DEF Next

LEMMA Invariance == Spec => []Inv
BY InitInv, NextInv, PTL DEF Spec

-----------------------------------------------------------------------------
(* The store holds one live session, the cookies tokens of any age, and    *)
(* requests in progress what they have read, whoever logs in or out.       *)
THEOREM SessionsTyped == Spec => []TypeOK
<1>1. Inv => TypeOK
  BY DEF Inv
<1> QED
  BY <1>1, Invariance, PTL

(* No refresh that began after the end of its session grants access, for   *)
(* any devices, requests and lives of tokens.                              *)
THEOREM EndIsFinal == Spec => []EndedSessionsGrantNothing
<1>1. Inv => EndedSessionsGrantNothing
  BY DEF Inv
<1> QED
  BY <1>1, Invariance, PTL

(* One login never gives access for longer than both lives added up and    *)
(* the time a request takes, however often it is refreshed.                *)
THEOREM LoginsRunOut == Spec => []AccessIsBounded
<1>1. Inv => AccessIsBounded
  BY DEF Inv
<1> QED
  BY <1>1, Invariance, PTL
=============================================================================
