------------------------------ MODULE Accounts ------------------------------
(***************************************************************************)
(* The account behind one e-mail address: the rest of auth.service.ts and  *)
(* users.service.ts, and the refresh session of redis-session.store.ts,    *)
(* over the codes of module Otp.                                           *)
(*                                                                         *)
(* resetPassword() and updateProfile() read the user's row, work, and save *)
(* what they read with their change: save() writes every column in which   *)
(* the row differs by then.  verifyEmail() updates its one column.         *)
(***************************************************************************)
EXTENDS Otp

CONSTANTS
  MaxResets,     \* bound on the password resets of one behaviour
  MaxSessions    \* bound on the logins of one behaviour

ASSUME AccountBounds == {MaxResets, MaxSessions} \subseteq Nat

(* password: the number of the reset that set it; 0 is the registration's. *)
User == [verified: BOOLEAN, password: 0 .. MaxResets, renamed: BOOLEAN]
Work == {"none", "rename", "reset", "login"}

VARIABLES
  user,       \* the row in table "users", once registered
  held,       \* held[q]: the row as request q has read it
  work,       \* work[q]: what request q does with the row it holds
  resets,     \* resets that have been given a password so far
  session,    \* auth:refresh:{userId}: the login whose token is stored, 0 if none
  logins      \* logins so far

accountVars == <<user, held, work, resets, session, logins>>
allVars == <<otpVars, accountVars>>

NewUser == [verified |-> FALSE, password |-> 0, renamed |-> FALSE]

AccountTypeOK ==
  /\ OtpTypeOK
  /\ user \in User
  /\ held \in [Requests -> User]
  /\ work \in [Requests -> Work]
  /\ resets \in 0 .. MaxResets
  /\ logins \in 0 .. MaxSessions
  /\ session \in 0 .. logins

AccountInit ==
  /\ OtpInit
  /\ user = NewUser
  /\ held = [q \in Requests |-> NewUser]
  /\ work = [q \in Requests |-> "none"]
  /\ resets = 0
  /\ session = 0
  /\ logins = 0

Free(q) == phase[q] = "idle" /\ work[q] = "none"

(* resendVerification() of an account that is verified by then *)
NeedsNoCode(q) == phase[q] = "issue" /\ scope[q] = "verify" /\ user.verified

AlreadyVerified(q) ==
  /\ NeedsNoCode(q)
  /\ GoesOn(q, "idle")
  /\ UNCHANGED <<registered, codeVars, limitVars, accountVars>>

-----------------------------------------------------------------------------
(* verifyEmail(), once its code is claimed: UPDATE ... SET is_verified.    *)
VerifyEmail_Mut(q) ==
  /\ registered
  /\ Finishes(q)
  /\ user' = [user EXCEPT !.verified = TRUE]
  /\ UNCHANGED <<held, work, resets, session, logins>>
VerifyEmail(q) ==
  /\ scope[q] = "verify"
  /\ registered
  /\ Finishes(q)
  /\ user' = [user EXCEPT !.verified = TRUE]
  /\ UNCHANGED <<held, work, resets, session, logins>>

(* The statement fails: the code is spent, the account is as it was.       *)
ClaimIsLost(q) == Finishes(q) /\ UNCHANGED accountVars

(* findById(): the row as it is now. *)
Found_Mut(q) == held[q]
Found(q) == user

Reads(q, what) ==
  /\ registered
  /\ held' = [held EXCEPT ![q] = Found(q)]
  /\ work' = [work EXCEPT ![q] = what]
  /\ UNCHANGED <<user, session>>

(* resetPassword(), once its code is claimed: reads the row, then hashes.  *)
ResetReads_Mut(q) ==
  /\ resets < MaxResets
  /\ Finishes(q)
  /\ Reads(q, "reset")
  /\ UNCHANGED <<resets, logins>>
ResetReads(q) ==
  /\ scope[q] = "reset"
  /\ resets < MaxResets
  /\ Finishes(q)
  /\ Reads(q, "reset")
  /\ UNCHANGED <<resets, logins>>

(* updateProfile() of a signed-in user *)
ProfileReads(q) ==
  /\ Free(q)
  /\ logins > 0
  /\ Reads(q, "rename")
  /\ UNCHANGED <<otpVars, resets, logins>>

(* login(): the row is read and the password, whichever it is, compared. *)
LoginReads(q) ==
  /\ Free(q)
  /\ logins < MaxSessions
  /\ user.verified
  /\ Reads(q, "login")
  /\ UNCHANGED <<otpVars, resets, logins>>

WorkDone(q) == work' = [work EXCEPT ![q] = "none"] /\ UNCHANGED <<otpVars, held>>

SavesPassword(q) ==
  /\ work[q] = "reset"
  /\ resets < MaxResets
  /\ resets' = resets + 1
  /\ user' = [held[q] EXCEPT !.password = resets + 1]
  /\ WorkDone(q)
  /\ UNCHANGED <<session, logins>>

SavesProfile(q) ==
  /\ work[q] = "rename"
  /\ user' = [held[q] EXCEPT !.renamed = TRUE]
  /\ WorkDone(q)
  /\ UNCHANGED <<resets, session, logins>>

(* saveRefresh(): the new token replaces the one of an earlier login. *)
SavesSession(q) ==
  /\ work[q] = "login"
  /\ logins < MaxSessions
  /\ logins' = logins + 1
  /\ session' = logins + 1
  /\ WorkDone(q)
  /\ UNCHANGED <<user, resets>>

(* A save throws. *)
SaveFails(q) ==
  /\ work[q] # "none"
  /\ WorkDone(q)
  /\ UNCHANGED <<user, resets, session, logins>>

(* logout(), or the token's seven days are over *)
SessionEnds ==
  /\ session' = 0
  /\ UNCHANGED <<otpVars, user, held, work, resets, logins>>

-----------------------------------------------------------------------------
HandleCodes(q) ==
  \/ work[q] = "none" /\ ~NeedsNoCode(q) /\ Serve(q) /\ UNCHANGED accountVars
  \/ AlreadyVerified(q)
  \/ VerifyEmail(q)
  \/ ResetReads(q)
  \/ ClaimIsLost(q)

HandleAccount(q) ==
  \/ ProfileReads(q)
  \/ LoginReads(q)
  \/ SavesPassword(q)
  \/ SavesProfile(q)
  \/ SavesSession(q)
  \/ SaveFails(q)

AccountNext ==
  \/ \E q \in Requests : HandleCodes(q) \/ HandleAccount(q)
  \/ (\A q \in Requests : work[q] = "none") /\ Tick /\ UNCHANGED accountVars
  \/ SessionEnds

AccountSpec == AccountInit /\ [][AccountNext]_allVars

-----------------------------------------------------------------------------
(* Who ever signed in has proven to own the address, with a code for that  *)
(* purpose: login() refuses accounts that verifyEmail() has not verified,  *)
(* and no stale save verifies one that was not.                            *)
SignedInUsersProvedTheirAddress ==
  logins > 0 \/ user.verified => accepted["verify"] > 0

(* Each new password cost a reset code of its own, with any number of      *)
(* resets in progress: resetPassword() claims the code before it looks at  *)
(* the row.                                                                *)
PasswordsCostCodes ==
  /\ resets + Cardinality({q \in Requests : work[q] = "reset"}) <= accepted["reset"]
  /\ user.password <= resets

(* A proof of the address, and the end of a password, are settled when no  *)
(* request that is to save the row has read it before.                     *)
ProofIsSettled ==
  user.verified /\ \A q \in Requests : work[q] \in {"reset", "rename"} => held[q].verified
IsReplaced(p) ==
  user.password > p /\ \A q \in Requests : work[q] = "rename" => held[q].password > p

(* What a late save can put back is a matter of the requests that were in  *)
(* progress: an address once proven, and a password once replaced, remain  *)
(* so after the last of those, whatever saves of whole rows come then.     *)
SettledAccountsStand ==
  [][/\ ProofIsSettled => ProofIsSettled'
     /\ \A p \in 0 .. MaxResets : IsReplaced(p) => IsReplaced(p)']_allVars

-----------------------------------------------------------------------------
(* What the handlers tell their callers and the steps above do not keep.   *)

(* "Email verified successfully" (verifyEmail): no later save of a row     *)
(* that was read before takes the verification back.                       *)
VerifiedAccountsStayVerified ==
  [][user.verified => user'.verified]_allVars

(* "Password reset successfully" (resetPassword): the old password does    *)
(* not come back.                                                          *)
ResetPasswordsStand ==
  [][user'.password >= user.password]_allVars
=============================================================================
