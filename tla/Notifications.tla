--------------------------- MODULE Notifications ----------------------------
(***************************************************************************)
(* Mail: modules/notifications.  A caller saves a row in "notifications"   *)
(* and adds a job to the BullMQ queue; a worker takes the job, sends the   *)
(* mail and saves in the row what came of it.  Plain mails (codes) have a  *)
(* job and no row.  The reminder of an event is one job that goes through  *)
(* the tickets and saves a row for each of their owners.                   *)
(*                                                                         *)
(* BullMQ runs a job again when its handler throws, MaxAttempts times in   *)
(* all, and once more when its worker has died.                            *)
(***************************************************************************)
EXTENDS Naturals, FiniteSets

CONSTANTS
  Notices,       \* confirmations, payment failures and refunds: their rows
  PlainMails,    \* mails of sendEmail()
  Reminder,      \* the job that publish() schedules
  Tickets,       \* tickets of the event
  Users,         \* their owners
  MaxAttempts,   \* defaultJobOptions.attempts
  MaxBreakdowns  \* bound on the failures of one behaviour

ASSUME NotificationBounds == MaxAttempts \in Nat \ {0} /\ MaxBreakdowns \in Nat

(* Jobs and rows have generated keys; what is sent goes by its job or user. *)
ASSUME NamesDiffer ==
  /\ Reminder \notin Notices \cup PlainMails
  /\ Notices \cap PlainMails = {}
  /\ Users \cap (Notices \cup PlainMails) = {}

Jobs == Notices \cup PlainMails \cup {Reminder}
Recorded == Notices \cup Users      \* what has a row in "notifications"
Mails == Recorded \cup PlainMails   \* what is sent

Stage == {"none", "adding", "lost", "waiting", "next", "send", "save", "deny",
          "finish", "done", "failed"}
Running == {"next", "send", "save", "deny", "finish"}

VARIABLES
  at,        \* at[j]: where job j is
  made,      \* made[j]: attempts of job j that have failed
  stalled,   \* jobs whose worker has died once
  row,       \* row[x]: notifications.status, of the newest row for a user
  mails,     \* mails[x]: mails that were sent
  owner,     \* the owner of each ticket issued by the time of the reminder
  todo,      \* tickets the reminder has read and not gone through
  seen,      \* users the reminder is done with
  now,       \* the user it sends to, if any: a set
  breakdowns \* failures so far

queueVars == <<at, made, stalled>>
loopVars == <<todo, seen, now>>
deliveryVars == <<queueVars, row, mails, owner, loopVars, breakdowns>>

MailTypeOK ==
  /\ at \in [Jobs -> Stage]
  /\ made \in [Jobs -> 0 .. MaxAttempts]
  /\ stalled \subseteq Jobs
  /\ row \in [Recorded -> {"none", "queued", "sent", "failed"}]
  /\ mails \in [Mails -> Nat]
  /\ DOMAIN owner \subseteq Tickets /\ owner \in [DOMAIN owner -> Users]
  /\ todo \subseteq DOMAIN owner
  /\ seen \subseteq Users
  /\ now \subseteq Users /\ Cardinality(now) <= 1
  /\ breakdowns \in 0 .. MaxBreakdowns

MailInit ==
  /\ at = [j \in Jobs |-> "none"]
  /\ made = [j \in Jobs |-> 0]
  /\ stalled = {}
  /\ row = [x \in Recorded |-> "none"]
  /\ mails = [x \in Mails |-> 0]
  /\ \E T \in SUBSET Tickets : owner \in [T -> Users]
  /\ todo = {} /\ seen = {} /\ now = {}
  /\ breakdowns = 0

GoesTo(j, stage) == at' = [at EXCEPT ![j] = stage] /\ UNCHANGED <<made, stalled>>
Fault == breakdowns < MaxBreakdowns /\ breakdowns' = breakdowns + 1

-----------------------------------------------------------------------------
(* enqueueBookingConfirmation(), enqueuePaymentFailed(), enqueueRefundIssued() *)
SaveNotice(n) ==
  /\ at[n] = "none"
  /\ row' = [row EXCEPT ![n] = "queued"]
  /\ GoesTo(n, "adding")
  /\ UNCHANGED <<mails, owner, loopVars, breakdowns>>

Adding(j) == at[j] = IF j \in Notices THEN "adding" ELSE "none"

(* queue.add(): sendEmail() and scheduleEventReminder() do nothing else. *)
AddJob(j) ==
  /\ Adding(j)
  /\ GoesTo(j, "waiting")
  /\ UNCHANGED <<row, mails, owner, loopVars, breakdowns>>

(* Redis refuses it.  All callers log that and go on. *)
AddFails(j) ==
  /\ Adding(j)
  /\ Fault
  /\ GoesTo(j, "lost")
  /\ UNCHANGED <<row, mails, owner, loopVars>>

-----------------------------------------------------------------------------
TriesLeft_Mut(j) == made[j] < MaxAttempts
TriesLeft(j) == made[j] + 1 < MaxAttempts

(* A handler throws: again after the backoff, if attempts are left.        *)
Throws(j) ==
  /\ made' = [made EXCEPT ![j] = @ + 1]
  /\ at' = [at EXCEPT ![j] = IF TriesLeft(j) THEN "waiting" ELSE "failed"]
  /\ UNCHANGED stalled

(* The worker takes the job.  The reminder reads the tickets of the event. *)
Takes(j) ==
  /\ at[j] = "waiting"
  /\ IF j = Reminder
     THEN todo' = DOMAIN owner /\ seen' = {} /\ now' = {} /\ GoesTo(j, "next")
     ELSE UNCHANGED loopVars /\ GoesTo(j, "send")
  /\ UNCHANGED <<row, mails, owner, breakdowns>>

Unseen_Mut(t) == t \in todo
Unseen(t) == t \in todo /\ owner[t] \notin seen

(* handleEventReminder(): the next owner gets a row. *)
NextOwner(t) ==
  /\ at[Reminder] = "next"
  /\ Unseen(t)
  /\ todo' = todo \ {t}
  /\ seen' = seen \cup {owner[t]}
  /\ now' = {owner[t]}
  /\ row' = [row EXCEPT ![owner[t]] = "queued"]
  /\ GoesTo(Reminder, "send")
  /\ UNCHANGED <<mails, owner, breakdowns>>

(* Its INSERT fails: the whole job is thrown back. *)
NextOwnerThrows ==
  /\ at[Reminder] = "next"
  /\ \E t \in todo : Unseen(t)
  /\ Fault
  /\ Throws(Reminder)
  /\ UNCHANGED <<row, mails, owner, loopVars>>

AllReminded ==
  /\ at[Reminder] = "next"
  /\ ~\E t \in todo : Unseen(t)
  /\ GoesTo(Reminder, "finish")
  /\ UNCHANGED <<row, mails, owner, loopVars, breakdowns>>

-----------------------------------------------------------------------------
Addressees(j) == IF j = Reminder THEN now ELSE {j}

(* emailProvider.send(): the mail server accepts or refuses the mail. *)
Accepted(j) ==
  /\ at[j] = "send"
  /\ mails' = [x \in Mails |-> IF x \in Addressees(j) THEN mails[x] + 1 ELSE mails[x]]
  /\ GoesTo(j, IF j \in PlainMails THEN "finish" ELSE "save")
  /\ UNCHANGED <<row, owner, loopVars, breakdowns>>

AfterRefusal_Mut == "save"
AfterRefusal == "deny"

Refused(j) ==
  /\ at[j] = "send"
  /\ IF j \in PlainMails THEN Throws(j) ELSE GoesTo(j, AfterRefusal)
  /\ UNCHANGED <<row, mails, owner, loopVars, breakdowns>>

SetRow(j, status) == row' = [x \in Recorded |-> IF x \in Addressees(j) THEN status ELSE row[x]]

SaveSent(j) ==
  /\ at[j] = "save"
  /\ SetRow(j, "sent")
  /\ GoesTo(j, IF j = Reminder THEN "next" ELSE "finish")
  /\ UNCHANGED <<mails, owner, loopVars, breakdowns>>

(* This save is inside the try: its failure is treated like the mail's. *)
SaveThrows(j) ==
  /\ at[j] = "save"
  /\ Fault
  /\ GoesTo(j, "deny")
  /\ UNCHANGED <<row, mails, owner, loopVars>>

GoesOn_Mut(j) == FALSE
GoesOn(j) == j = Reminder

(* The catch: a notice is thrown back, the reminder goes on. *)
SaveFailed(j) ==
  /\ at[j] = "deny"
  /\ SetRow(j, "failed")
  /\ IF GoesOn(j) THEN GoesTo(j, "next") ELSE Throws(j)
  /\ UNCHANGED <<mails, owner, loopVars, breakdowns>>

CatchThrows(j) ==
  /\ at[j] = "deny"
  /\ Fault
  /\ Throws(j)
  /\ UNCHANGED <<row, mails, owner, loopVars>>

Completes(j) ==
  /\ at[j] = "finish"
  /\ GoesTo(j, "done")
  /\ UNCHANGED <<row, mails, owner, loopVars, breakdowns>>

(* The worker dies with the job: BullMQ finds it stalled. *)
WorkerDies(j) ==
  /\ at[j] \in Running
  /\ Fault
  /\ stalled' = stalled \cup {j}
  /\ at' = [at EXCEPT ![j] = IF j \in stalled THEN "failed" ELSE "waiting"]
  /\ UNCHANGED <<made, row, mails, owner, loopVars>>

-----------------------------------------------------------------------------
Works(j) ==
  \/ Takes(j)
  \/ j = Reminder /\ \E t \in Tickets : NextOwner(t)
  \/ j = Reminder /\ AllReminded
  \/ Accepted(j)
  \/ Refused(j)
  \/ SaveSent(j)
  \/ SaveFailed(j)
  \/ Completes(j)

Breaks(j) ==
  \/ AddFails(j)
  \/ SaveThrows(j)
  \/ CatchThrows(j)
  \/ WorkerDies(j)

MailNext ==
  \/ \E n \in Notices : SaveNotice(n)
  \/ \E j \in Jobs : AddJob(j) \/ Works(j) \/ Breaks(j)
  \/ NextOwnerThrows

(* A caller that has saved a row adds its job; the worker goes on. *)
MailFairness ==
  /\ \A n \in Notices : WF_deliveryVars(AddJob(n))
  /\ \A j \in Jobs : WF_deliveryVars(Works(j))

MailSpec == MailInit /\ [][MailNext]_deliveryVars
MailFairSpec == MailSpec /\ MailFairness

-----------------------------------------------------------------------------
(* Nobody gets a mail twice without a failure for each repetition: one job *)
(* sends once, the reminder writes once to the owner of several tickets,   *)
(* and a refused mail is repeated only because it was not sent.            *)
RepeatedMailsHaveACause == \A x \in Mails : mails[x] <= 1 + breakdowns

(* The rows tell what happened: a mail marked sent was sent, whatever      *)
(* failed; and while nothing has failed, a mail marked failed was not.     *)
RowsTellTheTruth ==
  \A x \in Recorded :
    /\ row[x] = "sent" => mails[x] > 0
    /\ row[x] = "failed" /\ breakdowns = 0 /\ (x \in Notices => at[x] # "save") => mails[x] = 0

Awaited(x) ==
  IF x \in Notices THEN row[x] = "queued"
                   ELSE at[Reminder] = "next" /\ \E t \in todo : Unseen(t) /\ owner[t] = x

(* Everyone who is to be written to is written to or known not to be: no   *)
(* refused mail keeps the reminder from the other owners, and no job rests *)
(* in the queue for ever, unless something fails.                          *)
EveryoneIsTried ==
  \A x \in Recorded : Awaited(x) ~> (row[x] \in {"sent", "failed"} \/ breakdowns > 0)

-----------------------------------------------------------------------------
(* What the project's own words promise and the steps above do not keep.   *)

(* "must be singleton or idempotent to avoid duplicate reminders" (README):*)
(* a reminder that is run again repeats the mails it has sent.             *)
RemindersAreIdempotent == \A u \in Users : mails[u] <= 1
=============================================================================
