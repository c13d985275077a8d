SPECIFICATION MailFairSpec
CONSTANTS
  Notices = {n1}
  PlainMails = {m1}
  Reminder = reminder
  Tickets = {t1, t2}
  Users = {u1, u2}
  MaxAttempts = 2
  MaxBreakdowns = 1
INVARIANTS
  MailTypeOK
  RepeatedMailsHaveACause
  RowsTellTheTruth
PROPERTY EveryoneIsTried
CHECK_DEADLOCK FALSE
