SPECIFICATION AccountSpec
CONSTANTS
  Requests = {q1, q2}
  MaxAttempts = 3
  CodeTtl = 2
  Limit = 3
  Window = 2
  Cooldown = 1
  MaxCodes = 2
  MaxResets = 2
  MaxSessions = 1
SYMMETRY Symmetry
INVARIANTS
  AccountTypeOK
  GuessesAreBounded
  CodesWorkOnce
  GoodCodesAreAccepted
  SignedInUsersProvedTheirAddress
  PasswordsCostCodes
PROPERTY SettledAccountsStand
