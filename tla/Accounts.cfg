\* Two registrations, two edits and three logins against a limit of two.
SPECIFICATION AccountsFairSpec
CONSTANTS
  c1 = c1
  c2 = c2
  c3 = c3
  r1 = r1
  r2 = r2
  promote = promote
  deactivate = deactivate
  Clients = {c1, c2, c3}
  MaxAttempts = 2
  Window = 2
  MaxFaults = 2
  Registrations = {r1, r2}
  NoPassword = NoPassword
  PasswordOf <- Presented
  Edits = {promote, deactivate}
  EditOf <- TwoEdits
INVARIANTS
  OvershootIsBounded
  AccountsTypeOK
  EditsSurvive
PROPERTIES
  RegisteredPasswordWorks
  LockoutEndsWithoutFaults
