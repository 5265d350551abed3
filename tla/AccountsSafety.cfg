\* Two visitors, two submissions, one account added by the staff, two emails,
\* one of them in two spellings.
SPECIFICATION FairSpec
CONSTANTS
  Submits = {s1, s2}
  Adds = {a1}
  upper = upper
  lower = lower
  other = other
  Texts = {upper, lower, other}
  Emails = {lower, other}
  Norm <- Spellings
  People = {p1, p2}
  NoSubmit = NoSubmit
  NoForm = NoForm
INVARIANTS
  OneAccountPerEmail
  NoHalfAccount
  KnownEmailIsRefused
PROPERTIES
  ImplementsAccountsSpec
  EverySubmitEnds
CHECK_DEADLOCK FALSE
