\* Two tabs with one login, then another
SPECIFICATION Spec
CONSTANTS
  t1 = t1
  t2 = t2
  c1 = c1
  c2 = c2
  Tab = {t1, t2}
  Call = {c1, c2}
  Exchange = {1, 2}
  NoExchange = NoExchange
  MaxTokens = 3
  MaxLost = 1
INVARIANTS
  TypeOK
  OneLivePerLogin
  SignedOutMeansOut
  RefusalHasReason
  WaitersAreWoken
SYMMETRY Symmetry
\* a signed-out browser at the bound of tokens has no next step
CHECK_DEADLOCK FALSE
