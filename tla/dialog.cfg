CONSTANTS
  a1 = a1
  a2 = a2
  h1 = h1
  h2 = h2
  n1 = n1
  n2 = n2
  t1 = t1
  t2 = t2
  Admins = {a1, a2}
  Handlers = {h1, h2}
  Names = {n1, n2}
  Texts = {t1, t2}
  UrlOf <- OwnLinks
  Buttons <- AllButtons
  Faults = {"write"}
  MayRestart = TRUE
  MaxPresses = 3
SPECIFICATION Spec
SYMMETRY Alike
INVARIANTS TypeOK AnswersFit AskedIsAwaited OneIncidentPerTitle
PROPERTY LinksStay
CHECK_DEADLOCK FALSE
