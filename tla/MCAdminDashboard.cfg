SPECIFICATION Spec
CONSTANTS
  Leads = {l1, l2}
  Classified = {l1}
  Filters = {f1, f2}
  Tokens = {t1, t2}
  NoToken = NoToken
  None = None
  Ids = {1, 2}
SYMMETRY PageSymmetry
INVARIANTS
  TypeOK
  CredentialsRespected
  ShownIsCurrent
  NothingStuck
