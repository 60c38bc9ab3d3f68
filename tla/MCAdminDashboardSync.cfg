SPECIFICATION Spec
CONSTANTS
  Leads = {l1, l2}
  Classified = {l1}
  Filters = {f1}
  Tokens = {t1}
  NoToken = NoToken
  None = None
  Ids = {1, 2}
INVARIANT
  DuplicateSyncGuarded
