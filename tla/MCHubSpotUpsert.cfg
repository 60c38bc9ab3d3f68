SPECIFICATION Spec
CONSTANTS
  l1 = l1
  l2 = l2
  l3 = l3
  e1 = e1
  Leads <- TheLeads
  Emails <- TheEmails
  EmailOf <- TheEmailOf
  NoEmail = NoEmail
  Calls = {p1, p2, p3}
  Contacts = {c1, c2, c3, c4}
  NoContact = NoContact
  NoLead = NoLead
  MaxLate = 1
SYMMETRY UpsertSymmetry
INVARIANTS
  TypeOK
  RacesAreRetryable
  RacesAreDelivered
PROPERTIES
  LifecycleKept
