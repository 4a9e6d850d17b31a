SPECIFICATION Spec
CONSTANTS
  root = root
  boss = boss
  ann = ann
  bob = bob
  mail = mail
  t1 = t1
  t2 = t2
  c1 = c1
  q1 = q1
  q2 = q2
  sys = sys
  own = own
  g1 = g1
  k1 = k1
  x1 = x1
  e1 = e1
  e2 = e2
  None = None
  Users = {root, boss, ann, bob}
  Emails = {mail}
  Threads = {t1, t2}
  Codes = {c1}
  Captchas = {q1, q2}
  MaxFailures = 1
  MaxSessions = 4
  MaxUses = 2
  Models = {sys, own}
  Groups = {g1}
  Keys = {k1}
  Configs = {x1}
  Endpoints = {e1, e2}
  NameOf <- MCNameOf
  Scenarios <- MCUsedKey
SYMMETRY MCThreads
CHECK_DEADLOCK FALSE
INVARIANTS
  DeletesAreCarriedOut
