SPECIFICATION Spec
CONSTANTS
  u1 = u1
  t1 = t1
  t2 = t2
  p1 = p1
  p2 = p2
  c1 = c1
  Chats = {}
  Users = {u1}
  Tasks = {t1, t2}
  Submitters = {p1, p2}
  Llm = Llm
  NoReply = NoReply
  NoDraft = NoDraft
  NoView = NoView
  Owner <- MCOwner
  Strategy <- MCStrategy
  MaxActiveTasks = 2
  MaxDrafts = 2
  MaxEdits = 3
SYMMETRY TabSymmetry
INVARIANTS
  TextStaysWithItsTask
