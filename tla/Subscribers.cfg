CONSTANTS
  m1 = m1
  m2 = m2
  gold = gold
  silver = silver
  vip = vip
  tier = tier
  u1 = u1
  NoGroup = NoGroup
  NoUser = NoUser
  Visitor = Visitor
  Labels = {gold, silver, vip}
  Groups = {tier}
  Users = {u1}
  Group <- MCGroup
  BlockLabels <- MCBlockLabels
  BlockAssignees = {u1, NoUser}
  Msgs = {m1, m2}
  Modes <- MCModes
SPECIFICATION Spec
INVARIANTS OneLabelPerGroup SilentWhileTakenOver GroupsHeld
SYMMETRY MessageSymmetry
CHECK_DEADLOCK FALSE
