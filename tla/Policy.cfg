\* Two accounts, saves, changes, an Apply and restarts, in any order.
SPECIFICATION Spec
CONSTANTS
  u1 = u1  u2 = u2
  Users = {u1, u2}  Everyone = Everyone  NoUser = NoUser
  Subjects <- Each
SYMMETRY Symmetric
INVARIANT StaleIsPending
