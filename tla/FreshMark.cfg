\* A save during an Apply.
SPECIFICATION Spec
CONSTANTS
  u1 = u1  u2 = u2
  Users = {u1, u2}  Everyone = Everyone  NoUser = NoUser
  Subjects <- Each
PROPERTY FreshMarkKept
