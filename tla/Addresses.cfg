\* Logins, requests of the administrator and a restart, the lease cleaner, and fixed
\* accounts created, moved and deleted while they log in.
SPECIFICATION Spec
CHECK_DEADLOCK FALSE
CONSTANTS
  c1 = c1  c2 = c2  c3 = c3
  NoUser = NoUser  Placeholder = Placeholder  NoConn = NoConn
  Users = {1, 2, 3}  Conns = {c1, c2, c3}  Scenarios <- AllScenes
  Last = 4  Gateway = 1  Probe = 256
INVARIANTS HeldDistinct FixedReserved OnlineIndexed PoolTrue
