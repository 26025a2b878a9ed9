\* Two logins of one account that overlap, under reject_second without grace.
SPECIFICATION Spec
CHECK_DEADLOCK FALSE
CONSTANTS
  c1 = c1  c2 = c2  u1 = u1  u2 = u2  h1 = h1  h2 = h2  a1 = a1  d1 = d1
  NoConn = NoConn  NoUser = NoUser
  Users = {u1}  Conns = {c1, c2}  Hosts = {h1, h2}  IPs = {a1}  Dests = {}
  UserOf <- OneUser  HostOf <- TwoHosts  IPOf <- OneIP
  Dynamic = {}  LansOf <- NoLans  Managed <- NoRoutes
  Policy = "reject_second"  Grace = FALSE
INVARIANT OneLiveConn
