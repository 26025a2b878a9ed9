\* Two logins of a fixed-address account with a managed route, from two hosts.
SPECIFICATION FairSpec
CHECK_DEADLOCK FALSE
CONSTANTS
  c1 = c1  c2 = c2  u1 = u1  u2 = u2  h1 = h1  h2 = h2  a1 = a1  d1 = d1
  NoConn = NoConn  NoUser = NoUser
  Users = {u1, u2}  Conns = {c1, c2}  Hosts = {h1, h2}  IPs = {a1}  Dests = {d1}
  UserOf <- OneUser  HostOf <- TwoHosts  IPOf <- OneIP
  Dynamic = {}  LansOf <- ViaLans  Managed <- ViaRoute
  Policy = "reject_second"  Grace = TRUE
INVARIANTS SessionReachable NoZombieSession ViaIndexExact
PROPERTIES RemovedForCause DeadSessionLeaves KickedConnCloses RefinesConnLife
