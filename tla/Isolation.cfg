\* A via, the account with the route, and a third that gets the address of the via after it.
SPECIFICATION TSpec
CHECK_DEADLOCK FALSE
CONSTANTS
  c1 = c1  c2 = c2  c3 = c3  u1 = u1  u2 = u2  u3 = u3  h1 = h1  a1 = a1  a2 = a2  d1 = d1
  NoConn = NoConn  NoUser = NoUser  Elsewhere = Elsewhere
  Users = {u1, u2, u3}  Conns = {c1, c2, c3}  Hosts = {h1}  IPs = {a1, a2}  Dests = {d1}
  UserOf <- ThreeUsers  HostOf <- OneHost  IPOf <- HandedOver
  Dynamic = {u2}  LansOf <- SecondHasLan  Managed <- FirstBySecond
  Policy = "reject_second"  Grace = FALSE
  PeerAccess = {}  Readers = {c1, c2}  Leavers = {c1, c2}  Kicked = {}  Outbound = FALSE
INVARIANT Isolation
