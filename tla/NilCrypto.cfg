\* A displacement clears a Crypto that a packet is about to use.
SPECIFICATION TSpec
CHECK_DEADLOCK FALSE
CONSTANTS
  c1 = c1  c2 = c2  c3 = c3  u1 = u1  u2 = u2  u3 = u3  h1 = h1  a1 = a1  a2 = a2  d1 = d1
  NoConn = NoConn  NoUser = NoUser  Elsewhere = Elsewhere
  Users = {u1}  Conns = {c1, c2}  Hosts = {h1}  IPs = {a1}  Dests = {}
  UserOf <- OneUser  HostOf <- OneHost  IPOf <- OneIP
  Dynamic = {}  LansOf <- NoLans  Managed <- NoRoutes
  Policy = "kick_previous"  Grace = FALSE
  PeerAccess = {}  Readers = {c1, c2}  Leavers = {c1, c2}  Kicked = {u1}  Outbound = TRUE
SYMMETRY Symmetric
INVARIANT NoNilCrypto
