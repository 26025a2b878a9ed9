-------------------------- MODULE VPNAccountProofs --------------------------
(***************************************************************************)
(* Proofs about VPNAccount: addresses that nobody shares.  They hold while *)
(* OnlyCreates does: logins, the ends of sessions, leases, restarts and    *)
(* the creation of accounts, in any order, but no cleaner and no request   *)
(* that takes an address away (what happens then is in the README).        *)
(*                                                                         *)
(* The argument: an address that may be given back (Fresh) has been taken  *)
(* since the last restart, so it lies behind the cursor, and nobody else   *)
(* has come to use it; every other address in use is its account's in the  *)
(* pool, and stays so.  A row that a failed release left behind (Stale)    *)
(* does no harm: the cursor has passed its address, and after a restart    *)
(* the pool keeps it for the account that had it.                          *)
(***************************************************************************)
EXTENDS VPNAccount, WellFoundedInduction, TLAPS

(* Handshakes and sessions that know their address.                        *)
Using == {"take", "row", "record", "register", "mount", "online", "lease"} \cup Stages

LoggedIn(c) == hs[c] \notin {"none", "out"}

(* An address that its holder may give back.                               *)
Fresh(c) ==
    \/ hs[c] = "row"
    \/ has[c].mode = "session" /\ hs[c] \in {"record", "register", "mount", "online"} \cup Stages

FixedRow(u) == row[u].state = "yes" /\ row[u].mode = "fixed"

(* A login goes on with the mode its account has.                          *)
LoginsAsRows ==
    \A c \in Conns : LoggedIn(c) =>
        /\ UserOf[c] \in Users /\ row[UserOf[c]].state = "yes" /\ row[UserOf[c]].mode = has[c].mode
        /\ has[c].mode = "fixed"
             => hs[c] \in {"ensure", "mount", "online"} /\ has[c].ip = row[UserOf[c]].ip
        /\ has[c].mode = "session" => hs[c] \notin {"take", "lease"}
        /\ has[c].mode = "lease" => hs[c] \notin Stages
        /\ hs[c] \in Using => has[c].ip \in Net

AloneWith(c) ==
    /\ has[c].ip < next
    /\ \A d \in Conns \ {c} : hs[d] \in Using => has[d].ip # has[c].ip
    /\ \A u \in Users : FixedRow(u) => row[u].ip # has[c].ip
    /\ admin.pc # "idle" => admin.ip # has[c].ip
    /\ alloc[has[c].ip].active =>
         /\ hs[c] \notin {"row", "record"}
         /\ alloc[has[c].ip].user = UserOf[c] /\ alloc[has[c].ip].lease = "none"
    /\ hs[c] \in {"db", "index"} => pool[has[c].ip] = NoUser

FreshAlone == \A c \in Conns : Fresh(c) => AloneWith(c)

(* A release that was not written: the row still names the account.        *)
Stale(ip) ==
    /\ ip \in torn /\ ip < next /\ pool[ip] = NoUser
    /\ row[alloc[ip].user].state = "yes" /\ row[alloc[ip].user].mode = "session"

ActiveInPool ==
    \A ip \in Net : alloc[ip].active =>
        /\ alloc[ip].user \in Users
        /\ \/ pool[ip] = alloc[ip].user
           \/ \E c \in Conns : hs[c] = "db" /\ has[c].ip = ip
           \/ Stale(ip)

HeldInPool ==
    \A c \in Conns : Holds(c) \/ hs[c] = "take" => pool[has[c].ip] = UserOf[c] \/ Binding(UserOf[c])

FixedInPool ==
    \A u \in Users : FixedRow(u) =>
        /\ row[u].ip \in Net
        /\ pool[row[u].ip] = u \/ (Binding(u) /\ admin.ip = row[u].ip)

(* The administrator's request: one account is being created.              *)
Creation ==
    /\ admin.pc \in {"idle", "insert", "unhold", "bind", "record", "register"}
    /\ admin.pc # "idle" => admin.op = "create" /\ admin.user \in Users /\ admin.ip \in Net
    /\ admin.pc = "insert" => row[admin.user].state = "no"
    /\ admin.pc \in {"unhold", "bind", "record", "register"}
         => FixedRow(admin.user) /\ row[admin.user].ip = admin.ip
    /\ admin.pc \in {"insert", "unhold", "bind"}
         => admin.ip # Gateway /\ admin.ip < next /\ ~alloc[admin.ip].active
    /\ admin.pc \in {"insert", "unhold"} => pool[admin.ip] = Placeholder
    /\ admin.pc = "bind" => pool[admin.ip] = NoUser
    /\ admin.pc \in {"record", "register"} => pool[admin.ip] = admin.user

(* What is taken in the pool is on record, or about to be, or its record   *)
(* was not written.                                                        *)
PoolOnRecord ==
    \A ip \in Net : pool[ip] # NoUser =>
        \/ alloc[ip].active /\ pool[ip] = alloc[ip].user
        \/ ip \in torn
        \/ \E c \in Conns : hs[c] \in {"row", "record"} /\ has[c].ip = ip
        \/ admin.pc \in {"insert", "unhold", "record"} /\ admin.ip = ip

OnlineInIndex == \A c \in Conns : hs[c] = "online" => index[has[c].ip] = UserOf[c]

AddrInv ==
    /\ cleaner.pc = "idle"
    /\ LoginsAsRows /\ FreshAlone /\ ActiveInPool /\ HeldInPool /\ FixedInPool
    /\ Creation /\ PoolOnRecord /\ OnlineInIndex

(* Nobody can log in. *)
NobodyIn == (\A c \in Conns : UserOf[c] = NoUser) => \A c \in Conns : hs[c] \in {"none", "out"}

CalmInv == OnlyCreates => AddrInv

----------------------------------------------------------------------------
(* Least and greatest numbers *)

Less == {ss \in Nat \X Nat : ss[1] < ss[2]}

LEMMA LessWellFounded == IsWellFoundedOn(Less, Nat)
  BY NatLessThanWellFounded DEF OpToRel, Less

(* A set of numbers that is not empty has a least element. *)
LEMMA MinIs ==
  ASSUME NEW S \in SUBSET Nat, S # {}
  PROVE  Min(S) \in S /\ \A y \in S : Min(S) <= y
<1>1. PICK x \in S : \A y \in S : ~(<<y, x>> \in Less)
  BY LessWellFounded, WFMin
<1>2. \A y \in S : ~(y < x)
  BY <1>1 DEF Less
<1>3. \A y \in S : x <= y
  BY <1>2
<1> QED BY <1>3 DEF Min

(* A set of accounts has a greatest id. *)
LEMMA MaxIs ==
  ASSUME NEW S \in SUBSET Users, S # {}
  PROVE  Max(S) \in S
<1> DEFINE Bounds == {n \in Nat : \A u \in S : u <= n}
<1>1. S \subseteq Nat
  BY Parameters
<1>2. Bounds # {}
  BY UsersAssumption, Parameters
<1>3. PICK n \in Bounds : \A y \in Bounds : n <= y
  BY <1>2, MinIs
<1>4. n \in S
  <2> SUFFICES ASSUME n \notin S PROVE FALSE
    OBVIOUS
  <2>1. n \in Nat /\ \A u \in S : u \in Nat /\ u <= n /\ u # n
    BY <1>1, <1>3
  <2>2. PICK m \in S : m \in Nat /\ m <= n /\ m # n
    BY <2>1
  <2>3. n - 1 \in Nat
    BY <2>1, <2>2
  <2>4. ASSUME NEW u \in S PROVE u <= n - 1
    BY <2>1
  <2>5. n - 1 \in Bounds
    BY <2>3, <2>4
  <2> QED BY <2>1, <2>5, <1>3
<1>5. \E x \in S : \A y \in S : x >= y
  BY <1>1, <1>3, <1>4
<1> QED BY <1>5 DEF Max

LEMMA CandidateIs ==
  ASSUME AddressTypeOK, Candidates # {}
  PROVE  LET ip == Min(Candidates)
         IN  /\ ip \in Net /\ ip + 1 \in Net \cup {Past}
             /\ ip >= next /\ ip # Gateway /\ pool[ip] \in {NoUser, Placeholder}
<1>1. next \in Nat /\ next >= 1
  BY Parameters DEF AddressTypeOK, Net, Past
<1>2. ASSUME NEW ip \in Candidates
      PROVE  /\ ip \in Net /\ ip + 1 \in Net \cup {Past}
             /\ ip >= next /\ ip # Gateway /\ pool[ip] \in {NoUser, Placeholder}
  BY <1>1, <1>2, Parameters DEF Candidates, Net, Past
<1>3. Candidates \in SUBSET Nat
  BY <1>2 DEF Net
<1>4. Min(Candidates) \in Candidates
  BY <1>3, MinIs
<1> QED BY <1>2, <1>4

LEMMA FixedAtIs ==
  ASSUME NEW ip, FixedAt(ip) # {}
  PROVE  Min(FixedAt(ip)) \in FixedAt(ip)
<1>1. FixedAt(ip) \in SUBSET Nat
  BY Parameters DEF FixedAt
<1> QED BY <1>1, MinIs

LEMMA IndexIs ==
  ASSUME NEW rows, NEW ip
  PROVE  IndexOf(rows, ip) \in Users \cup {NoUser}
  BY MaxIs DEF IndexOf

LEMMA AfterIs ==
  ASSUME NEW stage \in Stages, NEW done
  PROVE  After(stage, done) = IF stage = "pool" THEN "db" ELSE IF stage = "db" THEN "index" ELSE done
  BY DEF After, Stages

LEMMA LeavingIs ==
  ASSUME AddressTypeOK, NEW c \in Conns
  PROVE  Leaving(c) = IF has[c].mode = "fixed" THEN "out"
                      ELSE IF has[c].mode = "session" THEN "pool" ELSE "lease"
  BY DEF Leaving, AddressTypeOK, HasType, Modes

----------------------------------------------------------------------------
(* Types *)

LEMMA InitTypes == Init => AddressTypeOK
<1> SUFFICES ASSUME Init PROVE AddressTypeOK
  OBVIOUS
<1>1. scene \in Scenarios /\ row \in [Users -> RowType] /\ crashes \in 0..MaxCrashes
  BY Parameters DEF Init, Accounts, RowType, MaxCrashes
<1>2. alloc \in [Net -> AllocType]
  <2>1. SUFFICES ASSUME NEW ip \in Net,
                        NEW owner, owner = {u \in Users : Accounts[u].state = "yes" /\ Accounts[u].ip = ip},
                        owner # {}
                 PROVE  Min(owner) \in Users
    BY DEF Init, AllocType, Unused
  <2>2. owner \in SUBSET Nat /\ owner \subseteq Users
    BY <2>1, Parameters
  <2> QED BY <2>1, <2>2, MinIs
<1>3. pool \in [Net -> Users \cup {NoUser, Placeholder}]
  BY <1>2 DEF Init, PoolOf, AllocType
<1>4. next \in Net \cup {Past}
  BY Parameters DEF Init, Net, Past
<1>5. index \in [Net -> Users \cup {NoUser}]
  BY IndexIs DEF Init
<1> QED BY <1>1, <1>2, <1>3, <1>4, <1>5
        DEF Init, AddressTypeOK, HasType, CleanerIdle, CleanerType, AdminType, Labels, Idle, Modes

(* What the actions share: the pool grants, and addresses are released.    *)
LEMMA GrantTypes ==
  ASSUME AddressTypeOK, Candidates # {}, NEW owner \in Users \cup {NoUser, Placeholder}, Grant(owner)
  PROVE  pool' \in [Net -> Users \cup {NoUser, Placeholder}] /\ next' \in Net \cup {Past}
<1>1. /\ Min(Candidates) \in Net /\ Min(Candidates) + 1 \in Net \cup {Past}
  BY CandidateIs
<1> QED BY <1>1 DEF Grant, AddressTypeOK

LEMMA ExhaustedTypes ==
  ASSUME AddressTypeOK, Exhausted
  PROVE  next' \in Net \cup {Past} /\ next' >= next
<1> DEFINE S == {next + Probe, Past}
<1>1. S \in SUBSET Nat /\ next + Probe >= next /\ Past >= next /\ next \in Nat /\ next >= 1
  BY Parameters DEF AddressTypeOK, Net, Past
<1>2. Min(S) \in S /\ Min(S) <= Past
  BY <1>1, MinIs
<1>3. next' = Min(S)
  BY DEF Exhausted
<1> HIDE DEF S
<1>4. next' \in Nat /\ next' >= 1 /\ next' <= Past /\ next' >= next
  BY <1>1, <1>2, <1>3, Parameters DEF S, Past
<1> QED BY <1>4, Parameters DEF Net, Past

LEMMA ReleaseTypes ==
  ASSUME AddressTypeOK, NEW stage, NEW ip \in Net \cup {NoIP}, Release(stage, ip)
  PROVE  /\ pool' \in [Net -> Users \cup {NoUser, Placeholder}]
         /\ alloc' \in [Net -> AllocType] /\ torn' \subseteq Net \cup {NoIP}
         /\ index' \in [Net -> Users \cup {NoUser}]
<1>1. pool' \in [Net -> Users \cup {NoUser, Placeholder}]
  BY DEF AddressTypeOK, Release
<1>2. index' \in [Net -> Users \cup {NoUser}]
  BY DEF AddressTypeOK, Release
<1>3. alloc \in [Net -> AllocType]
  BY DEF AddressTypeOK
<1>4. \A a \in AllocType : Released(a) \in AllocType
  BY DEF Released, AllocType
<1>5. alloc' \in [Net -> AllocType] /\ torn' \subseteq Net \cup {NoIP}
  BY <1>3, <1>4 DEF Release, Unwritten, AddressTypeOK
<1> QED BY <1>1, <1>2, <1>5

LEMMA RecordTypes ==
  ASSUME AddressTypeOK, NEW ip \in Net \cup {NoIP}, NEW u \in Users \cup {NoUser}, Record(ip, u)
  PROVE  alloc' \in [Net -> AllocType] /\ torn' \subseteq Net \cup {NoIP}
<1>1. [user |-> u, active |-> TRUE, lease |-> "none"] \in AllocType
  BY DEF AllocType
<1>2. alloc \in [Net -> AllocType] /\ torn \subseteq Net \cup {NoIP}
  BY DEF AddressTypeOK
<1> QED BY <1>1, <1>2 DEF Record, Unwritten

(* A handshake and its session, the cleaner, the administrator and a       *)
(* restart keep the types.                                                 *)
LEMMA GotoTypes ==
  ASSUME AddressTypeOK, NEW c, NEW label \in Labels, Goto(c, label)
  PROVE  hs' \in [Conns -> Labels]
  BY DEF AddressTypeOK, Goto

LEMMA HandshakeTypes ==
  ASSUME AddressTypeOK, NEW c \in Conns, Handshake(c)
  PROVE  AddressTypeOK'
<1>1. UserOf[c] \in Users \cup {NoUser}
  BY Parameters DEF AddressTypeOK, UserOf
<1> DEFINE Pool == pool' \in [Net -> Users \cup {NoUser, Placeholder}]
           Index == index' \in [Net -> Users \cup {NoUser}]
<1> USE DEF AddressTypeOK, MaxCrashes
<1>l. {"none", "ensure", "take", "alloc", "row", "record", "register", "mount", "online", "out"} \subseteq Labels
  BY DEF Labels
<1>2. CASE Authenticate(c)
  <2>1. has' \in [Conns -> HasType]
    BY <1>1, <1>2 DEF Authenticate, HasType, RowType
  <2> QED BY <1>2, <1>l, <2>1, GotoTypes DEF Authenticate
<1>3. CASE EnsureFixed(c) BY <1>3, <1>l, GotoTypes DEF EnsureFixed
<1>4. CASE EnsureSession(c) BY <1>4, <1>l, GotoTypes DEF EnsureSession
<1>5. CASE EnsureLease(c)
  <2>1. has' \in [Conns -> HasType]
    BY <1>5 DEF EnsureLease, HasType
  <2>2. hs' \in [Conns -> Labels]
    BY <1>5, <1>l, GotoTypes DEF EnsureLease
  <2> QED BY <1>5, <2>1, <2>2 DEF EnsureLease
<1>6. CASE TakeLeased(c)
  <2>1. Pool
    BY <1>1, <1>6 DEF TakeLeased
  <2>2. hs' \in [Conns -> Labels]
    BY <1>6, <1>l, GotoTypes DEF TakeLeased
  <2> QED BY <1>6, <2>1, <2>2 DEF TakeLeased
<1>7. CASE Allocate(c)
  <2>1. CASE Candidates # {} /\ Grant(UserOf[c]) /\ has' = [has EXCEPT ![c].ip = Min(Candidates)] /\ Goto(c, "row")
    <3>1. has' \in [Conns -> HasType]
      BY <2>1, CandidateIs DEF HasType
    <3>2. Pool /\ next' \in Net \cup {Past}
      BY <1>1, <2>1, GrantTypes
    <3> QED BY <1>7, <1>l, <2>1, <3>1, <3>2, GotoTypes DEF Allocate
  <2>2. CASE Exhausted /\ Goto(c, "out") /\ UNCHANGED has
    BY <1>7, <1>l, <2>2, ExhaustedTypes, GotoTypes DEF Allocate, Exhausted
  <2> QED BY <1>7, <2>1, <2>2 DEF Allocate
<1>8. CASE UpdateRow(c)
  <2>1. row' \in [Users -> RowType]
    BY <1>8 DEF UpdateRow, RowType, HasType
  <2>2. hs' \in [Conns -> Labels]
    BY <1>8, <1>l, GotoTypes DEF UpdateRow
  <2>3. Pool
    BY <1>8 DEF UpdateRow
  <2> QED BY <1>8, <2>1, <2>2, <2>3 DEF UpdateRow
<1>9. CASE RecordAllocation(c)
  BY <1>1, <1>9, <1>l, RecordTypes, GotoTypes DEF RecordAllocation, HasType
<1>10. CASE RegisterIP(c)
  <2>1. Index
    BY <1>1, <1>10 DEF RegisterIP
  <2> QED BY <1>10, <1>l, <2>1, GotoTypes DEF RegisterIP
<1>11. CASE RegisterVPN(c)
  <2>1. Index
    BY <1>1, <1>11 DEF RegisterVPN
  <2>2. hs' \in [Conns -> Labels]
    BY <1>11, <1>l DEF RegisterVPN
  <2> QED BY <1>11, <2>1, <2>2 DEF RegisterVPN
<1>12. CASE Rejected(c) BY <1>12, <1>l, GotoTypes DEF Rejected
<1> QED BY <1>2, <1>3, <1>4, <1>5, <1>6, <1>7, <1>8, <1>9, <1>10, <1>11, <1>12 DEF Handshake

LEMMA SessionTypes ==
  ASSUME AddressTypeOK, NEW c \in Conns, Session(c)
  PROVE  AddressTypeOK'
<1> USE DEF AddressTypeOK, MaxCrashes
<1>1. CASE Leave(c)
  <2>1. Leaving(c) \in Labels
    BY LeavingIs DEF Labels, Stages
  <2> QED BY <1>1, <2>1, GotoTypes DEF Leave
<1>2. CASE ReleaseOnDisconnect(c)
  <2>1. After(hs[c], "out") \in Labels
    BY <1>2, AfterIs DEF ReleaseOnDisconnect, Labels, Stages
  <2> QED BY <1>2, <2>1, ReleaseTypes, GotoTypes DEF ReleaseOnDisconnect, HasType
<1>3. CASE LeaseOnDisconnect(c)
  <2>1. alloc' \in [Net -> AllocType]
    BY <1>3 DEF LeaseOnDisconnect, AllocType
  <2>2. "out" \in Labels
    BY DEF Labels
  <2> QED BY <1>3, <2>1, <2>2, GotoTypes DEF LeaseOnDisconnect
<1> QED BY <1>1, <1>2, <1>3 DEF Session

LEMMA CleanerTypes ==
  ASSUME AddressTypeOK, Cleaner
  PROVE  AddressTypeOK'
<1> USE DEF AddressTypeOK, MaxCrashes
<1>1. ASSUME NEW S \in SUBSET Net, S # {} PROVE Min(S) \in Net
  <2>1. S \in SUBSET Nat
    BY DEF Net
  <2> QED BY <1>1, <2>1, MinIs
<1>2. CASE CleanerLists
  BY <1>2 DEF CleanerLists, ExpiredRows, CleanerType
<1>3. CASE CleanerExpires
  <2>1. alloc' \in [Net -> AllocType]
    <3>1. ASSUME alloc' = [ip \in Net |-> IF ip \in ExpiredRows THEN [alloc[ip] EXCEPT !.active = FALSE]
                                           ELSE alloc[ip]]
          PROVE  alloc' \in [Net -> AllocType]
      BY <3>1 DEF AllocType
    <3> QED BY <1>3, <3>1 DEF CleanerExpires
  <2>2. cleaner' \in CleanerType
    <3>1. CleanerIdle \in CleanerType
      BY DEF CleanerIdle, CleanerType
    <3>2. ASSUME cleaner.ips # {} PROVE [cleaner EXCEPT !.pc = "pool", !.ip = Min(cleaner.ips)] \in CleanerType
      BY <1>1, <3>2 DEF CleanerType, Stages
    <3> QED BY <1>3, <3>1, <3>2 DEF CleanerExpires
  <2> QED BY <1>3, <2>1, <2>2 DEF CleanerExpires
<1>4. CASE CleanerReleases
  <2>1. cleaner' \in CleanerType
    BY <1>1, <1>4, AfterIs DEF CleanerReleases, CleanerIdle, CleanerType, Stages
  <2> QED BY <1>4, <2>1, ReleaseTypes DEF CleanerReleases, CleanerType
<1> QED BY <1>2, <1>3, <1>4 DEF Cleaner

LEMMA AdministratorTypes ==
  ASSUME AddressTypeOK, Administrator
  PROVE  AddressTypeOK'
<1> USE DEF AddressTypeOK, MaxCrashes
<1>a. ASSUME NEW label \in Stages \cup {"idle", "insert", "unhold", "bind", "record", "register",
                                      "write", "kick", "kicked", "erase"}, ThenAdmin(label)
      PROVE  admin' \in AdminType
  BY <1>a DEF ThenAdmin, AdminType, Idle, Modes
<1>b. ASSUME NEW pc \in Stages \cup {"insert", "bind", "write", "kick"}, NEW op \in {"create", "patch", "delete"},
             NEW u \in Users, NEW ip \in Net \cup {NoIP}, NEW old \in Net \cup {NoIP}, NEW mode \in Modes,
             Start(pc, op, u, ip, old, mode)
      PROVE  admin' \in AdminType
  BY <1>b DEF Start, AdminType
<1>r. \A u \in Users : row[u].ip \in Net \cup {NoIP} /\ row[u].mode \in Modes
  BY DEF RowType
<1>m. {"fixed", "session", "lease"} = Modes
  BY DEF Modes
<1>1. CASE \E u \in Users : CreateAuto(u)
  <2> PICK u \in Users : CreateAuto(u)
    BY <1>1
  <2>1. CASE Exhausted /\ UNCHANGED admin
    BY <2>1, ExhaustedTypes DEF CreateAuto, Exhausted
  <2>2. CASE Candidates # {} /\ Grant(Placeholder) /\ Start("insert", "create", u, Min(Candidates), NoIP, "fixed")
    BY <1>b, <1>m, <2>2, GrantTypes, CandidateIs DEF CreateAuto
  <2> QED BY <2>1, <2>2 DEF CreateAuto
<1>2. CASE \E u \in Users : Delete(u)
  BY <1>2, <1>b, <1>r DEF Delete
<1>3. CASE \E u \in Users, ip \in Net : CreateManual(u, ip)
  BY <1>3, <1>b, <1>m DEF CreateManual
<1>4. CASE \E u \in Users, mode \in {"session", "lease"} : CreateDynamic(u, mode)
  <2>1. row' \in [Users -> RowType]
    BY <1>4, <1>m DEF CreateDynamic, RowType
  <2> QED BY <1>4, <2>1 DEF CreateDynamic
<1>5. CASE \E u \in Users, mode \in Modes, ip \in Net \cup {NoIP} : Patch(u, mode, ip)
  <2> PICK u \in Users, mode \in Modes, ip \in Net \cup {NoIP} : Patch(u, mode, ip)
    BY <1>5
  <2>1. admin' \in AdminType
    BY <1>b, <1>r DEF Patch, Stages
  <2> QED BY <2>1 DEF Patch
<1>6. CASE InsertRow
  <2>1. row' \in [Users -> RowType] /\ pool' \in [Net -> Users \cup {NoUser, Placeholder}]
    BY <1>6, <1>m DEF InsertRow, RowType, AdminType
  <2> QED BY <1>6, <1>a, <2>1 DEF InsertRow
<1>7. CASE Unhold
  <2>1. pool' \in [Net -> Users \cup {NoUser, Placeholder}]
    BY <1>7 DEF Unhold
  <2> QED BY <1>7, <1>a, <2>1 DEF Unhold
<1>8. CASE Bind
  <2>1. pool' \in [Net -> Users \cup {NoUser, Placeholder}]
    BY <1>8 DEF Bind, AdminType
  <2>2. admin' \in AdminType
    BY <1>8, <1>a DEF Bind
  <2> QED BY <1>8, <2>1, <2>2 DEF Bind
<1>9. CASE AdminRecords
  <2>1. alloc' \in [Net -> AllocType] /\ torn' \subseteq Net \cup {NoIP}
    BY <1>9, RecordTypes DEF AdminRecords, AdminType
  <2> QED BY <1>9, <1>a, <2>1 DEF AdminRecords
<1>10. CASE AdminRegisters
  <2>1. index' \in [Net -> Users \cup {NoUser}]
    BY <1>10 DEF AdminRegisters, AdminType
  <2>2. admin' \in AdminType
    BY <1>10, <1>a DEF AdminRegisters, Stages
  <2> QED BY <1>10, <2>1, <2>2 DEF AdminRegisters
<1>11. CASE AdminReleases
  <2>1. admin' \in AdminType
    BY <1>11, <1>a, AfterIs DEF AdminReleases, Stages
  <2> QED BY <1>11, <2>1, ReleaseTypes DEF AdminReleases, AdminType
<1>12. CASE Erase
  <2>1. row' \in [Users -> RowType]
    BY <1>12 DEF Erase, RowType
  <2>2. alloc' \in [Net -> AllocType]
    <3>1. Unused \in AllocType
      BY DEF Unused, AllocType
    <3> QED BY <1>12, <3>1 DEF Erase
  <2> QED BY <1>12, <1>a, <2>1, <2>2 DEF Erase, Moved
<1>13. CASE Write
  <2>1. row' \in [Users -> RowType]
    BY <1>13 DEF Write, RowType, AdminType
  <2>2. admin' \in AdminType /\ torn' \subseteq Net \cup {NoIP}
    BY <1>13, <1>a DEF Write, Moved
  <2> QED BY <1>13, <2>1, <2>2 DEF Write
<1>14. CASE Kick
  <2>1. hs' \in [Conns -> Labels]
    <3>1. \A c \in Conns : Leaving(c) \in Labels
      BY LeavingIs DEF Labels, Stages
    <3> QED BY <1>14, <3>1, GotoTypes DEF Kick
  <2>2. admin' \in AdminType
    BY <1>14, <1>a DEF Kick, AdminType
  <2> QED BY <1>14, <2>1, <2>2 DEF Kick
<1>15. CASE Kicked
  <2>1. admin' \in AdminType
    BY <1>15, <1>a DEF Kicked, Stages
  <2> QED BY <1>15, <2>1 DEF Kicked
<1> QED BY <1>1, <1>2, <1>3, <1>4, <1>5, <1>6, <1>7, <1>8, <1>9, <1>10, <1>11, <1>12,
           <1>13, <1>14, <1>15 DEF Administrator

LEMMA RestartTypes ==
  ASSUME AddressTypeOK, Restart
  PROVE  AddressTypeOK'
<1>1. Restored \in [Net -> AllocType]
  <2>1. ASSUME NEW ip \in Net, FixedAt(ip) # {} PROVE Min(FixedAt(ip)) \in Users
    BY <2>1, FixedAtIs DEF FixedAt
  <2>2. \A ip \in Net : alloc[ip] \in AllocType
    BY DEF AddressTypeOK
  <2> QED BY <2>1, <2>2 DEF Restored, Unrecorded, AllocType
<1>r. alloc' \in [Net -> AllocType] /\ torn' \subseteq Net \cup {NoIP}
  BY <1>1 DEF Restart, AddressTypeOK, Unrecorded, Moved
<1>2. PoolOf(Restored) \in [Net -> Users \cup {NoUser, Placeholder}]
  BY <1>1 DEF PoolOf, AllocType
<1>3. 1 \in Net
  BY Parameters DEF Net
<1>4. index' \in [Net -> Users \cup {NoUser}] /\ hs' \in [Conns -> Labels]
  BY IndexIs DEF Restart, Labels
<1>5. cleaner' \in CleanerType /\ admin' \in AdminType
  BY DEF Restart, CleanerIdle, CleanerType, AdminType, Idle, Modes
<1>6. crashes' \in 0..MaxCrashes'
  BY Parameters DEF Restart, AddressTypeOK, MaxCrashes
<1> QED BY <1>1, <1>r, <1>2, <1>3, <1>4, <1>5, <1>6 DEF Restart, AddressTypeOK

LEMMA TypesKept == AddressTypeOK /\ [Next]_vars => AddressTypeOK'
<1> SUFFICES ASSUME AddressTypeOK, [Next]_vars PROVE AddressTypeOK'
  OBVIOUS
<1>1. CASE \E ip \in Net : LeaseRunsOut(ip)
  <2>1. alloc' \in [Net -> AllocType]
    BY <1>1 DEF LeaseRunsOut, AddressTypeOK, AllocType
  <2> QED BY <1>1, <2>1 DEF LeaseRunsOut, AddressTypeOK, MaxCrashes
<1>2. CASE UNCHANGED vars
  BY <1>2 DEF vars, AddressTypeOK, MaxCrashes
<1> QED BY <1>1, <1>2, HandshakeTypes, SessionTypes, CleanerTypes, AdministratorTypes,
           RestartTypes DEF Next

(* Whatever happens, every variable has its type. *)
THEOREM AddressesTyped == Spec => []AddressTypeOK
  BY InitTypes, TypesKept, PTL DEF Spec

----------------------------------------------------------------------------
(* No two accounts hold one address: what AddrInv says of the pool, put    *)
(* together.                                                               *)
LEMMA HeldApart ==
  ASSUME AddressTypeOK, AddrInv
  PROVE  NoSharedAddress
<1> SUFFICES ASSUME NEW c \in Conns, NEW d \in Conns, Holds(c), Holds(d), has[c].ip = has[d].ip
             PROVE  UserOf[c] = UserOf[d]
  BY DEF NoSharedAddress
<1>1. /\ pool[has[c].ip] = UserOf[c] \/ Binding(UserOf[c])
      /\ pool[has[d].ip] = UserOf[d] \/ Binding(UserOf[d])
  BY DEF AddrInv, HeldInPool
<1>2. ASSUME NEW e \in Conns, Holds(e), Binding(UserOf[e])
      PROVE  pool[has[e].ip] \in {NoUser, Placeholder}
  BY <1>2 DEF AddrInv, Creation, LoginsAsRows, LoggedIn, Holds, Granted, Binding, FixedRow
<1>3. UserOf[c] \in Users /\ UserOf[d] \in Users
  BY DEF AddrInv, LoginsAsRows, LoggedIn, Holds, Granted
<1> QED BY <1>1, <1>2, <1>3, Parameters DEF Binding

(* Each action keeps AddrInv; first those that touch no address.           *)
LEMMA AuthenticateKeeps ==
  ASSUME AddressTypeOK, AddrInv, NEW c \in Conns, Authenticate(c)
  PROVE  AddrInv'
<1> USE DEF AddrInv, AddressTypeOK, Goto, Using, Stages, LoggedIn, Holds, Granted, Authenticate, UserOf
<1>1. LoginsAsRows'
  BY Parameters DEF LoginsAsRows
<1>2. FreshAlone'
  BY DEF FreshAlone, Fresh, AloneWith, FixedRow
<1>3. ActiveInPool' /\ PoolOnRecord' /\ OnlineInIndex'
  BY DEF ActiveInPool, Stale, PoolOnRecord, OnlineInIndex
<1>4. HeldInPool' /\ FixedInPool' /\ Creation'
  BY DEF HeldInPool, FixedInPool, Creation, FixedRow, Binding
<1> QED BY <1>1, <1>2, <1>3, <1>4

LEMMA EnsureSessionKeeps ==
  ASSUME AddressTypeOK, AddrInv, NEW c \in Conns, EnsureSession(c)
  PROVE  AddrInv'
<1> USE DEF AddrInv, AddressTypeOK, Goto, Using, Stages, LoggedIn, Holds, Granted, EnsureSession, UserOf
<1>1. LoginsAsRows'
  BY DEF LoginsAsRows
<1>2. FreshAlone'
  BY DEF FreshAlone, Fresh, AloneWith, FixedRow
<1>3. ActiveInPool' /\ PoolOnRecord' /\ OnlineInIndex'
  BY DEF ActiveInPool, Stale, PoolOnRecord, OnlineInIndex
<1>4. HeldInPool' /\ FixedInPool' /\ Creation'
  BY DEF HeldInPool, FixedInPool, Creation, FixedRow, Binding
<1> QED BY <1>1, <1>2, <1>3, <1>4

LEMMA RejectedKeeps ==
  ASSUME AddressTypeOK, AddrInv, NEW c \in Conns, Rejected(c)
  PROVE  AddrInv'
<1> USE DEF AddrInv, AddressTypeOK, Goto, Using, Stages, LoggedIn, Holds, Granted, Rejected, UserOf
<1>1. LoginsAsRows'
  BY DEF LoginsAsRows
<1>2. FreshAlone'
  BY DEF FreshAlone, Fresh, AloneWith, FixedRow
<1>3. ActiveInPool' /\ PoolOnRecord' /\ OnlineInIndex'
  BY DEF ActiveInPool, Stale, PoolOnRecord, OnlineInIndex
<1>4. HeldInPool' /\ FixedInPool' /\ Creation'
  BY DEF HeldInPool, FixedInPool, Creation, FixedRow, Binding
<1> QED BY <1>1, <1>2, <1>3, <1>4

(* The lease of an address that nobody uses any more: the row's user stays. *)
LEMMA LeaseOnDisconnectKeeps ==
  ASSUME AddressTypeOK, AddrInv, NEW c \in Conns, LeaseOnDisconnect(c)
  PROVE  AddrInv'
<1> USE DEF AddrInv, AddressTypeOK, Goto, Using, Stages, LoggedIn, Holds, Granted, LeaseOnDisconnect, UserOf
<1>0. /\ hs[c] = "lease" /\ hs'[c] = "out" /\ UNCHANGED has
      /\ has[c].ip \in Net /\ has[c].mode # "session"
      /\ \A d \in Conns \ {c} : hs'[d] = hs[d]
      /\ \A ip \in Net : /\ alloc'[ip].active = alloc[ip].active /\ alloc'[ip].user = alloc[ip].user
                         /\ ip # has[c].ip => alloc'[ip] = alloc[ip]
  BY DEF LoginsAsRows, AllocType
<1>1. LoginsAsRows'
  BY DEF LoginsAsRows
<1>2. FreshAlone'
  <2> SUFFICES ASSUME NEW d \in Conns, Fresh(d)' PROVE AloneWith(d)'
    BY DEF FreshAlone
  <2>1. d # c /\ Fresh(d) /\ AloneWith(d) /\ has[d].ip \in Net
    BY <1>0 DEF Fresh, FreshAlone, LoginsAsRows
  <2>2. has[d].ip # has[c].ip
    BY <1>0, <2>1 DEF AloneWith
  <2> QED BY <1>0, <2>1, <2>2 DEF AloneWith, FixedRow
<1>3. ActiveInPool' /\ PoolOnRecord'
  BY <1>0 DEF ActiveInPool, Stale, PoolOnRecord
<1>4. HeldInPool' /\ FixedInPool' /\ OnlineInIndex'
  BY <1>0 DEF HeldInPool, FixedInPool, OnlineInIndex, FixedRow, Binding
<1>5. Creation'
  BY <1>0 DEF Creation, FixedRow
<1> QED BY <1>1, <1>2, <1>3, <1>4, <1>5

LEMMA LeaseRunsOutKeeps ==
  ASSUME AddressTypeOK, AddrInv, NEW ip \in Net, LeaseRunsOut(ip)
  PROVE  AddrInv'
<1> USE DEF AddrInv, AddressTypeOK, Goto, Using, Stages, LoggedIn, Holds, Granted, LeaseRunsOut, UserOf
<1>0. \A a \in Net : /\ alloc'[a].active = alloc[a].active /\ alloc'[a].user = alloc[a].user
                     /\ alloc[a].lease = "none" => alloc'[a].lease = "none"
  BY DEF AllocType
<1>1. LoginsAsRows' /\ OnlineInIndex'
  BY DEF LoginsAsRows, OnlineInIndex
<1>2. FreshAlone'
  <2> SUFFICES ASSUME NEW d \in Conns, Fresh(d) PROVE AloneWith(d)'
    BY DEF FreshAlone, Fresh
  <2>1. AloneWith(d) /\ has[d].ip \in Net
    BY DEF Fresh, FreshAlone, LoginsAsRows
  <2> QED BY <1>0, <2>1 DEF AloneWith, FixedRow
<1>3. ActiveInPool' /\ PoolOnRecord'
  BY <1>0 DEF ActiveInPool, Stale, PoolOnRecord
<1>4. HeldInPool' /\ FixedInPool'
  BY DEF HeldInPool, FixedInPool, FixedRow, Binding
<1>5. Creation'
  BY <1>0 DEF Creation, FixedRow
<1> QED BY <1>1, <1>2, <1>3, <1>4, <1>5

(* The rest of a login. *)
LEMMA TakeLeasedKeeps ==
  ASSUME AddressTypeOK, AddrInv, NEW c \in Conns, TakeLeased(c)
  PROVE  AddrInv'
<1> USE DEF AddrInv, AddressTypeOK, Goto, Using, Stages, LoggedIn, Holds, Granted, UserOf
<1>1. /\ hs[c] = "take" /\ UserOf[c] \in Users /\ has[c].mode = "lease"
      /\ has[c].ip \in Net /\ row[UserOf[c]].mode = "lease"
  BY DEF TakeLeased, LoginsAsRows, HasType, Modes
<1>2. pool[has[c].ip] = UserOf[c]
  BY <1>1 DEF HeldInPool, Creation, Binding, FixedRow
<1>3. /\ hs'[c] \in {"record", "alloc"} /\ \A d \in Conns \ {c} : hs'[d] = hs[d]
      /\ UNCHANGED <<scene, row, alloc, pool, next, index, has, cleaner, admin, crashes, torn>>
  BY <1>1, <1>2 DEF TakeLeased
<1>4. LoginsAsRows'
  BY <1>1, <1>3 DEF LoginsAsRows
<1>5. FreshAlone'
  <2> SUFFICES ASSUME NEW d \in Conns, Fresh(d)' PROVE AloneWith(d)'
    BY DEF FreshAlone
  <2>1. d # c /\ Fresh(d) /\ AloneWith(d)
    BY <1>1, <1>3 DEF Fresh, FreshAlone
  <2> QED BY <1>1, <1>3, <2>1 DEF AloneWith, FixedRow
<1>6. ActiveInPool' /\ PoolOnRecord' /\ OnlineInIndex'
  BY <1>1, <1>3 DEF ActiveInPool, Stale, PoolOnRecord, OnlineInIndex
<1>7. HeldInPool'
  BY <1>2, <1>3 DEF HeldInPool, Binding
<1>8. FixedInPool' /\ Creation'
  BY <1>3 DEF FixedInPool, Creation, FixedRow, Binding
<1> QED BY <1>3, <1>4, <1>5, <1>6, <1>7, <1>8

LEMMA EnsureFixedKeeps ==
  ASSUME AddressTypeOK, AddrInv, NEW c \in Conns, EnsureFixed(c)
  PROVE  AddrInv'
<1> USE DEF AddrInv, AddressTypeOK, Goto, Using, Stages, LoggedIn, Holds, Granted, EnsureFixed
<1>0. /\ UserOf[c] \in Users /\ FixedRow(UserOf[c]) /\ has[c].ip = row[UserOf[c]].ip
      /\ has[c].mode = "fixed" /\ has[c].ip \in Net
  BY DEF LoginsAsRows, FixedInPool, FixedRow
<1>1. LoginsAsRows'
  BY <1>0 DEF LoginsAsRows, UserOf
<1>2. FreshAlone'
  <2> SUFFICES ASSUME NEW d \in Conns, Fresh(d)' PROVE AloneWith(d)'
    BY DEF FreshAlone
  <2>1. d # c /\ Fresh(d) /\ hs'[d] = hs[d]
    BY <1>0 DEF Fresh
  <2>2. AloneWith(d) /\ has[c].ip # has[d].ip
    BY <1>0, <2>1 DEF FreshAlone, AloneWith
  <2> QED BY <2>1, <2>2 DEF AloneWith, FixedRow, UserOf
<1>3. ActiveInPool'
  BY DEF ActiveInPool, Stale
<1>4. HeldInPool'
  BY <1>0 DEF HeldInPool, FixedInPool, Binding, UserOf
<1>5. FixedInPool'
  BY DEF FixedInPool, FixedRow, Binding
<1>6. Creation'
  BY DEF Creation, FixedRow
<1>7. PoolOnRecord'
  BY DEF PoolOnRecord
<1>8. OnlineInIndex'
  BY DEF OnlineInIndex, UserOf
<1> QED BY <1>1, <1>2, <1>3, <1>4, <1>5, <1>6, <1>7, <1>8

LEMMA EnsureLeaseKeeps ==
  ASSUME AddressTypeOK, AddrInv, NEW c \in Conns, EnsureLease(c)
  PROVE  AddrInv'
<1> USE DEF AddrInv, AddressTypeOK, Goto, Using, Stages, LoggedIn, Holds, Granted, EnsureLease
<1>1. CASE Goto(c, "alloc") /\ UNCHANGED has
  <2>1. LoginsAsRows'
    BY <1>1 DEF LoginsAsRows, UserOf
  <2>2. FreshAlone'
    BY <1>1 DEF FreshAlone, Fresh, AloneWith, FixedRow, UserOf
  <2>3. ActiveInPool' /\ FixedInPool' /\ Creation'
    BY <1>1 DEF ActiveInPool, Stale, FixedInPool, Creation, FixedRow, Binding
  <2>4. HeldInPool' /\ PoolOnRecord' /\ OnlineInIndex'
    BY <1>1 DEF HeldInPool, PoolOnRecord, OnlineInIndex, Binding, UserOf
  <2> QED BY <2>1, <2>2, <2>3, <2>4
<1>2. ASSUME NEW ip \in Net, alloc[ip].user = UserOf[c], alloc[ip].active,
             has' = [has EXCEPT ![c].ip = ip], Goto(c, "take")
      PROVE  AddrInv'
  <2>1. /\ has'[c].ip = ip /\ has'[c].mode = "lease" /\ hs'[c] = "take"
        /\ \A d \in Conns \ {c} : has'[d] = has[d] /\ hs'[d] = hs[d]
    BY <1>2 DEF HasType
  <2>2. UserOf[c] \in Users /\ row[UserOf[c]].state = "yes" /\ row[UserOf[c]].mode = "lease"
    BY DEF LoginsAsRows
  <2>3. ASSUME NEW d \in Conns, Fresh(d) PROVE has[d].ip # ip
    <3> SUFFICES ASSUME has[d].ip = ip PROVE FALSE
      OBVIOUS
    <3>1. hs[d] \notin {"row", "record"} /\ UserOf[d] = UserOf[c]
      BY <1>2, <2>3 DEF FreshAlone, AloneWith
    <3>2. row[UserOf[d]].mode = "session"
      BY <2>3, <3>1 DEF LoginsAsRows, Fresh
    <3> QED BY <2>2, <3>1, <3>2
  <2>4. pool[ip] = UserOf[c]
    <3>1. ASSUME NEW d \in Conns, hs[d] = "db", has[d].ip = ip PROVE FALSE
      <4>1. has[d].mode = "session"
        BY <3>1 DEF LoginsAsRows, HasType, Modes
      <4> QED BY <2>3, <3>1, <4>1 DEF Fresh
    <3>2. ~Stale(ip)
      BY <1>2, <2>2 DEF Stale
    <3> QED BY <1>2, <3>1, <3>2 DEF ActiveInPool
  <2>5. LoginsAsRows'
    BY <1>2, <2>1, <2>2 DEF LoginsAsRows, UserOf
  <2>6. FreshAlone'
    <3> SUFFICES ASSUME NEW d \in Conns, Fresh(d)' PROVE AloneWith(d)'
      BY DEF FreshAlone
    <3>1. d # c /\ Fresh(d)
      BY <2>1 DEF Fresh
    <3>2. AloneWith(d) /\ has[d].ip # ip
      BY <2>3, <3>1 DEF FreshAlone
    <3> QED BY <1>2, <2>1, <3>1, <3>2 DEF AloneWith, FixedRow, UserOf
  <2>7. ActiveInPool' /\ FixedInPool' /\ Creation'
    BY <1>2, <2>1 DEF ActiveInPool, Stale, FixedInPool, Creation, FixedRow, Binding
  <2>8. HeldInPool'
    BY <1>2, <2>1, <2>4 DEF HeldInPool, Binding, UserOf
  <2>9. PoolOnRecord' /\ OnlineInIndex'
    BY <1>2, <2>1 DEF PoolOnRecord, OnlineInIndex, UserOf
  <2> QED BY <2>5, <2>6, <2>7, <2>8, <2>9
<1> QED BY <1>1, <1>2

(* The cursor goes on: what was not written stays so. *)
LEMMA StaleStays ==
  ASSUME AddressTypeOK, NEW ip \in Net, Stale(ip), next' \in Nat, next' >= next,
         pool'[ip] = pool[ip], UNCHANGED <<row, alloc, torn>>
  PROVE  (Stale(ip))'
<1>1. next \in Nat /\ ip \in Nat
  BY Parameters DEF AddressTypeOK, Net, Past
<1> QED BY <1>1 DEF Stale

(* An address of which the pool may dispose is in nobody's use.            *)
LEMMA GrantedIsNew ==
  ASSUME AddressTypeOK, AddrInv, NEW ip \in Net, ip >= next, pool[ip] \in {NoUser, Placeholder}
  PROVE  /\ ~alloc[ip].active
         /\ \A d \in Conns : hs[d] \in Using => has[d].ip # ip
         /\ \A u \in Users : FixedRow(u) => row[u].ip # ip
         /\ admin.pc # "idle" => admin.ip # ip
<1>1. pool[ip] \notin Users /\ ip \in Nat /\ next \in Nat
  BY Parameters DEF AddressTypeOK, Net, Past
<1>2. admin.pc # "idle" => admin.ip # ip
  BY <1>1 DEF AddrInv, Creation
<1>3. \A d \in Conns : Fresh(d) => has[d].ip # ip
  BY <1>1 DEF AddrInv, FreshAlone, AloneWith
<1>4. \A u \in Users : FixedRow(u) => row[u].ip # ip
  BY <1>1, <1>2 DEF AddrInv, FixedInPool, Binding
<1>5. ASSUME NEW d \in Conns, hs[d] \in Using PROVE has[d].ip # ip
  <2>1. UserOf[d] \in Users /\ has[d].mode = row[UserOf[d]].mode
    BY <1>5 DEF AddrInv, LoginsAsRows, LoggedIn, Using, Stages
  <2>2. CASE has[d].mode = "fixed"
    BY <1>4, <1>5, <2>1, <2>2 DEF AddrInv, LoginsAsRows, LoggedIn, FixedRow, Using, Stages
  <2>3. CASE has[d].mode = "session"
    BY <1>3, <1>5, <2>3 DEF AddrInv, LoginsAsRows, LoggedIn, Fresh, Using, Stages
  <2>4. CASE has[d].mode = "lease"
    <3>1. Fresh(d) \/ Holds(d) \/ hs[d] = "take"
      BY <1>5, <2>4 DEF AddrInv, LoginsAsRows, LoggedIn, Fresh, Holds, Granted, Using, Stages
    <3>2. ~Binding(UserOf[d])
      BY <2>1, <2>4 DEF AddrInv, Creation, Binding, FixedRow
    <3> QED BY <1>1, <1>3, <2>1, <3>1, <3>2 DEF AddrInv, HeldInPool
  <2> QED BY <2>2, <2>3, <2>4 DEF AddressTypeOK, HasType, Modes
<1>6. ~alloc[ip].active
  <2>1. ASSUME NEW d \in Conns, hs[d] = "db" PROVE Fresh(d)
    BY <2>1 DEF AddrInv, LoginsAsRows, LoggedIn, Fresh, Stages, AddressTypeOK, HasType, Modes
  <2>2. ~Stale(ip)
    BY <1>1 DEF Stale
  <2> QED BY <1>1, <1>3, <2>1, <2>2 DEF AddrInv, ActiveInPool
<1> QED BY <1>2, <1>4, <1>5, <1>6

LEMMA AllocateKeeps ==
  ASSUME AddressTypeOK, AddrInv, NEW c \in Conns, Allocate(c)
  PROVE  AddrInv'
<1> USE DEF AddrInv, AddressTypeOK, Goto, Using, Stages, LoggedIn, Holds, Granted, Allocate, UserOf
<1>0. \A d \in Conns : Fresh(d) => has[d].ip \in Nat
  BY DEF LoginsAsRows, Fresh, Net
<1>n. next \in Nat
  BY Parameters DEF Net, Past
<1>1. CASE Exhausted /\ Goto(c, "out") /\ UNCHANGED has
  <2>1. next' \in Nat /\ next' >= next /\ pool' = pool
    BY <1>1, ExhaustedTypes, Parameters DEF Exhausted, Net, Past
  <2>2. LoginsAsRows'
    BY <1>1 DEF LoginsAsRows
  <2>3. FreshAlone'
    <3> SUFFICES ASSUME NEW d \in Conns, Fresh(d)' PROVE AloneWith(d)'
      BY DEF FreshAlone
    <3>1. d # c /\ Fresh(d)
      BY <1>1 DEF Fresh
    <3>2. AloneWith(d) /\ has[d].ip < next'
      BY <1>0, <1>n, <2>1, <3>1 DEF FreshAlone, AloneWith
    <3> QED BY <1>1, <2>1, <3>1, <3>2 DEF AloneWith, FixedRow
  <2>4. ActiveInPool' /\ HeldInPool' /\ FixedInPool'
    BY <1>1, <2>1, StaleStays DEF ActiveInPool, HeldInPool, FixedInPool, FixedRow, Binding
  <2>5. Creation'
    BY <1>1, <1>n, <2>1 DEF Creation, FixedRow, Net
  <2>6. PoolOnRecord' /\ OnlineInIndex'
    BY <1>1, <2>1 DEF PoolOnRecord, OnlineInIndex
  <2> QED BY <2>2, <2>3, <2>4, <2>5, <2>6
<1>2. ASSUME NEW ip, ip = Min(Candidates), Candidates # {},
             has' = [has EXCEPT ![c].ip = ip], Goto(c, "row"),
             pool' = [pool EXCEPT ![ip] = UserOf[c]], next' = ip + 1
      PROVE  AddrInv'
  <2>1. ip \in Net /\ ip >= next /\ pool[ip] \in {NoUser, Placeholder}
    BY <1>2, CandidateIs
  <2>2. /\ ~alloc[ip].active
        /\ \A d \in Conns : hs[d] \in Using => has[d].ip # ip
        /\ \A u \in Users : FixedRow(u) => row[u].ip # ip
        /\ admin.pc # "idle" => admin.ip # ip
    BY <2>1, GrantedIsNew
  <2>3. ip \in Nat /\ next' \in Nat /\ ip < next' /\ next <= next'
    BY <1>2, <1>n, <2>1 DEF Net
  <2>4. /\ has'[c].ip = ip /\ has'[c].mode = has[c].mode /\ hs'[c] = "row"
        /\ \A d \in Conns \ {c} : has'[d] = has[d] /\ hs'[d] = hs[d]
    BY <1>2 DEF HasType
  <2>5. LoginsAsRows'
    BY <1>2, <2>1, <2>4 DEF LoginsAsRows
  <2>6. FreshAlone'
    <3> SUFFICES ASSUME NEW d \in Conns, Fresh(d)' PROVE AloneWith(d)'
      BY DEF FreshAlone
    <3>1. CASE d = c
      BY <1>2, <2>2, <2>3, <2>4, <3>1 DEF AloneWith, FixedRow
    <3>2. CASE d # c
      <4>1. Fresh(d) /\ AloneWith(d)
        BY <2>4, <3>2 DEF Fresh, FreshAlone
      <4>2. has[d].ip # ip
        BY <2>2, <4>1 DEF Fresh
      <4>3. has[d].ip < next'
        BY <1>0, <1>n, <2>3, <4>1 DEF AloneWith
      <4> QED BY <1>2, <2>1, <2>4, <3>2, <4>1, <4>2, <4>3 DEF AloneWith, FixedRow
    <3> QED BY <3>1, <3>2
  <2>7. ActiveInPool'
    <3> SUFFICES ASSUME NEW a \in Net, alloc[a].active
                 PROVE  /\ alloc[a].user \in Users
                        /\ \/ pool'[a] = alloc[a].user
                           \/ \E d \in Conns : hs'[d] = "db" /\ has'[d].ip = a
                           \/ (Stale(a))'
      BY DEF ActiveInPool
    <3>1. pool'[a] = pool[a] /\ (Stale(a) => (Stale(a))')
      BY <1>2, <1>n, <2>1, <2>2, <2>3, StaleStays
    <3>2. \A d \in Conns : hs[d] = "db" => d # c
      OBVIOUS
    <3> QED BY <2>4, <3>1, <3>2 DEF ActiveInPool
  <2>8. HeldInPool'
    BY <1>2, <2>1, <2>2, <2>4 DEF HeldInPool, Binding
  <2>9. FixedInPool'
    BY <1>2, <2>1, <2>2 DEF FixedInPool, FixedRow, Binding
  <2>10. Creation'
    BY <1>2, <1>n, <2>1, <2>2, <2>3 DEF Creation, FixedRow, Net
  <2>11. PoolOnRecord' /\ OnlineInIndex'
    BY <1>2, <2>1, <2>2, <2>4 DEF PoolOnRecord, OnlineInIndex
  <2> QED BY <2>5, <2>6, <2>7, <2>8, <2>9, <2>10, <2>11
<1> QED BY <1>1, <1>2 DEF Grant

LEMMA UpdateRowKeeps ==
  ASSUME AddressTypeOK, AddrInv, NEW c \in Conns, UpdateRow(c)
  PROVE  AddrInv'
<1> USE DEF AddrInv, AddressTypeOK, Goto, Using, Stages, LoggedIn, Holds, Granted, UpdateRow, UserOf
<1>0. /\ Fresh(c) /\ AloneWith(c) /\ UserOf[c] \in Users /\ ~FixedRow(UserOf[c])
      /\ has[c].ip \in Net /\ row[UserOf[c]].state = "yes"
  BY DEF LoginsAsRows, FreshAlone, Fresh, FixedRow
<1>1. CASE row' = [row EXCEPT ![UserOf[c]].ip = has[c].ip] /\ Goto(c, "record") /\ UNCHANGED pool
  <2>1. /\ \A u \in Users : /\ row'[u].state = row[u].state /\ row'[u].mode = row[u].mode
                            /\ FixedRow(u) => row'[u] = row[u]
        /\ hs'[c] = "record" /\ \A d \in Conns \ {c} : hs'[d] = hs[d]
    BY <1>0, <1>1 DEF RowType, FixedRow
  <2>f. \A u \in Users : (FixedRow(u))' => FixedRow(u) /\ row'[u].ip = row[u].ip
    BY <2>1 DEF FixedRow
  <2>s. admin.pc = "insert" => admin.user \in Users /\ row'[admin.user].state = "no"
    BY <2>1 DEF Creation
  <2>2. LoginsAsRows'
    BY <1>0, <2>1 DEF LoginsAsRows, FixedRow
  <2>3. FreshAlone'
    <3> SUFFICES ASSUME NEW d \in Conns, Fresh(d)' PROVE AloneWith(d)'
      BY DEF FreshAlone
    <3>1. Fresh(d) /\ AloneWith(d)
      BY <1>0, <2>1 DEF Fresh, FreshAlone
    <3>2. \A u \in Users : (FixedRow(u))' => row'[u].ip # has[d].ip
      BY <2>f, <3>1 DEF AloneWith
    <3> QED BY <1>1, <2>1, <3>1, <3>2 DEF AloneWith
  <2>4. ActiveInPool' /\ HeldInPool' /\ OnlineInIndex'
    BY <1>1, <2>1 DEF ActiveInPool, Stale, HeldInPool, OnlineInIndex, Binding
  <2>5. FixedInPool'
    BY <1>1, <2>f DEF FixedInPool, Binding
  <2>7. Creation'
    <3>1. ASSUME NEW u \in Users, FixedRow(u) PROVE (FixedRow(u))' /\ row'[u].ip = row[u].ip
      BY <2>1, <3>1 DEF FixedRow
    <3> QED BY <1>1, <2>s, <3>1 DEF Creation
  <2>6. PoolOnRecord'
    BY <1>1, <2>1 DEF PoolOnRecord
  <2> QED BY <2>2, <2>3, <2>4, <2>5, <2>6, <2>7
<1>2. CASE pool' = [pool EXCEPT ![has[c].ip] = NoUser] /\ Goto(c, "out") /\ UNCHANGED row
  <2>1. hs'[c] = "out" /\ \A d \in Conns \ {c} : hs'[d] = hs[d]
    BY <1>2
  <2>2. LoginsAsRows'
    BY <1>2, <2>1 DEF LoginsAsRows
  <2>3. FreshAlone'
    <3> SUFFICES ASSUME NEW d \in Conns, Fresh(d)' PROVE AloneWith(d)'
      BY DEF FreshAlone
    <3>1. d # c /\ Fresh(d) /\ AloneWith(d)
      BY <2>1 DEF Fresh, FreshAlone
    <3> QED BY <1>0, <1>2, <2>1, <3>1 DEF AloneWith, FixedRow
  <2>4. ActiveInPool' /\ HeldInPool' /\ OnlineInIndex'
    BY <1>0, <1>2, <2>1 DEF ActiveInPool, Stale, HeldInPool, OnlineInIndex, Binding, AloneWith
  <2>5. FixedInPool' /\ Creation'
    BY <1>0, <1>2 DEF FixedInPool, Creation, FixedRow, Binding, AloneWith
  <2>6. PoolOnRecord'
    BY <1>0, <1>2, <2>1 DEF PoolOnRecord
  <2> QED BY <2>2, <2>3, <2>4, <2>5, <2>6
<1> QED BY <1>0, <1>1, <1>2

LEMMA RecordAllocationKeeps ==
  ASSUME AddressTypeOK, AddrInv, NEW c \in Conns, RecordAllocation(c)
  PROVE  AddrInv'
<1> USE DEF AddrInv, AddressTypeOK, Goto, Using, Stages, LoggedIn, Holds, Granted, UserOf
<1> DEFINE u == UserOf[c]  ip == has[c].ip
<1>1. /\ hs[c] = "record" /\ u \in Users /\ row[u].state = "yes" /\ row[u].mode # "fixed" /\ ip \in Net
  BY DEF RecordAllocation, LoginsAsRows
<1>2. pool[ip] = u
  BY <1>1 DEF HeldInPool, Creation, Binding, FixedRow
<1>3. admin.pc \in {"insert", "unhold", "bind"} => admin.ip # ip
  BY <1>1, <1>2, Parameters DEF Creation
<1>4. /\ hs'[c] = "register" /\ \A d \in Conns \ {c} : hs'[d] = hs[d]
      /\ \/ alloc'[ip] = [user |-> u, active |-> TRUE, lease |-> "none"]
         \/ (alloc'[ip] = alloc[ip] /\ ip \in torn')
      /\ \A a \in Net \ {ip} : alloc'[a] = alloc[a]
      /\ torn \subseteq torn'
      /\ UNCHANGED <<scene, row, pool, next, index, has, cleaner, admin, crashes>>
  BY <1>1 DEF RecordAllocation, Record, Unwritten
<1>5. LoginsAsRows'
  BY <1>1, <1>4 DEF LoginsAsRows
<1>6. FreshAlone'
  <2> SUFFICES ASSUME NEW d \in Conns, Fresh(d)' PROVE AloneWith(d)'
    BY DEF FreshAlone
  <2>1. Fresh(d) /\ AloneWith(d) /\ has[d].ip \in Net
    BY <1>1, <1>4 DEF Fresh, FreshAlone, LoginsAsRows
  <2>2. d # c => has[d].ip # ip
    BY <1>1, <2>1 DEF AloneWith
  <2> QED BY <1>1, <1>4, <2>1, <2>2 DEF AloneWith, FixedRow
<1>7. ActiveInPool' /\ PoolOnRecord'
  BY <1>1, <1>2, <1>4 DEF ActiveInPool, Stale, PoolOnRecord
<1>8. HeldInPool' /\ FixedInPool' /\ OnlineInIndex'
  BY <1>1, <1>4 DEF HeldInPool, FixedInPool, OnlineInIndex, FixedRow, Binding
<1>9. Creation'
  BY <1>3, <1>4 DEF Creation, FixedRow
<1> QED BY <1>4, <1>5, <1>6, <1>7, <1>8, <1>9

LEMMA RegisterIPKeeps ==
  ASSUME AddressTypeOK, AddrInv, NEW c \in Conns, RegisterIP(c)
  PROVE  AddrInv'
<1>0. NoSharedAddress
  BY HeldApart
<1> USE DEF AddrInv, AddressTypeOK, Goto, Using, Stages, LoggedIn, Holds, Granted, RegisterIP, UserOf
<1>1. LoginsAsRows'
  BY DEF LoginsAsRows
<1>2. FreshAlone'
  BY DEF FreshAlone, Fresh, AloneWith, FixedRow
<1>3. ActiveInPool' /\ PoolOnRecord'
  BY DEF ActiveInPool, Stale, PoolOnRecord
<1>4. HeldInPool' /\ FixedInPool' /\ Creation'
  BY DEF HeldInPool, FixedInPool, Creation, FixedRow, Binding
<1>5. OnlineInIndex'
  BY <1>0 DEF OnlineInIndex, NoSharedAddress, LoginsAsRows
<1> QED BY <1>1, <1>2, <1>3, <1>4, <1>5

LEMMA RegisterVPNKeeps ==
  ASSUME AddressTypeOK, AddrInv, NEW c \in Conns, RegisterVPN(c)
  PROVE  AddrInv'
<1>0. NoSharedAddress
  BY HeldApart
<1> USE DEF AddrInv, AddressTypeOK, Goto, Using, Stages, LoggedIn, Holds, Granted, RegisterVPN, UserOf
<1>1. LoginsAsRows'
  BY DEF LoginsAsRows
<1>2. FreshAlone'
  BY DEF FreshAlone, Fresh, AloneWith, FixedRow
<1>3. ActiveInPool' /\ PoolOnRecord'
  BY DEF ActiveInPool, Stale, PoolOnRecord
<1>4. HeldInPool' /\ FixedInPool' /\ Creation'
  BY DEF HeldInPool, FixedInPool, Creation, FixedRow, Binding
<1>5. OnlineInIndex'
  BY <1>0 DEF OnlineInIndex, NoSharedAddress, LoginsAsRows
<1> QED BY <1>1, <1>2, <1>3, <1>4, <1>5

(* The end of a session. *)
LEMMA LeaveKeeps ==
  ASSUME AddressTypeOK, AddrInv, NEW c \in Conns, Leave(c)
  PROVE  AddrInv'
<1> USE DEF AddrInv, AddressTypeOK, Goto, Using, Stages, LoggedIn, Holds, Granted, Leave, UserOf
<1>1. /\ hs'[c] \in {"out", "pool", "lease"} /\ hs[c] = "online"
      /\ hs'[c] = "pool" => has[c].mode = "session"
      /\ hs'[c] = "lease" => has[c].mode = "lease"
      /\ \A d \in Conns \ {c} : hs'[d] = hs[d]
  <2>1. Leaving(c) = IF has[c].mode = "fixed" THEN "out"
                     ELSE IF has[c].mode = "session" THEN "pool" ELSE "lease"
    BY LeavingIs
  <2> QED BY <2>1 DEF HasType, Modes
<1>2. LoginsAsRows'
  BY <1>1 DEF LoginsAsRows
<1>3. FreshAlone'
  <2> SUFFICES ASSUME NEW d \in Conns, Fresh(d)' PROVE AloneWith(d)'
    BY DEF FreshAlone
  <2>1. Fresh(d) /\ AloneWith(d)
    BY <1>1 DEF Fresh, FreshAlone
  <2> QED BY <1>1, <2>1 DEF AloneWith, FixedRow
<1>4. ActiveInPool' /\ HeldInPool' /\ FixedInPool' /\ Creation'
  BY <1>1 DEF ActiveInPool, Stale, HeldInPool, FixedInPool, Creation, FixedRow, Binding
<1>5. PoolOnRecord' /\ OnlineInIndex'
  BY <1>1 DEF PoolOnRecord, OnlineInIndex
<1> QED BY <1>2, <1>3, <1>4, <1>5

LEMMA ReleaseOnDisconnectKeeps ==
  ASSUME AddressTypeOK, AddrInv, NEW c \in Conns, ReleaseOnDisconnect(c)
  PROVE  AddrInv'
<1> USE DEF AddrInv, AddressTypeOK, Goto, Using, LoggedIn, Holds, Granted, UserOf
<1> DEFINE ip == has[c].ip
<1>0. /\ hs[c] \in Stages /\ Release(hs[c], ip)
      /\ hs'[c] = IF hs[c] = "pool" THEN "db" ELSE IF hs[c] = "db" THEN "index" ELSE "out"
      /\ \A d \in Conns \ {c} : hs'[d] = hs[d]
      /\ UNCHANGED <<scene, row, next, has, cleaner, admin, crashes>>
      /\ torn \subseteq torn'
  BY AfterIs DEF ReleaseOnDisconnect, Release, Unwritten
<1>1. Fresh(c) /\ ip \in Net /\ UserOf[c] \in Users /\ row[UserOf[c]].mode = "session"
  BY <1>0 DEF LoginsAsRows, Fresh, Stages, HasType, Modes
<1>2. AloneWith(c)
  BY <1>1 DEF FreshAlone
<1>3. LoginsAsRows'
  BY <1>0 DEF LoginsAsRows, Stages
<1>4. ASSUME NEW d \in Conns, Fresh(d)' PROVE Fresh(d) /\ AloneWith(d)
  BY <1>0, <1>4 DEF Fresh, FreshAlone, Stages
<1>p. /\ \A a \in Net \ {ip} : pool'[a] = pool[a] /\ alloc'[a] = alloc[a]
      /\ alloc'[ip].active => alloc[ip].active
  BY <1>0, <1>1 DEF Release, Released, Unwritten, AllocType
<1>5. FixedInPool' /\ Creation'
  BY <1>0, <1>p, <1>2 DEF FixedInPool, Creation, AloneWith, FixedRow, Binding
<1>6. CASE hs[c] = "pool"
  <2>1. pool' = [pool EXCEPT ![ip] = NoUser] /\ UNCHANGED <<alloc, index>> /\ hs'[c] = "db"
    BY <1>0, <1>6 DEF Release
  <2>2. FreshAlone'
    BY <1>0, <1>1, <1>4, <2>1 DEF FreshAlone, AloneWith, Fresh, FixedRow, Stages
  <2>3. ActiveInPool' /\ PoolOnRecord'
    BY <1>0, <1>1, <1>6, <2>1 DEF ActiveInPool, Stale, PoolOnRecord
  <2>4. HeldInPool'
    BY <1>0, <1>1, <1>2, <2>1 DEF HeldInPool, AloneWith, Binding, Stages
  <2>5. OnlineInIndex'
    BY <1>0, <2>1 DEF OnlineInIndex
  <2> QED BY <1>0, <1>3, <1>5, <2>2, <2>3, <2>4, <2>5
<1>7. CASE hs[c] = "db"
  <2>1. /\ UNCHANGED <<pool, index>> /\ hs'[c] = "index" /\ pool[ip] = NoUser
        /\ \A a \in Net \ {ip} : alloc'[a] = alloc[a]
        /\ \/ ~alloc'[ip].active
           \/ (alloc'[ip] = alloc[ip] /\ ip \in torn')
    <3>1. UNCHANGED <<pool, index>> /\ hs'[c] = "index" /\ pool[ip] = NoUser
      BY <1>0, <1>2, <1>7 DEF Release, AloneWith
    <3>2. CASE alloc' = [alloc EXCEPT ![ip] = Released(@)]
      <4>1. \A a \in Net \ {ip} : alloc'[a] = alloc[a]
        BY <3>2
      <4>2. alloc'[ip] = Released(alloc[ip]) /\ alloc[ip] \in AllocType
        BY <1>1, <3>2
      <4>3. ~alloc'[ip].active
        BY <4>2 DEF Released, AllocType
      <4> QED BY <3>1, <4>1, <4>3
    <3>3. CASE Unwritten(ip)
      BY <3>1, <3>3 DEF Unwritten
    <3> QED BY <1>0, <1>7, <3>2, <3>3 DEF Release
  <2>2. FreshAlone'
    <3> SUFFICES ASSUME NEW d \in Conns, Fresh(d)' PROVE AloneWith(d)'
      BY DEF FreshAlone
    <3>1. Fresh(d) /\ AloneWith(d) /\ has[d].ip \in Net
      BY <1>4 DEF LoginsAsRows, Fresh, Stages
    <3>2. d # c => has[d].ip # ip /\ hs'[d] = hs[d]
      BY <1>0, <1>2, <3>1 DEF AloneWith, Fresh, Stages
    <3> QED BY <1>0, <1>2, <1>7, <2>1, <3>1, <3>2 DEF AloneWith, FixedRow, Stages
  <2>s. alloc'[ip].active => (Stale(ip))' /\ alloc'[ip].user \in Users
    BY <1>0, <1>1, <1>2, <2>1 DEF Stale, AloneWith, LoginsAsRows, Stages
  <2>3. ActiveInPool'
    BY <1>0, <1>1, <1>7, <2>1, <2>s DEF ActiveInPool, Stale
  <2>r. PoolOnRecord'
    BY <1>0, <1>1, <1>7, <2>1 DEF PoolOnRecord
  <2>4. HeldInPool' /\ OnlineInIndex'
    BY <1>0, <2>1 DEF HeldInPool, OnlineInIndex, Binding
  <2> QED BY <1>0, <1>3, <1>5, <2>2, <2>3, <2>r, <2>4
<1>8. CASE hs[c] = "index"
  <2>1. index' = [index EXCEPT ![ip] = NoUser] /\ UNCHANGED <<pool, alloc>> /\ hs'[c] = "out"
    BY <1>0, <1>8 DEF Release
  <2>2. FreshAlone'
    BY <1>0, <1>4, <2>1 DEF FreshAlone, AloneWith, Fresh, FixedRow, Stages
  <2>3. ActiveInPool' /\ PoolOnRecord' /\ HeldInPool'
    BY <1>0, <1>8, <2>1 DEF ActiveInPool, Stale, PoolOnRecord, HeldInPool, Binding
  <2>4. OnlineInIndex'
    BY <1>0, <1>1, <1>2, <2>1 DEF OnlineInIndex, AloneWith
  <2> QED BY <1>0, <1>3, <1>5, <2>2, <2>3, <2>4
<1> QED BY <1>0, <1>6, <1>7, <1>8 DEF Stages

(* The creation of an account. *)
LEMMA CreateAutoKeeps ==
  ASSUME AddressTypeOK, AddrInv, NEW u \in Users, CreateAuto(u)
  PROVE  AddrInv'
<1> USE DEF AddrInv, AddressTypeOK, Using, Stages, LoggedIn, Holds, Granted, UserOf
<1>0. /\ admin.pc = "idle" /\ row[u].state = "no"
      /\ UNCHANGED <<scene, row, alloc, index, hs, has, cleaner, crashes, torn>>
  BY DEF CreateAuto
<1>1. next \in Nat /\ \A d \in Conns : Fresh(d) => has[d].ip \in Nat
  <2>1. next \in Nat
    BY Parameters DEF Net, Past
  <2>2. \A d \in Conns : Fresh(d) => has[d].ip \in Nat
    BY DEF LoginsAsRows, Fresh, Net
  <2> QED BY <2>1, <2>2
<1>2. LoginsAsRows' /\ OnlineInIndex'
  BY <1>0 DEF LoginsAsRows, OnlineInIndex
<1>3. CASE Exhausted /\ UNCHANGED admin
  <2>1. next' \in Nat /\ next' >= next /\ pool' = pool
    BY <1>3, ExhaustedTypes, Parameters DEF Exhausted, Net, Past
  <2>2. FreshAlone'
    <3> SUFFICES ASSUME NEW d \in Conns, Fresh(d) PROVE AloneWith(d)'
      BY <1>0 DEF FreshAlone, Fresh
    <3>1. AloneWith(d) /\ has[d].ip < next'
      BY <1>1, <2>1 DEF FreshAlone, AloneWith
    <3> QED BY <1>0, <1>3, <2>1, <3>1 DEF AloneWith, FixedRow
  <2>3. ActiveInPool' /\ HeldInPool' /\ FixedInPool' /\ PoolOnRecord'
    BY <1>0, <1>3, <2>1, StaleStays DEF ActiveInPool, HeldInPool, FixedInPool, PoolOnRecord, FixedRow, Binding
  <2>4. Creation'
    BY <1>0, <1>3 DEF Creation
  <2> QED BY <1>0, <1>2, <2>2, <2>3, <2>4
<1>4. ASSUME NEW ip, ip = Min(Candidates), Candidates # {},
             pool' = [pool EXCEPT ![ip] = Placeholder], next' = ip + 1,
             Start("insert", "create", u, ip, NoIP, "fixed")
      PROVE  AddrInv'
  <2>1. ip \in Net /\ ip >= next /\ ip # Gateway /\ pool[ip] \in {NoUser, Placeholder}
    BY <1>4, CandidateIs
  <2>2. /\ ~alloc[ip].active
        /\ \A d \in Conns : hs[d] \in Using => has[d].ip # ip
        /\ \A v \in Users : FixedRow(v) => row[v].ip # ip
    BY <2>1, GrantedIsNew
  <2>3. ip \in Nat /\ next' \in Nat /\ ip < next' /\ next <= next'
    BY <1>1, <1>4, <2>1 DEF Net
  <2>4. admin'.pc = "insert" /\ admin'.op = "create" /\ admin'.user = u /\ admin'.ip = ip
    BY <1>4 DEF Start
  <2>5. FreshAlone'
    <3> SUFFICES ASSUME NEW d \in Conns, Fresh(d) PROVE AloneWith(d)'
      BY <1>0 DEF FreshAlone, Fresh
    <3>1. AloneWith(d) /\ has[d].ip # ip
      BY <2>2 DEF FreshAlone, Fresh
    <3>2. has[d].ip < next'
      BY <1>1, <2>3, <3>1 DEF AloneWith
    <3> QED BY <1>0, <1>4, <2>1, <2>4, <3>1, <3>2 DEF AloneWith, FixedRow
  <2>s. \A a \in Net : Stale(a) => (Stale(a))'
    <3> SUFFICES ASSUME NEW a \in Net, Stale(a) PROVE (Stale(a))'
      OBVIOUS
    <3>1. a # ip
      BY <1>1, <2>1, <2>3 DEF Stale, Net
    <3> QED BY <1>0, <1>4, <2>1, <2>3, <3>1, StaleStays
  <2>6. ActiveInPool' /\ HeldInPool'
    BY <1>0, <1>4, <2>1, <2>2, <2>4, <2>s DEF ActiveInPool, HeldInPool, Binding
  <2>7. FixedInPool'
    BY <1>0, <1>4, <2>1, <2>2, <2>4 DEF FixedInPool, FixedRow, Binding
  <2>8. Creation'
    BY <1>0, <1>4, <2>1, <2>2, <2>3, <2>4 DEF Creation
  <2>9. PoolOnRecord'
    BY <1>0, <1>4, <2>1, <2>2, <2>4 DEF PoolOnRecord
  <2> QED BY <1>0, <1>2, <2>5, <2>6, <2>7, <2>8, <2>9
<1> QED BY <1>3, <1>4 DEF CreateAuto, Grant

LEMMA InsertRowKeeps ==
  ASSUME AddressTypeOK, AddrInv, InsertRow
  PROVE  AddrInv'
<1> USE DEF AddrInv, AddressTypeOK, Using, Stages, LoggedIn, Holds, Granted, UserOf
<1> DEFINE u == admin.user  ip == admin.ip
<1>0. /\ admin.pc = "insert" /\ u \in Users /\ ip \in Net /\ ip # Gateway /\ row[u].state = "no"
      /\ pool[ip] = Placeholder /\ ip < next /\ ~alloc[ip].active /\ admin.op = "create"
      /\ UNCHANGED <<scene, alloc, next, index, hs, has, cleaner, crashes, torn>>
  BY DEF InsertRow, Creation
<1>1. /\ \A d \in Conns : Fresh(d) => has[d].ip # ip
      /\ \A v \in Users : FixedRow(v) => row[v].ip # ip
      /\ \A d \in Conns : LoggedIn(d) => UserOf[d] # u
  BY <1>0, Parameters DEF LoginsAsRows, FreshAlone, FixedInPool, AloneWith, Binding
<1>2. OnlineInIndex'
  BY <1>0 DEF OnlineInIndex
<1>3. CASE /\ row' = [row EXCEPT ![u] = [state |-> "yes", mode |-> "fixed", ip |-> ip]]
           /\ ThenAdmin("unhold") /\ UNCHANGED pool
  <2>1. admin'.pc = "unhold" /\ admin'.op = "create" /\ admin'.user = u /\ admin'.ip = ip
    BY <1>0, <1>3 DEF ThenAdmin, AdminType
  <2>2. /\ \A v \in Users \ {u} : row'[v] = row[v]
        /\ row'[u] = [state |-> "yes", mode |-> "fixed", ip |-> ip]
    BY <1>0, <1>3
  <2>3. LoginsAsRows'
    BY <1>0, <1>1, <2>2 DEF LoginsAsRows
  <2>4. FreshAlone'
    <3> SUFFICES ASSUME NEW d \in Conns, Fresh(d) PROVE AloneWith(d)'
      BY <1>0 DEF FreshAlone, Fresh
    <3>1. AloneWith(d) /\ has[d].ip # ip
      BY <1>1 DEF FreshAlone
    <3> QED BY <1>0, <1>3, <2>1, <2>2, <3>1 DEF AloneWith, FixedRow
  <2>5. ActiveInPool' /\ HeldInPool'
    BY <1>0, <1>3, <2>1 DEF ActiveInPool, Stale, HeldInPool, Binding
  <2>6. FixedInPool'
    BY <1>0, <1>3, <2>1, <2>2 DEF FixedInPool, FixedRow, Binding
  <2>7. Creation'
    BY <1>0, <1>3, <2>1, <2>2 DEF Creation, FixedRow
  <2>8. PoolOnRecord'
    BY <1>0, <1>3, <2>1 DEF PoolOnRecord
  <2> QED BY <1>0, <1>2, <2>3, <2>4, <2>5, <2>6, <2>7, <2>8
<1>4. CASE pool' = [pool EXCEPT ![ip] = NoUser] /\ ThenAdmin("idle") /\ UNCHANGED row
  <2>1. admin'.pc = "idle"
    BY <1>4 DEF ThenAdmin, Idle
  <2>2. LoginsAsRows'
    BY <1>0, <1>4 DEF LoginsAsRows
  <2>3. FreshAlone'
    <3> SUFFICES ASSUME NEW d \in Conns, Fresh(d) PROVE AloneWith(d)'
      BY <1>0 DEF FreshAlone, Fresh
    <3>1. AloneWith(d) /\ has[d].ip # ip
      BY <1>1 DEF FreshAlone
    <3> QED BY <1>0, <1>4, <2>1, <3>1 DEF AloneWith, FixedRow
  <2>4. ActiveInPool'
    BY <1>0, <1>4, Parameters DEF ActiveInPool, Stale
  <2>5. HeldInPool'
    BY <1>0, <1>4, <2>1, Parameters DEF HeldInPool, LoginsAsRows, Binding
  <2>6. FixedInPool'
    BY <1>0, <1>1, <1>4 DEF FixedInPool, FixedRow, Binding
  <2>7. Creation' /\ PoolOnRecord'
    BY <1>0, <1>4, <2>1 DEF Creation, PoolOnRecord
  <2> QED BY <1>0, <1>2, <2>2, <2>3, <2>4, <2>5, <2>6, <2>7
<1> QED BY <1>3, <1>4 DEF InsertRow

LEMMA BindKeeps ==
  ASSUME AddressTypeOK, AddrInv, Bind
  PROVE  AddrInv'
<1> USE DEF AddrInv, AddressTypeOK, Using, Stages, LoggedIn, Holds, Granted, UserOf
<1> DEFINE u == admin.user  ip == admin.ip
<1>0. /\ admin.pc = "bind" /\ u \in Users /\ ip \in Net /\ ip # Gateway /\ admin.op = "create"
      /\ FixedRow(u) /\ row[u].ip = ip /\ pool[ip] = NoUser /\ ~alloc[ip].active
  BY DEF Bind, Creation
<1>1. /\ pool' = [pool EXCEPT ![ip] = u] /\ ThenAdmin("record")
      /\ UNCHANGED <<scene, row, alloc, next, index, hs, has, cleaner, crashes, torn>>
  BY <1>0 DEF Bind, Binds
<1>2. admin'.pc = "record" /\ admin'.op = "create" /\ admin'.user = u /\ admin'.ip = ip
  BY <1>0, <1>1 DEF ThenAdmin, AdminType
<1>3. \A d \in Conns : Fresh(d) => has[d].ip # ip
  BY <1>0 DEF FreshAlone, AloneWith
<1>4. \A d \in Conns : LoggedIn(d) /\ UserOf[d] = u /\ hs[d] \in Using => has[d].ip = ip
  BY <1>0 DEF LoginsAsRows, FixedRow
<1>5. LoginsAsRows' /\ OnlineInIndex'
  BY <1>1 DEF LoginsAsRows, OnlineInIndex
<1>6. FreshAlone'
  <2> SUFFICES ASSUME NEW d \in Conns, Fresh(d) PROVE AloneWith(d)'
    BY <1>1 DEF FreshAlone, Fresh
  <2>1. AloneWith(d) /\ has[d].ip # ip
    BY <1>3 DEF FreshAlone
  <2> QED BY <1>0, <1>1, <1>2, <2>1 DEF AloneWith, FixedRow
<1>7. ActiveInPool'
  BY <1>0, <1>1 DEF ActiveInPool, Stale
<1>8. HeldInPool'
  <2> SUFFICES ASSUME NEW d \in Conns, Holds(d) \/ hs[d] = "take"
               PROVE  pool'[has[d].ip] = UserOf[d]
    BY <1>1 DEF HeldInPool
  <2>1. UserOf[d] \in Users /\ has[d].ip \in Net
    BY DEF LoginsAsRows
  <2>2. CASE UserOf[d] = u
    BY <1>0, <1>1, <1>4, <2>1, <2>2
  <2>3. CASE UserOf[d] # u
    <3>1. pool[has[d].ip] = UserOf[d]
      BY <2>3 DEF HeldInPool, Binding
    <3> QED BY <1>0, <1>1, <2>1, <3>1, Parameters
  <2> QED BY <2>2, <2>3
<1>9. FixedInPool'
  BY <1>0, <1>1, <1>2, Parameters DEF FixedInPool, FixedRow, Binding
<1>10. Creation'
  BY <1>0, <1>1, <1>2 DEF Creation, FixedRow
<1>11. PoolOnRecord'
  BY <1>0, <1>1, <1>2 DEF PoolOnRecord
<1> QED BY <1>1, <1>5, <1>6, <1>7, <1>8, <1>9, <1>10, <1>11

LEMMA UnholdKeeps ==
  ASSUME AddressTypeOK, AddrInv, Unhold
  PROVE  AddrInv'
<1> USE DEF AddrInv, AddressTypeOK, Using, Stages, LoggedIn, Holds, Granted, UserOf
<1> DEFINE ip == admin.ip
<1>1. /\ admin.pc = "unhold" /\ ip \in Net /\ pool[ip] = Placeholder /\ ~alloc[ip].active
      /\ pool' = [pool EXCEPT ![ip] = NoUser]
      /\ admin'.pc = "bind" /\ admin'.user = admin.user /\ admin'.ip = ip /\ admin'.op = admin.op
      /\ UNCHANGED <<scene, row, alloc, next, index, hs, has, cleaner, crashes, torn>>
  BY DEF Unhold, Creation, ThenAdmin, AdminType
<1>2. \A u \in Users : Binding(u) => (Binding(u))'
  BY <1>1 DEF Binding
<1>3. LoginsAsRows' /\ OnlineInIndex'
  BY <1>1 DEF LoginsAsRows, OnlineInIndex
<1>4. FreshAlone'
  BY <1>1 DEF FreshAlone, Fresh, AloneWith, FixedRow
<1>5. ActiveInPool' /\ PoolOnRecord'
  BY <1>1 DEF ActiveInPool, Stale, PoolOnRecord
<1>6. HeldInPool'
  <2> SUFFICES ASSUME NEW d \in Conns, Holds(d) \/ hs[d] = "take"
               PROVE  pool'[has[d].ip] = UserOf[d] \/ (Binding(UserOf[d]))'
    BY <1>1 DEF HeldInPool
  <2>1. UserOf[d] \in Users /\ has[d].ip \in Net
    BY DEF LoginsAsRows
  <2>2. pool[has[d].ip] = UserOf[d] \/ Binding(UserOf[d])
    BY DEF HeldInPool
  <2> QED BY <1>1, <1>2, <2>1, <2>2, Parameters
<1>7. FixedInPool'
  BY <1>1, Parameters DEF FixedInPool, FixedRow, Binding
<1>8. Creation'
  BY <1>1 DEF Creation, FixedRow
<1> QED BY <1>1, <1>3, <1>4, <1>5, <1>6, <1>7, <1>8

LEMMA AdminRecordsKeeps ==
  ASSUME AddressTypeOK, AddrInv, AdminRecords
  PROVE  AddrInv'
<1> USE DEF AddrInv, AddressTypeOK, Using, Stages, LoggedIn, Holds, Granted, UserOf
<1> DEFINE u == admin.user  ip == admin.ip
<1>1. /\ admin.pc = "record" /\ u \in Users /\ row[u].state = "yes" /\ ip \in Net /\ pool[ip] = u
  BY DEF AdminRecords, Creation, FixedRow
<1>2. /\ \/ alloc'[ip] = [user |-> u, active |-> TRUE, lease |-> "none"]
         \/ (alloc'[ip] = alloc[ip] /\ ip \in torn')
      /\ \A a \in Net \ {ip} : alloc'[a] = alloc[a]
      /\ torn \subseteq torn'
      /\ admin'.pc = "register" /\ admin'.user = u /\ admin'.ip = ip /\ admin'.op = admin.op
      /\ UNCHANGED <<scene, row, pool, next, index, hs, has, cleaner, crashes>>
  <2>1. admin' = [admin EXCEPT !.pc = "register"]
    BY DEF AdminRecords, ThenAdmin
  <2>2. /\ \/ alloc'[ip] = [user |-> u, active |-> TRUE, lease |-> "none"]
            \/ (alloc'[ip] = alloc[ip] /\ ip \in torn')
        /\ \A a \in Net \ {ip} : alloc'[a] = alloc[a]
        /\ torn \subseteq torn'
    BY <1>1 DEF AdminRecords, Record, Unwritten
  <2> QED BY <2>1, <2>2 DEF AdminRecords, AdminType
<1>3. LoginsAsRows' /\ OnlineInIndex'
  BY <1>2 DEF LoginsAsRows, OnlineInIndex
<1>4. FreshAlone'
  <2> SUFFICES ASSUME NEW d \in Conns, Fresh(d) PROVE AloneWith(d)'
    BY <1>2 DEF FreshAlone, Fresh
  <2>1. AloneWith(d) /\ has[d].ip \in Net
    BY DEF Fresh, FreshAlone, LoginsAsRows
  <2>2. has[d].ip # ip
    BY <1>1, <2>1 DEF AloneWith
  <2> QED BY <1>1, <1>2, <2>1, <2>2 DEF AloneWith, FixedRow
<1>5. ActiveInPool' /\ PoolOnRecord'
  BY <1>1, <1>2 DEF ActiveInPool, Stale, PoolOnRecord
<1>6. HeldInPool' /\ FixedInPool'
  BY <1>1, <1>2 DEF HeldInPool, FixedInPool, FixedRow, Binding
<1>7. Creation'
  BY <1>1, <1>2 DEF Creation, FixedRow
<1> QED BY <1>2, <1>3, <1>4, <1>5, <1>6, <1>7

LEMMA AdminRegistersKeeps ==
  ASSUME AddressTypeOK, AddrInv, AdminRegisters
  PROVE  AddrInv'
<1> USE DEF AddrInv, AddressTypeOK, Using, Stages, LoggedIn, Holds, Granted, UserOf
<1>1. /\ admin.pc = "register" /\ admin.ip \in Net /\ admin.user \in Users
      /\ pool[admin.ip] = admin.user /\ index' = [index EXCEPT ![admin.ip] = admin.user]
      /\ admin'.pc = "idle"
      /\ UNCHANGED <<scene, row, alloc, pool, next, hs, has, cleaner, crashes, torn>>
  BY DEF AdminRegisters, Creation, ThenAdmin, Idle
<1>2. LoginsAsRows'
  BY <1>1 DEF LoginsAsRows
<1>3. FreshAlone'
  BY <1>1 DEF FreshAlone, Fresh, AloneWith, FixedRow
<1>4. ActiveInPool' /\ PoolOnRecord' /\ Creation'
  BY <1>1 DEF ActiveInPool, Stale, PoolOnRecord, Creation
<1>5. HeldInPool' /\ FixedInPool'
  BY <1>1 DEF HeldInPool, FixedInPool, FixedRow, Binding
<1>6. OnlineInIndex'
  BY <1>1 DEF OnlineInIndex, HeldInPool, Binding
<1> QED BY <1>1, <1>2, <1>3, <1>4, <1>5, <1>6

(* A restart: the pool is rebuilt from the records, where it agreed.       *)
LEMMA RestartKeeps ==
  ASSUME AddressTypeOK, AddrInv, Restart
  PROVE  AddrInv'
<1>1. /\ \A c \in Conns : hs'[c] \in {"none", "out"}
      /\ admin'.pc = "idle" /\ cleaner'.pc = "idle" /\ row' = row
      /\ \A ip \in Net : alloc'[ip] = Restored[ip]
                         \/ (alloc'[ip] = alloc[ip] /\ ~alloc[ip].active /\ ip \in torn')
      /\ pool' = PoolOf(Restored)
  BY DEF Restart, Idle, CleanerIdle, Unrecorded
<1>2. ASSUME NEW u \in Users, FixedRow(u)
      PROVE  /\ row[u].ip \in Net
             /\ pool[row[u].ip] = u \/ (pool[row[u].ip] \notin Users /\ admin.user = u)
  BY <1>2, Parameters DEF AddrInv, FixedInPool, Creation, Binding
<1>3. ASSUME NEW u \in Users, NEW v \in Users, FixedRow(u), FixedRow(v), row[u].ip = row[v].ip
      PROVE  u = v
  BY <1>2, <1>3
<1>4. ASSUME NEW u \in Users, FixedRow(u), alloc[row[u].ip].active
      PROVE  alloc[row[u].ip].user = u
  <2>1. ASSUME NEW c \in Conns, hs[c] = "db" PROVE has[c].ip # row[u].ip
    <3>1. Fresh(c)
      BY <2>1 DEF AddrInv, LoginsAsRows, LoggedIn, Fresh, Stages, AddressTypeOK, HasType, Modes
    <3> QED BY <1>4, <3>1 DEF AddrInv, FreshAlone, AloneWith
  <2>2. ~Stale(row[u].ip)
    BY <1>2, <1>4, Parameters DEF Stale, AddrInv, FixedInPool, Creation, Binding
  <2> QED BY <1>2, <1>4, <2>1, <2>2 DEF AddrInv, ActiveInPool
<1>5. ASSUME NEW ip \in Net, FixedAt(ip) # {}
      PROVE  Min(FixedAt(ip)) \in Users /\ FixedRow(Min(FixedAt(ip))) /\ row[Min(FixedAt(ip))].ip = ip
  BY <1>5, FixedAtIs DEF FixedAt, FixedRow
<1>6. LoginsAsRows' /\ FreshAlone' /\ HeldInPool' /\ OnlineInIndex'
  BY <1>1 DEF LoginsAsRows, LoggedIn, FreshAlone, Fresh, Stages, HeldInPool, Holds, Granted, OnlineInIndex
<1>7. ActiveInPool'
  <2> SUFFICES ASSUME NEW ip \in Net, Restored[ip].active
               PROVE  Restored[ip].user \in Users /\ PoolOf(Restored)[ip] = Restored[ip].user
    BY <1>1 DEF ActiveInPool
  <2>1. Restored[ip].user \in Users
    BY <1>5 DEF Restored, Unrecorded, AddrInv, ActiveInPool
  <2> QED BY <2>1 DEF PoolOf
<1>8. FixedInPool'
  <2> SUFFICES ASSUME NEW u \in Users, FixedRow(u)
               PROVE  row[u].ip \in Net /\ PoolOf(Restored)[row[u].ip] = u
    BY <1>1 DEF FixedInPool, FixedRow
  <2> DEFINE ip == row[u].ip
  <2>1. ip \in Net /\ u \in FixedAt(ip)
    BY <1>2 DEF FixedAt, FixedRow
  <2>2. Min(FixedAt(ip)) = u
    BY <1>3, <1>5, <2>1
  <2>3. Restored[ip].active /\ Restored[ip].user = u
    BY <1>4, <2>1, <2>2 DEF Restored, Unrecorded
  <2> QED BY <2>1, <2>3 DEF PoolOf
<1>9. PoolOnRecord'
  BY <1>1 DEF PoolOnRecord, PoolOf
<1>10. Creation'
  BY <1>1 DEF Creation
<1> QED BY <1>1, <1>6, <1>7, <1>8, <1>9, <1>10 DEF AddrInv

(* The first start, with the rows of AccountsAssumption. *)
LEMMA InitKeeps == Init => AddrInv
<1> SUFFICES ASSUME Init PROVE AddrInv
  OBVIOUS
<1> DEFINE Owner(ip) == {u \in Users : row[u].state = "yes" /\ row[u].ip = ip}
<1>1. /\ \A c \in Conns : hs[c] = "none"
      /\ admin.pc = "idle" /\ cleaner.pc = "idle"
      /\ alloc = [ip \in Net |-> IF Owner(ip) = {} THEN Unused
                                 ELSE [user |-> Min(Owner(ip)), active |-> TRUE, lease |-> "none"]]
      /\ pool = PoolOf(alloc)
  BY DEF Init, Idle, CleanerIdle
<1>2. ASSUME NEW ip, Owner(ip) # {} PROVE Min(Owner(ip)) \in Owner(ip)
  <2>1. Owner(ip) \in SUBSET Nat
    BY Parameters
  <2> QED BY <1>2, <2>1, MinIs
<1>3. LoginsAsRows /\ FreshAlone /\ HeldInPool /\ OnlineInIndex
  BY <1>1 DEF LoginsAsRows, LoggedIn, FreshAlone, Fresh, Stages, HeldInPool, Holds, Granted, OnlineInIndex
<1>4. ActiveInPool /\ PoolOnRecord
  BY <1>1, <1>2 DEF ActiveInPool, Stale, PoolOnRecord, PoolOf, Unused
<1>5. FixedInPool
  <2> SUFFICES ASSUME NEW u \in Users, FixedRow(u) PROVE row[u].ip \in Net /\ pool[row[u].ip] = u
    BY DEF FixedInPool
  <2>1. row[u].ip \in Net /\ \A v \in Users \ {u} : row[v].state = "yes" => row[v].ip # row[u].ip
    BY AccountsAssumption DEF Init, Accounts, FixedRow
  <2>2. u \in Owner(row[u].ip)
    BY DEF FixedRow
  <2>3. Min(Owner(row[u].ip)) = u
    BY <1>2, <2>1, <2>2
  <2> QED BY <1>1, <2>1, <2>2, <2>3 DEF PoolOf
<1>6. Creation
  BY <1>1 DEF Creation
<1> QED BY <1>1, <1>3, <1>4, <1>5, <1>6 DEF AddrInv

LEMMA UnchangedKeeps ==
  ASSUME AddrInv, UNCHANGED vars
  PROVE  AddrInv'
<1> USE DEF vars, Using, Stages, LoggedIn, Holds, Granted, UserOf, FixedRow, Binding
<1>1. LoginsAsRows' /\ OnlineInIndex'
  BY DEF AddrInv, LoginsAsRows, OnlineInIndex
<1>2. FreshAlone'
  BY DEF AddrInv, FreshAlone, Fresh, AloneWith
<1>3. ActiveInPool' /\ PoolOnRecord'
  BY DEF AddrInv, ActiveInPool, Stale, PoolOnRecord
<1>4. HeldInPool' /\ FixedInPool' /\ Creation'
  BY DEF AddrInv, HeldInPool, FixedInPool, Creation
<1> QED BY <1>1, <1>2, <1>3, <1>4 DEF AddrInv

(* No step changes the scenario. *)
LEMMA SceneStays == [Next]_vars => scene' = scene
<1> SUFFICES ASSUME [Next]_vars PROVE scene' = scene
  OBVIOUS
<1>1. ASSUME NEW c \in Conns, Handshake(c) PROVE scene' = scene
  BY <1>1 DEF Handshake, Authenticate, EnsureFixed, EnsureSession, EnsureLease, TakeLeased, Allocate,
              UpdateRow, RecordAllocation, RegisterIP, RegisterVPN, Rejected
<1>2. ASSUME NEW c \in Conns, Session(c) PROVE scene' = scene
  BY <1>2 DEF Session, Leave, ReleaseOnDisconnect, LeaseOnDisconnect
<1>3. ASSUME Cleaner PROVE scene' = scene
  BY <1>3 DEF Cleaner, CleanerLists, CleanerExpires, CleanerReleases
<1>4. ASSUME Administrator PROVE scene' = scene
  BY <1>4 DEF Administrator, CreateAuto, Delete, CreateManual, CreateDynamic, Patch, InsertRow, Unhold, Bind,
              AdminRecords, AdminRegisters, AdminReleases, Erase, Write, Kick, Kicked
<1> QED BY <1>1, <1>2, <1>3, <1>4 DEF Next, LeaseRunsOut, Restart, vars

LEMMA CalmKept == AddressTypeOK /\ CalmInv /\ [Next]_vars => CalmInv'
<1> SUFFICES ASSUME AddressTypeOK, OnlyCreates, AddrInv, [Next]_vars PROVE AddrInv'
  <2>1. ASSUME [Next]_vars PROVE OnlyCreates' <=> OnlyCreates
    BY <2>1, SceneStays DEF OnlyCreates, Cleaning, AdminOps
  <2> QED BY <2>1 DEF CalmInv
<1>1. ASSUME NEW c \in Conns, Handshake(c) PROVE AddrInv'
  BY <1>1, AuthenticateKeeps, EnsureFixedKeeps, EnsureSessionKeeps, EnsureLeaseKeeps, TakeLeasedKeeps,
     AllocateKeeps, UpdateRowKeeps, RecordAllocationKeeps, RegisterIPKeeps, RegisterVPNKeeps,
     RejectedKeeps DEF Handshake
<1>2. ASSUME NEW c \in Conns, Session(c) PROVE AddrInv'
  BY <1>2, LeaveKeeps, ReleaseOnDisconnectKeeps, LeaseOnDisconnectKeeps DEF Session
<1>3. ~Cleaner
  BY DEF Cleaner, CleanerLists, CleanerExpires, CleanerReleases, OnlyCreates, AddrInv, Stages
<1>4. ASSUME Administrator PROVE AddrInv'
  <2>1. /\ \A u \in Users : ~Delete(u)
        /\ \A u \in Users, ip \in Net : ~CreateManual(u, ip)
        /\ \A u \in Users, mode \in {"session", "lease"} : ~CreateDynamic(u, mode)
        /\ \A u \in Users, mode \in Modes, ip \in Net \cup {NoIP} : ~Patch(u, mode, ip)
    BY DEF OnlyCreates, Delete, CreateManual, CreateDynamic, Patch
  <2>2. ~AdminReleases /\ ~Erase /\ ~Write /\ ~Kick /\ ~Kicked
    BY DEF AddrInv, Creation, Stages, AdminReleases, Erase, Write, Kick, Kicked
  <2> QED BY <1>4, <2>1, <2>2, CreateAutoKeeps, InsertRowKeeps, UnholdKeeps, BindKeeps,
             AdminRecordsKeeps, AdminRegistersKeeps DEF Administrator
<1> QED BY <1>1, <1>2, <1>3, <1>4, LeaseRunsOutKeeps, RestartKeeps, UnchangedKeeps DEF Next

LEMMA NobodyKept == AddressTypeOK /\ NobodyIn /\ [Next]_vars => NobodyIn'
<1> SUFFICES ASSUME AddressTypeOK, \A c \in Conns : UserOf[c] = NoUser,
                    \A c \in Conns : hs[c] \in {"none", "out"}, [Next]_vars
             PROVE  \A c \in Conns : hs'[c] \in {"none", "out"}
  BY SceneStays DEF NobodyIn, UserOf
<1>1. \A c \in Conns : ~Handshake(c)
  BY DEF Handshake, Authenticate, EnsureFixed, EnsureSession, EnsureLease, TakeLeased, Allocate,
         UpdateRow, RecordAllocation, RegisterIP, RegisterVPN, Rejected
<1>2. \A c \in Conns : ~Session(c)
  BY DEF Session, Leave, ReleaseOnDisconnect, LeaseOnDisconnect, Stages
<1>3. ASSUME Cleaner PROVE UNCHANGED hs
  BY <1>3 DEF Cleaner, CleanerLists, CleanerExpires, CleanerReleases
<1>4. ASSUME Administrator PROVE UNCHANGED hs
  BY <1>4 DEF Administrator, CreateAuto, Delete, CreateManual, CreateDynamic, Patch, InsertRow, Unhold, Bind,
              AdminRecords, AdminRegisters, AdminReleases, Erase, Write, Kick, Kicked
<1> QED BY <1>1, <1>2, <1>3, <1>4 DEF Next, LeaseRunsOut, Restart, vars

(* What the theorems below rest on. *)
LEMMA AddressesKept == Spec => [](AddressTypeOK /\ CalmInv /\ NobodyIn)
<1>1. Init => AddressTypeOK /\ CalmInv /\ NobodyIn
  BY InitTypes, InitKeeps DEF CalmInv, NobodyIn, Init
<1>2. AddressTypeOK /\ CalmInv /\ NobodyIn /\ [Next]_vars => (AddressTypeOK /\ CalmInv /\ NobodyIn)'
  BY TypesKept, CalmKept, NobodyKept
<1> QED BY <1>1, <1>2, PTL DEF Spec

----------------------------------------------------------------------------
(* EnsureVPNIP and the pool never give one address to two accounts at the  *)
(* same time, in any interleaving of logins, disconnects, leases, restarts *)
(* and creations.                                                          *)
THEOREM AddressesApart == Spec => []HeldDistinct
<1>1. AddressTypeOK /\ CalmInv /\ NobodyIn => HeldDistinct
  BY HeldApart DEF HeldDistinct, Uncontended, CalmInv, OnlyCreates, NobodyIn, NoSharedAddress, Holds, Granted
<1> QED BY <1>1, AddressesKept, PTL

(* OnRegisterIP and the unregistering of addresses outside every lock never *)
(* leave an online session without its index entry.                        *)
THEOREM OnlineFound == Spec => []OnlineIndexed
<1>1. CalmInv /\ NobodyIn => OnlineIndexed
  BY DEF OnlineIndexed, Uncontended, CalmInv, OnlyCreates, NobodyIn, AddrInv, OnlineInIndex
<1> QED BY <1>1, AddressesKept, PTL

(* Allocate, Release and bootIPPool leave a fixed account its address; as  *)
(* long as requests only create accounts (FixedInPool), also where a write *)
(* failed.                                                                 *)
THEOREM FixedKept == Spec => [](OnlyCreates => FixedReserved /\ FixedInPool)
<1>1. CalmInv => (OnlyCreates => FixedReserved /\ FixedInPool)
  BY DEF CalmInv, AddrInv, FixedInPool, FixedReserved, FixedRow, Binding
<1> QED BY <1>1, AddressesKept, PTL

(* The pool, the handshakes and ip_allocations agree, but at addresses     *)
(* whose row a failed write of RecordIPAllocation or ReleaseIPAllocation   *)
(* has left behind.                                                        *)
THEOREM PoolKept == Spec => [](OnlyCreates => PoolTrue)
<1>1. AddressTypeOK /\ CalmInv => (OnlyCreates => PoolTrue)
  <2> SUFFICES ASSUME AddressTypeOK, AddrInv PROVE PoolTrue
    BY DEF CalmInv
  <2>1. \A c \in Conns : Holds(c) => pool[has[c].ip] = UserOf[c] \/ Binding(UserOf[c])
    BY DEF AddrInv, HeldInPool
  <2>2. ASSUME NEW ip \in Net \ torn, alloc[ip].active, alloc[ip].lease = "running"
        PROVE  pool[ip] = alloc[ip].user
    <3>1. ASSUME NEW c \in Conns, hs[c] = "db" PROVE Fresh(c)
      BY <3>1 DEF AddrInv, LoginsAsRows, LoggedIn, Fresh, Stages, AddressTypeOK, HasType, Modes
    <3>2. ~Stale(ip)
      BY <2>2 DEF Stale
    <3> QED BY <2>2, <3>1, <3>2 DEF AddrInv, ActiveInPool, FreshAlone, AloneWith
  <2>3. ASSUME Quiet, NEW ip \in Net \ torn PROVE pool[ip] = PoolOf(alloc)[ip]
    <3>1. ~Stale(ip)
      BY <2>3 DEF Stale
    <3> QED BY <2>3, <3>1, Parameters DEF AddrInv, ActiveInPool, PoolOnRecord, Quiet, PoolOf
  <2> QED BY <2>1, <2>2, <2>3 DEF PoolTrue
<1> QED BY <1>1, AddressesKept, PTL

====
