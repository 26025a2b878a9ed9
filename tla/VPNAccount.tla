----------------------------- MODULE VPNAccount -----------------------------
(***************************************************************************)
(* VPN addresses: the pool (ippool), the tables users and ip_allocations   *)
(* (persist) and Manager.vpnIndex, and everything that moves an address    *)
(* between accounts: EnsureVPNIP in a handshake, the disconnect handler,   *)
(* the lease cleaner, the administrator's create, patch and delete, and a  *)
(* restart. Each call on the pool, the database or the index is one step;  *)
(* nothing holds a lock across two of them.                                *)
(*                                                                         *)
(* The session table is reduced to what matters here (SessionMgr has the   *)
(* rest): a handshake is refused or mounts its session, and a session that *)
(* is displaced leaves without its disconnect handler.                     *)
(***************************************************************************)
EXTENDS Naturals, FiniteSets, FiniteSetsExt

CONSTANTS
    Users,          \* users.id
    Conns,          \* handshakes
    Last,           \* the subnet is 1..Last
    Gateway,        \* the reserved address
    Probe,          \* how many addresses one Allocate looks at (256)
    Scenarios,      \* who logs in and what else happens (below, at scene)
    NoUser, Placeholder, NoConn

NoIP == 0
Net  == 1..Last
Past == Last + 1    \* the cursor has left the subnet
Modes == {"fixed", "session", "lease"}
RowType == [state : {"yes", "no", "gone"}, mode : Modes, ip : Net \cup {NoIP}]

ASSUME Parameters ==
    /\ Users \subseteq Nat
    /\ Last \in Nat /\ Gateway \in Net /\ Probe \in Nat \ {0}
    /\ \A s \in Scenarios :
          /\ s.accounts \in [Users -> RowType]
          /\ s.logins \in [Conns -> Users \cup {NoUser}]
          /\ s.admin \subseteq {"create", "manual", "dynamic", "delete", "patch", "rebind"}
          /\ s.cleaning \in BOOLEAN /\ s.crashes \in Nat /\ s.failures \in Nat
    /\ NoUser \notin Users /\ Placeholder \notin Users \cup {NoUser} /\ NoConn \notin Conns

(* There is a last users.id.                                               *)
ASSUME UsersAssumption == Users # {} => \E m \in Users : \A u \in Users : u <= m

(* At the first start a fixed account has an address, which no other row   *)
(* has (rows that outlive their address come about later).                 *)
ASSUME AccountsAssumption ==
    \A s \in Scenarios : \A u \in Users :
        s.accounts[u].state = "yes" /\ s.accounts[u].mode = "fixed" =>
            /\ s.accounts[u].ip \in Net
            /\ \A v \in Users \ {u} : s.accounts[v].state = "yes" => s.accounts[v].ip # s.accounts[u].ip

VARIABLES
    scene,      \* the scenario, which never changes
    row,        \* table users: state, ip_mode, vpn_ip
    alloc,      \* table ip_allocations: user_id, released_at IS NULL, lease_until
    pool,       \* Pool.allocated; NoUser: no entry, Placeholder: peerID 0
    next,       \* Pool.next
    index,      \* Manager.vpnIndex
    hs,         \* progress of a handshake and of its session
    has,        \* the User value of a handshake: ip_mode and vpn_ip
    cleaner,    \* progress of the lease cleaner
    admin,      \* progress of the administrator's request
    crashes,
    torn        \* addresses that a failed write has left half moved

vars == <<scene, row, alloc, pool, next, index, hs, has, cleaner, admin, crashes, torn>>

Accounts == scene.accounts  \* the users table at the first start
UserOf   == scene.logins    \* the account that logs in with a handshake, or NoUser
AdminOps == scene.admin     \* what the administrator does
Cleaning == scene.cleaning  \* the lease cleaner runs
MaxCrashes == scene.crashes \* bound: restarts of the server

(* The database may refuse a call. Bound: while no more addresses are torn *)
(* than the scenario says.                                                 *)
Failing == Cardinality(torn) < scene.failures

Stages == {"pool", "db", "index"}
Idle == [pc |-> "idle", op |-> "none", user |-> NoUser, ip |-> NoIP, old |-> NoIP,
         mode |-> "fixed", victim |-> NoConn]

CleanerIdle == [pc |-> "idle", ips |-> {}, ip |-> NoIP]

AllocType == [user : Users \cup {NoUser}, active : BOOLEAN, lease : {"none", "running", "expired"}]
Labels == Stages \cup {"none", "ensure", "take", "alloc", "row", "record", "register", "mount",
                       "online", "lease", "out"}
HasType == [mode : Modes, ip : Net \cup {NoIP}]
CleanerType == [pc : Stages \cup {"idle", "expire"}, ips : SUBSET Net, ip : Net \cup {NoIP}]
AdminType ==
    [pc : Stages \cup {"idle", "insert", "unhold", "bind", "record", "register", "write", "kick",
                       "kicked", "erase"},
     op : {"none", "create", "patch", "delete"}, user : Users \cup {NoUser},
     ip : Net \cup {NoIP}, old : Net \cup {NoIP}, mode : Modes, victim : Conns \cup {NoConn}]

AddressTypeOK ==
    /\ scene \in Scenarios
    /\ row \in [Users -> RowType]
    /\ alloc \in [Net -> AllocType]
    /\ pool \in [Net -> Users \cup {NoUser, Placeholder}]
    /\ next \in Net \cup {Past}
    /\ index \in [Net -> Users \cup {NoUser}]
    /\ hs \in [Conns -> Labels]
    /\ has \in [Conns -> HasType]
    /\ cleaner \in CleanerType
    /\ admin \in AdminType
    /\ crashes \in 0..MaxCrashes
    /\ torn \subseteq Net \cup {NoIP}

-----------------------------------------------------------------------------
(* The pool, the tables and the index.                                     *)

(* Mutant of Candidates: the owner is not looked at. *)
OwnedToo == {ip \in next..Last : ip < next + Probe /\ ip # Gateway}

(* Allocate: the next address, at most Probe steps from the cursor, that   *)
(* is not reserved and has no owner or owner 0. incIP does not come back   *)
(* to the subnet when it leaves it (that would take 2^32 steps).           *)
Candidates == {ip \in next..Last : ip < next + Probe /\ ip # Gateway
                                   /\ pool[ip] \in {NoUser, Placeholder}}

Grant(owner) ==
    LET ip == Min(Candidates) IN
    /\ pool' = [pool EXCEPT ![ip] = owner]
    /\ next' = ip + 1

Exhausted == Candidates = {} /\ next' = Min({next + Probe, Past}) /\ UNCHANGED pool

(* AllocateSpecific *)
Binds(ip, u) == ip # Gateway /\ pool[ip] \in {NoUser, Placeholder, u}

Unused == [user |-> NoUser, active |-> FALSE, lease |-> "none"]

(* A write of ip_allocations fails. Every caller discards the error, after *)
(* the pool was changed: the address is torn until a restart.              *)
Unwritten(ip) == UNCHANGED alloc /\ torn' = torn \cup {ip}

(* RecordIPAllocation; the foreign key refuses a deleted account. *)
Record(ip, u) ==
    \/ /\ row[u].state = "yes"
       /\ alloc' = [alloc EXCEPT ![ip] = [user |-> u, active |-> TRUE, lease |-> "none"]]
       /\ UNCHANGED torn
    \/ (Failing \/ row[u].state # "yes") /\ Unwritten(ip)

(* Mutant of Released: the row stays. *)
KeepRow(a) == a

(* ReleaseIPAllocation *)
Released(a) == IF a.active THEN [a EXCEPT !.active = FALSE, !.lease = "none"] ELSE a

(* releaseDynamicIP and ReleaseFixedVPNIP: three calls, none of which asks *)
(* whose address it is.                                                    *)
Release(stage, ip) ==
    /\ pool'  = IF stage = "pool"  THEN [pool EXCEPT ![ip] = NoUser] ELSE pool
    /\ \/ alloc' = (IF stage = "db" THEN [alloc EXCEPT ![ip] = Released(@)] ELSE alloc) /\ UNCHANGED torn
       \/ Failing /\ stage = "db" /\ Unwritten(ip)
    /\ index' = IF stage = "index" THEN [index EXCEPT ![ip] = NoUser] ELSE index

After(stage, done) == [pool |-> "db", db |-> "index", index |-> done][stage]

(* GetUserVPNIPIndex: the account with the highest id wins. *)
IndexOf(rows, ip) ==
    LET owners == {u \in Users : rows[u].state = "yes" /\ rows[u].ip = ip}
    IN  IF owners = {} THEN NoUser ELSE Max(owners)

(* bootIPPool: the addresses the table says are in use, then those of the  *)
(* fixed accounts.                                                         *)
FixedAt(ip) == {u \in Users : row[u].state = "yes" /\ row[u].mode = "fixed" /\ row[u].ip = ip}

Unrecorded == {ip \in Net : ~alloc[ip].active /\ FixedAt(ip) # {}}

Restored ==
    [ip \in Net |->
        IF ip \in Unrecorded
        THEN [user |-> Min(FixedAt(ip)), active |-> TRUE, lease |-> "none"]
        ELSE alloc[ip]]

PoolOf(table) == [ip \in Net |-> IF table[ip].active THEN table[ip].user ELSE NoUser]

Init ==
    /\ scene \in Scenarios
    /\ row = Accounts
    /\ alloc = [ip \in Net |->
          LET owner == {u \in Users : Accounts[u].state = "yes" /\ Accounts[u].ip = ip}
          IN  IF owner = {} THEN Unused
              ELSE [user |-> Min(owner), active |-> TRUE, lease |-> "none"]]
    /\ pool = PoolOf(alloc)
    /\ next = 1
    /\ index = [ip \in Net |-> IndexOf(row, ip)]
    /\ hs = [c \in Conns |-> "none"]
    /\ has = [c \in Conns |-> [mode |-> "fixed", ip |-> NoIP]]
    /\ cleaner = CleanerIdle
    /\ admin = Idle
    /\ crashes = 0
    /\ torn = {}

-----------------------------------------------------------------------------
(* EnsureVPNIP, on the user row read by handshakeAuth.                     *)

Goto(c, label) == hs' = [hs EXCEPT ![c] = label]

Authenticate(c) ==
    LET u == UserOf[c] IN
    /\ hs[c] = "none" /\ u # NoUser /\ row[u].state = "yes"
    /\ has' = [has EXCEPT ![c] = [mode |-> row[u].mode, ip |-> row[u].ip]]
    /\ Goto(c, "ensure")
    /\ UNCHANGED <<scene, row, alloc, pool, next, index, cleaner, admin, crashes, torn>>

EnsureFixed(c) ==
    /\ hs[c] = "ensure" /\ has[c].mode = "fixed"
    /\ Goto(c, IF has[c].ip = NoIP THEN "out" ELSE "mount")
    /\ UNCHANGED <<scene, row, alloc, pool, next, index, has, cleaner, admin, crashes, torn>>

EnsureSession(c) ==
    /\ hs[c] = "ensure" /\ has[c].mode = "session"
    /\ Goto(c, "alloc")
    /\ UNCHANGED <<scene, row, alloc, pool, next, index, has, cleaner, admin, crashes, torn>>

(* GetLeasedIPForUser: an address of the account that is in use or leased  *)
(* (the latest one; times have seconds, so the choice is left open).       *)
EnsureLease(c) ==
    LET leased == {ip \in Net : /\ alloc[ip].user = UserOf[c] /\ alloc[ip].active
                                /\ alloc[ip].lease # "expired"}
    IN
    /\ hs[c] = "ensure" /\ has[c].mode = "lease"
    /\ \/ (leased = {} \/ Failing) /\ Goto(c, "alloc") /\ UNCHANGED has
       \/ \E ip \in leased : has' = [has EXCEPT ![c].ip = ip] /\ Goto(c, "take")
    /\ UNCHANGED <<scene, row, alloc, pool, next, index, cleaner, admin, crashes, torn>>

TakeLeased(c) ==
    LET ip == has[c].ip IN
    /\ hs[c] = "take"
    /\ IF Binds(ip, UserOf[c])
       THEN pool' = [pool EXCEPT ![ip] = UserOf[c]] /\ Goto(c, "record")
       ELSE UNCHANGED pool /\ Goto(c, "alloc")
    /\ UNCHANGED <<scene, row, alloc, next, index, has, cleaner, admin, crashes, torn>>

Allocate(c) ==
    /\ hs[c] = "alloc"
    /\ \/ /\ Candidates # {}
          /\ Grant(UserOf[c])
          /\ has' = [has EXCEPT ![c].ip = Min(Candidates)]
          /\ Goto(c, "row")
       \/ Exhausted /\ Goto(c, "out") /\ UNCHANGED has
    /\ UNCHANGED <<scene, row, alloc, index, cleaner, admin, crashes, torn>>

(* UpdateUserVPNIP; a database error gives the address back. *)
UpdateRow(c) ==
    LET u == UserOf[c] IN
    /\ hs[c] = "row"
    /\ \/ /\ row' = IF row[u].state = "yes" THEN [row EXCEPT ![u].ip = has[c].ip] ELSE row
          /\ Goto(c, "record") /\ UNCHANGED pool
       \/ /\ pool' = [pool EXCEPT ![has[c].ip] = NoUser]
          /\ Goto(c, "out") /\ UNCHANGED row
    /\ UNCHANGED <<scene, alloc, next, index, has, cleaner, admin, crashes, torn>>

RecordAllocation(c) ==
    /\ hs[c] = "record"
    /\ Record(has[c].ip, UserOf[c])
    /\ Goto(c, "register")
    /\ UNCHANGED <<scene, row, pool, next, index, has, cleaner, admin, crashes>>

(* OnRegisterIP *)
RegisterIP(c) ==
    /\ hs[c] = "register"
    /\ index' = [index EXCEPT ![has[c].ip] = UserOf[c]]
    /\ Goto(c, "mount")
    /\ UNCHANGED <<scene, row, alloc, pool, next, has, cleaner, admin, crashes, torn>>

(* RegisterVPN mounts the session, in place of the account's other one ... *)
RegisterVPN(c) ==
    LET u == UserOf[c] IN
    /\ hs[c] = "mount"
    /\ hs' = [d \in Conns |-> IF d = c THEN "online"
                              ELSE IF UserOf[d] = u /\ hs[d] = "online" THEN "out" ELSE hs[d]]
    /\ index' = [index EXCEPT ![has[c].ip] = u]
    /\ UNCHANGED <<scene, row, alloc, pool, next, has, cleaner, admin, crashes, torn>>

(* ... or the handshake is rejected, here or in the calls before: nobody   *)
(* gives the address back.                                                 *)
Rejected(c) ==
    /\ hs[c] = "mount"
    /\ Goto(c, "out")
    /\ UNCHANGED <<scene, row, alloc, pool, next, index, has, cleaner, admin, crashes, torn>>

-----------------------------------------------------------------------------
(* The end of a session: RemoveIfConn or KickUser, then the disconnect     *)
(* handler.                                                                *)

(* Mutant of Leaving: a leased address is released like any other. *)
LeaveReleasing(c) == [fixed |-> "out", session |-> "pool", lease |-> "pool"][has[c].mode]

Leaving(c) == [fixed |-> "out", session |-> "pool", lease |-> "lease"][has[c].mode]

Leave(c) ==
    /\ hs[c] = "online"
    /\ Goto(c, Leaving(c))
    /\ UNCHANGED <<scene, row, alloc, pool, next, index, has, cleaner, admin, crashes, torn>>

ReleaseOnDisconnect(c) ==
    /\ hs[c] \in Stages
    /\ Release(hs[c], has[c].ip)
    /\ Goto(c, After(hs[c], "out"))
    /\ UNCHANGED <<scene, row, next, has, cleaner, admin, crashes>>

(* SetIPLeaseUntil: whatever the row of the address now says; its error is *)
(* discarded.                                                              *)
LeaseOnDisconnect(c) ==
    /\ hs[c] = "lease"
    /\ \/ alloc[has[c].ip].user # NoUser /\ alloc' = [alloc EXCEPT ![has[c].ip].lease = "running"]
       \/ (Failing \/ alloc[has[c].ip].user = NoUser) /\ UNCHANGED alloc
    /\ Goto(c, "out")
    /\ UNCHANGED <<scene, row, pool, next, index, has, cleaner, admin, crashes, torn>>

-----------------------------------------------------------------------------
(* StartLeaseCleaner.                                                      *)

LeaseRunsOut(ip) ==
    /\ alloc[ip].lease = "running"
    /\ alloc' = [alloc EXCEPT ![ip].lease = "expired"]
    /\ UNCHANGED <<scene, row, pool, next, index, hs, has, cleaner, admin, crashes, torn>>

(* Mutant of ExpiredRows: an empty lease_until counts as expired. *)
UnleasedRows == {ip \in Net : alloc[ip].active /\ alloc[ip].lease # "running"}

ExpiredRows == {ip \in Net : alloc[ip].active /\ alloc[ip].lease = "expired"}

(* ListExpiredLeasedIPs *)
CleanerLists ==
    /\ Cleaning /\ cleaner.pc = "idle"
    /\ cleaner' = [pc |-> "expire", ips |-> ExpiredRows, ip |-> NoIP]
    /\ UNCHANGED <<scene, row, alloc, pool, next, index, hs, has, admin, crashes, torn>>

(* ExpireLeasedIPs: the rows that are expired by now, or an error, with    *)
(* which the cleaner gives up.                                             *)
CleanerExpires ==
    /\ cleaner.pc = "expire"
    /\ \/ /\ alloc' = [ip \in Net |-> IF ip \in ExpiredRows THEN [alloc[ip] EXCEPT !.active = FALSE]
                                      ELSE alloc[ip]]
          /\ cleaner' = IF ExpiredRows # {} /\ cleaner.ips # {}
                        THEN [cleaner EXCEPT !.pc = "pool", !.ip = Min(cleaner.ips)]
                        ELSE CleanerIdle
       \/ Failing /\ cleaner' = CleanerIdle /\ UNCHANGED alloc
    /\ UNCHANGED <<scene, row, pool, next, index, hs, has, admin, crashes, torn>>

CleanerReleases ==
    LET left == cleaner.ips \ {cleaner.ip} IN
    /\ cleaner.pc \in Stages
    /\ Release(cleaner.pc, cleaner.ip)
    /\ cleaner' = IF cleaner.pc # "index" THEN [cleaner EXCEPT !.pc = After(@, "idle")]
                  ELSE IF left = {} THEN CleanerIdle
                  ELSE [pc |-> "pool", ips |-> left, ip |-> Min(left)]
    /\ UNCHANGED <<scene, row, next, hs, has, admin, crashes>>

-----------------------------------------------------------------------------
(* ProvisionWebAccount, ApplyVPNPatch, DeleteAccount. Bound: the           *)
(* administrator sends one request at a time.                              *)

Start(pc, op, u, ip, old, mode) ==
    admin' = [pc |-> pc, op |-> op, user |-> u, ip |-> ip, old |-> old, mode |-> mode,
              victim |-> NoConn]

(* The addresses the request has taken or released. *)
Moved == {ip \in Net : /\ admin.old # admin.ip
                       /\ ip = admin.old \/ (ip = admin.ip /\ admin.mode = "fixed")}

ThenAdmin(label) == admin' = IF label = "idle" THEN Idle ELSE [admin EXCEPT !.pc = label]

(* A fixed account with an address from the pool, held under owner 0. *)
CreateAuto(u) ==
    /\ admin.pc = "idle" /\ "create" \in AdminOps /\ row[u].state = "no"
    /\ \/ /\ Candidates # {}
          /\ Grant(Placeholder)
          /\ Start("insert", "create", u, Min(Candidates), NoIP, "fixed")
       \/ Exhausted /\ UNCHANGED admin
    /\ UNCHANGED <<scene, row, alloc, index, hs, has, cleaner, crashes, torn>>

(* With a requested address: ValidateManualIP, nothing is held. *)
CreateManual(u, ip) ==
    /\ admin.pc = "idle" /\ "manual" \in AdminOps /\ row[u].state = "no"
    /\ ip # Gateway /\ pool[ip] = NoUser
    /\ Start("insert", "create", u, ip, NoIP, "fixed")
    /\ UNCHANGED <<scene, row, alloc, pool, next, index, hs, has, cleaner, crashes, torn>>

CreateDynamic(u, mode) ==
    /\ admin.pc = "idle" /\ "dynamic" \in AdminOps /\ row[u].state = "no"
    /\ row' = [row EXCEPT ![u] = [state |-> "yes", mode |-> mode, ip |-> NoIP]]
    /\ UNCHANGED <<scene, alloc, pool, next, index, hs, has, cleaner, admin, crashes, torn>>

(* CreateVPNAccount; on an error the address is released. *)
InsertRow ==
    /\ admin.pc = "insert"
    /\ \/ /\ row' = [row EXCEPT ![admin.user] = [state |-> "yes", mode |-> "fixed", ip |-> admin.ip]]
          /\ ThenAdmin("unhold") /\ UNCHANGED pool
       \/ /\ pool' = [pool EXCEPT ![admin.ip] = NoUser]
          /\ ThenAdmin("idle") /\ UNCHANGED row
    /\ UNCHANGED <<scene, alloc, next, index, hs, has, cleaner, crashes, torn>>

(* Release before AllocateSpecific under the new id. *)
Unhold ==
    /\ admin.pc = "unhold"
    /\ pool' = [pool EXCEPT ![admin.ip] = NoUser]
    /\ ThenAdmin("bind")
    /\ UNCHANGED <<scene, row, alloc, next, index, hs, has, cleaner, crashes, torn>>

Bind ==
    /\ admin.pc = "bind"
    /\ IF Binds(admin.ip, admin.user)
       THEN pool' = [pool EXCEPT ![admin.ip] = admin.user] /\ ThenAdmin("record")
       ELSE UNCHANGED pool /\ ThenAdmin(IF admin.op = "create" THEN "erase" ELSE "idle")
    /\ UNCHANGED <<scene, row, alloc, next, index, hs, has, cleaner, crashes, torn>>

AdminRecords ==
    /\ admin.pc = "record"
    /\ Record(admin.ip, admin.user)
    /\ ThenAdmin("register")
    /\ UNCHANGED <<scene, row, pool, next, index, hs, has, cleaner, crashes>>

AdminRegisters ==
    /\ admin.pc = "register"
    /\ index' = [index EXCEPT ![admin.ip] = admin.user]
    /\ ThenAdmin(IF admin.op = "create" THEN "idle"
                 ELSE IF admin.old # NoIP THEN "pool" ELSE "write")
    /\ UNCHANGED <<scene, row, alloc, pool, next, hs, has, cleaner, crashes, torn>>

(* ReleaseFixedVPNIP, releaseDynamicIP, the second half of RebindFixedVPNIP. *)
AdminReleases ==
    /\ admin.pc \in Stages
    /\ Release(admin.pc, admin.old)
    /\ ThenAdmin(After(admin.pc, IF admin.op = "delete" THEN "erase" ELSE "write"))
    /\ UNCHANGED <<scene, row, next, hs, has, cleaner, crashes>>

(* DeleteUser: the row and the allocations of the account, or, with an     *)
(* error, nothing; its addresses have been released by now.                *)
Erase ==
    /\ admin.pc = "erase"
    /\ \/ /\ row' = [row EXCEPT ![admin.user].state = "gone"]
          /\ alloc' = [ip \in Net |-> IF alloc[ip].user = admin.user THEN Unused ELSE alloc[ip]]
          /\ UNCHANGED torn
       \/ Failing /\ torn' = torn \cup Moved /\ UNCHANGED <<row, alloc>>
    /\ ThenAdmin("idle")
    /\ UNCHANGED <<scene, pool, next, index, hs, has, cleaner, crashes>>

Delete(u) ==
    /\ admin.pc = "idle" /\ "delete" \in AdminOps /\ row[u].state = "yes"
    /\ Start("kick", "delete", u, NoIP, row[u].ip, row[u].mode)
    /\ UNCHANGED <<scene, row, alloc, pool, next, index, hs, has, cleaner, crashes, torn>>

(* PlanVPNPatch: the address is validated against the pool and the users   *)
(* table before it is bound.                                               *)
Patch(u, mode, ip) ==
    LET was == row[u] IN
    /\ admin.pc = "idle" /\ was.state = "yes"
    /\ "patch" \in AdminOps \/ ("rebind" \in AdminOps /\ mode = was.mode)
    /\ mode = "fixed" => /\ ip \in Net \ {Gateway}
                         /\ \/ ip = was.ip /\ was.mode = "fixed"
                            \/ pool[ip] = NoUser
                            \/ IndexOf(row, ip) = u
    /\ mode # "fixed" => ip = NoIP \/ (mode = was.mode /\ ip = was.ip)
    /\ Start(IF mode # "fixed"
             THEN IF was.mode = "fixed" /\ was.ip # NoIP THEN "pool" ELSE "write"
             ELSE IF was.mode = "fixed" /\ was.ip = ip THEN "write" ELSE "bind",
             "patch", u, ip, IF was.mode = "fixed" THEN was.ip ELSE NoIP, mode)
    /\ UNCHANGED <<scene, row, alloc, pool, next, index, hs, has, cleaner, crashes, torn>>

(* IncrementPolicyVer and UpdateVPNFields. When one fails the request ends *)
(* with what PlanVPNPatch has done to the pool.                            *)
Write ==
    /\ admin.pc = "write"
    /\ \/ /\ row' = [row EXCEPT ![admin.user] = [state |-> "yes", mode |-> admin.mode, ip |-> admin.ip]]
          /\ ThenAdmin("kick") /\ UNCHANGED torn
       \/ Failing /\ torn' = torn \cup Moved /\ ThenAdmin("idle") /\ UNCHANGED row
    /\ UNCHANGED <<scene, alloc, pool, next, index, hs, has, cleaner, crashes>>

(* KickUser returns when the disconnect handler of the session it took off *)
(* the table has run.                                                      *)
Kick ==
    /\ admin.pc = "kick"
    /\ \/ \E c \in Conns :
             /\ UserOf[c] = admin.user /\ hs[c] = "online"
             /\ Goto(c, Leaving(c))
             /\ admin' = [admin EXCEPT !.pc = "kicked", !.victim = c]
       \/ /\ \A c \in Conns : UserOf[c] = admin.user => hs[c] # "online"
          /\ ThenAdmin("kicked") /\ UNCHANGED hs
    /\ UNCHANGED <<scene, row, alloc, pool, next, index, has, cleaner, crashes, torn>>

Kicked ==
    /\ admin.pc = "kicked"
    /\ admin.victim # NoConn => hs[admin.victim] = "out"
    /\ ThenAdmin(IF admin.op = "patch" THEN "idle"
                 ELSE IF admin.old # NoIP THEN "pool" ELSE "erase")
    /\ UNCHANGED <<scene, row, alloc, pool, next, index, hs, has, cleaner, crashes, torn>>

-----------------------------------------------------------------------------
(* The tables users and ip_allocations say the same of an address. *)
Whole(ip) ==
    /\ FixedAt(ip) \subseteq {Restored[ip].user}
    /\ Restored[ip].active => row[Restored[ip].user].ip = ip

(* The server stops, in whatever state, and starts again; it does not when *)
(* two fixed accounts claim an address that the table has for neither. The *)
(* error of bootIPPool's RecordIPAllocation (at the addresses unwritten)   *)
(* is discarded too. A torn address is whole again if the tables agree.    *)
Restart ==
    /\ crashes < MaxCrashes
    /\ \A ip \in Unrecorded : \A u, v \in FixedAt(ip) : u = v
    /\ crashes' = crashes + 1
    /\ \E unwritten \in SUBSET Unrecorded :
          /\ unwritten # {} => Failing
          /\ alloc' = [ip \in Net |-> IF ip \in unwritten THEN alloc[ip] ELSE Restored[ip]]
          /\ torn' = unwritten \cup {ip \in torn \cup Moved : ~Whole(ip)}
    /\ pool' = PoolOf(Restored)
    /\ next' = 1
    /\ index' = [ip \in Net |-> IndexOf(row, ip)]
    /\ hs' = [c \in Conns |-> IF hs[c] = "none" THEN "none" ELSE "out"]
    /\ cleaner' = CleanerIdle
    /\ admin' = Idle
    /\ UNCHANGED <<scene, row, has>>

Handshake(c) ==
    \/ Authenticate(c) \/ EnsureFixed(c) \/ EnsureSession(c) \/ EnsureLease(c)
    \/ TakeLeased(c) \/ Allocate(c) \/ UpdateRow(c) \/ RecordAllocation(c)
    \/ RegisterIP(c) \/ RegisterVPN(c) \/ Rejected(c)

Session(c) == Leave(c) \/ ReleaseOnDisconnect(c) \/ LeaseOnDisconnect(c)

Cleaner == CleanerLists \/ CleanerExpires \/ CleanerReleases

Administrator ==
    \/ \E u \in Users : CreateAuto(u) \/ Delete(u)
    \/ \E u \in Users, ip \in Net : CreateManual(u, ip)
    \/ \E u \in Users, mode \in {"session", "lease"} : CreateDynamic(u, mode)
    \/ \E u \in Users, mode \in Modes, ip \in Net \cup {NoIP} : Patch(u, mode, ip)
    \/ InsertRow \/ Unhold \/ Bind \/ AdminRecords \/ AdminRegisters \/ AdminReleases
    \/ Erase \/ Write \/ Kick \/ Kicked

Next ==
    \/ \E c \in Conns : Handshake(c) \/ Session(c)
    \/ \E ip \in Net : LeaseRunsOut(ip)
    \/ Cleaner \/ Administrator \/ Restart

Spec == Init /\ [][Next]_vars

-----------------------------------------------------------------------------
(* Properties.                                                             *)

Granted == {"row", "record", "register", "mount", "online", "lease", "pool"}

Holds(c) == hs[c] \in Granted

(* Nobody takes addresses away from logins: the cleaner is off, and the    *)
(* administrator creates accounts with addresses of the pool's choice or   *)
(* nobody logs in.  Without this the code does not keep what the next      *)
(* properties say: nothing locks the account between a check and its use.  *)
OnlyCreates == ~Cleaning /\ AdminOps \subseteq {"create"}

Uncontended == OnlyCreates \/ (~Cleaning /\ \A c \in Conns : UserOf[c] = NoUser)

(* ippool/concurrent_test.go: allocation at the same time never gives an   *)
(* address twice.                                                          *)
NoSharedAddress ==
    \A c, d \in Conns :
        Holds(c) /\ Holds(d) /\ UserOf[c] # UserOf[d] => has[c].ip # has[d].ip

(* No two accounts hold one address, in a handshake or online: what        *)
(* SessionMgr assumes of EnsureVPNIP (AddressAssumption).                  *)
HeldDistinct == Uncontended => NoSharedAddress

(* The address of a fixed account is never free for others, whatever the   *)
(* handshakes, the cleaner and restarts do; only a request about the       *)
(* account itself may be moving it.  Not so at torn addresses: a request   *)
(* whose UpdateVPNFields or DeleteUser failed has released the address and *)
(* left the row, and a restart believes the row of ip_allocations that a   *)
(* failed write left.  Of the scenarios, none deletes or moves a dynamic   *)
(* account: vpn_ip is left in the row when its address is released, and    *)
(* DeleteAccount releases it again, whoever has it.                        *)
FixedReserved ==
    \A u \in Users :
        /\ row[u].state = "yes" /\ row[u].mode = "fixed"
        /\ admin.user # u /\ row[u].ip \notin torn
        => pool[row[u].ip] = u

(* An online address is indexed under its account, although addresses are  *)
(* unregistered outside every lock (the index is the isolation check).     *)
OnlineIndexed ==
    Uncontended => \A c \in Conns : hs[c] = "online" => index[has[c].ip] = UserOf[c]

(* vpnaccount/service.go: Allocate and Release are kept in step with the   *)
(* Store, and during its lease an address stays occupied.  An address in   *)
(* use, by a handshake, a session or a lease, is its account's in the      *)
(* pool (unless the account is being created, and logs in at once), and    *)
(* between operations the pool is what ip_allocations says, but at an      *)
(* address whose last write failed: the callers discard that error.        *)
Quiet ==
    /\ admin.pc = "idle" /\ cleaner.pc = "idle"
    /\ \A c \in Conns : hs[c] \in {"none", "ensure", "alloc", "mount", "online", "out"}

Binding(u) == admin.pc \in {"unhold", "bind"} /\ admin.user = u

PoolTrue ==
    Uncontended =>
        /\ \A c \in Conns : Holds(c) => pool[has[c].ip] = UserOf[c] \/ Binding(UserOf[c])
        /\ \A ip \in Net \ torn :
              /\ alloc[ip].active /\ alloc[ip].lease = "running" => pool[ip] = alloc[ip].user
              /\ Quiet => pool[ip] = PoolOf(alloc)[ip]
=============================================================================
