------------------------------ MODULE WebAuth ------------------------------
(***************************************************************************)
(* The administrator's web sessions, the accounts, and the lock against    *)
(* repeated failures, while requests of several browsers interleave:       *)
(* auth.Service, the middleware requireAuth and the handlers that change   *)
(* who may log in.  All requests come from one address, the case in which  *)
(* they share a lock.  Times are what is left of them.                     *)
(***************************************************************************)
EXTENDS Integers, FiniteSets

CONSTANTS Accounts, Admin,   \* every account; the one with is_admin, which EnsureAdmin creates
          Tokens,            \* bound: live sessions
          Requests,          \* requests in progress at once
          MaxPw,             \* bound: changes of a password
          MaxAttempts,       \* api.login_max_attempts
          LockTicks, TTL,    \* api.login_lockout_sec, api.session_ttl_sec
          None,              \* no token
          Sync               \* admin.sync_password_from_config

ASSUME WebAuthAssumption ==
    /\ Admin \in Accounts /\ None \notin Tokens /\ IsFiniteSet(Requests)
    /\ MaxPw \in Nat /\ MaxAttempts \in Nat \ {0} /\ LockTicks \in Nat /\ TTL \in Nat /\ Sync \in BOOLEAN

VARIABLES
    waAcct,   \* table users
    waSess,   \* sessions by token
    waLock,   \* webLockouts and tunnelLockouts of the one address
    waReq     \* the requests

waVars == <<waAcct, waSess, waLock, waReq>>

Realms == {"web", "tunnel"}
NoSess == [user |-> "", left |-> 0, cap |-> 0, pw |-> 0, late |-> FALSE]
Idle == [op |-> "", pc |-> "idle", me |-> "", who |-> "", token |-> None, pw |-> 0, hash |-> 0, crossed |-> FALSE]

WaInit ==
    /\ waAcct = [u \in Accounts |-> [row |-> "on", pw |-> 0, must |-> ~Sync /\ u = Admin]]
    /\ waSess = [t \in Tokens |-> NoSess]
    /\ waLock = [k \in Realms |-> [n |-> 0, left |-> 0]]
    /\ waReq = [r \in Requests |-> Idle]

Live(s) == s # NoSess /\ s.left > 0 /\ s.cap > 0
(* PruneExpiredSessions                                                    *)
Pruned(sess) == [t \in Tokens |-> IF Live(sess[t]) THEN sess[t] ELSE NoSess]
Without(t) == [waSess EXCEPT ![t] = NoSess]

Set(r, req) == waReq' = [waReq EXCEPT ![r] = req]
Goes(r, pc) == waReq' = [waReq EXCEPT ![r].pc = pc]
Done(r) == Set(r, Idle)
At(r, pc) == waReq[r].pc = pc
KeepLogin == UNCHANGED <<waAcct, waSess>>

----------------------------------------------------------------------------
(* Login and VerifyTunnelLogin *)

(* LockedUntil is set if and only if the failures have reached the limit.  *)
IsLocked(k) == waLock[k].n >= MaxAttempts /\ waLock[k].left > 0
RecordFailure(k) == [waLock EXCEPT ![k].n = @ + 1,
                                   ![k].left = IF waLock[k].n + 1 >= MaxAttempts THEN LockTicks ELSE @]
ClearFailures(k) == [waLock EXCEPT ![k] = [n |-> 0, left |-> 0]]

(* isLocked forgets a lock that is over.  A password is the right one of   *)
(* this moment or a wrong one; it is compared with the hash read later.    *)
AskLogin(r) ==
    /\ At(r, "idle")
    /\ \E u \in Accounts, k \in Realms, p \in {0, 1} :
          /\ ~IsLocked(k)
          /\ waLock' = IF waLock[k].n >= MaxAttempts THEN ClearFailures(k) ELSE waLock
          /\ Set(r, [Idle EXCEPT !.op = k, !.pc = "asked", !.me = u, !.who = u,
                                 !.pw = IF p = 0 THEN waAcct[u].pw ELSE MaxPw + 1])
    /\ KeepLogin

LookUp(r) ==
    /\ At(r, "asked")
    /\ LET u == waReq[r].me IN
       IF waAcct[u].row = "on"
       THEN /\ Set(r, [waReq[r] EXCEPT !.pc = "read", !.hash = waAcct[u].pw])
            /\ UNCHANGED waLock
       ELSE Done(r) /\ waLock' = RecordFailure(waReq[r].op)
    /\ KeepLogin

(* The right password forgives what came before it, of an account that may *)
(* not use the web too: that one counts as a new failure.                  *)
CheckPassword(r) ==
    /\ At(r, "read")
    /\ LET k == waReq[r].op IN
       IF waReq[r].hash # waReq[r].pw
       THEN Done(r) /\ waLock' = RecordFailure(k)
       ELSE IF k = "tunnel"
       THEN Done(r) /\ waLock' = ClearFailures(k)
       ELSE IF waReq[r].me = Admin
       THEN Goes(r, "verified") /\ waLock' = ClearFailures(k)
       ELSE /\ Done(r)
            /\ waLock' = [waLock EXCEPT ![k] = [n |-> 1, left |-> IF MaxAttempts = 1 THEN LockTicks ELSE 0]]
    /\ KeepLogin

(* A token is never used again: no request in progress holds it.           *)
CreateSession(r) ==
    /\ At(r, "verified")
    /\ \E t \in Tokens :
          /\ waSess[t] = NoSess /\ \A q \in Requests : waReq[q].token # t
          /\ waSess' = Pruned([waSess EXCEPT ![t] =
                [user |-> waReq[r].me, left |-> TTL, cap |-> 2 * TTL, pw |-> waReq[r].pw, late |-> waReq[r].crossed]])
    /\ Done(r)
    /\ UNCHANGED <<waAcct, waLock>>

----------------------------------------------------------------------------
(* requireAuth *)

Bypass == {"password", "logout"}
Operations == Bypass \cup {"reset", "disable", "enable", "delete"}

(* ValidateSession, with a request for one of the operations.              *)
Arrive(r) ==
    /\ At(r, "idle")
    /\ \E t \in Tokens :
          /\ waSess[t] # NoSess
          /\ IF Live(waSess[t])
             THEN /\ \E op \in Operations, u \in Accounts :
                        /\ op \in Bypass => u = waSess[t].user
                        /\ Set(r, [Idle EXCEPT !.op = op, !.pc = "session", !.me = waSess[t].user, !.who = u, !.token = t])
                  /\ UNCHANGED waSess
             ELSE waSess' = Without(t) /\ UNCHANGED waReq
    /\ UNCHANGED <<waAcct, waLock>>

(* UserActiveForSession and MustChangePassword: a session of an account    *)
(* that may not use it is revoked.                                         *)
Authorise(r) ==
    /\ At(r, "session")
    /\ LET a == waAcct[waReq[r].me] IN
       IF a.row # "on"
       THEN Done(r) /\ waSess' = Without(waReq[r].token)
       ELSE /\ IF a.must /\ waReq[r].op \notin Bypass THEN Done(r) ELSE Goes(r, "active")
            /\ UNCHANGED waSess
    /\ UNCHANGED <<waAcct, waLock>>

Touched(s) == [s EXCEPT !.left = IF TTL > s.cap THEN s.cap ELSE TTL]

(* validateCSRF looks at the session again; TouchSession.                  *)
Admit(r) ==
    /\ At(r, "active")
    /\ LET t == waReq[r].token IN
       IF Live(waSess[t])
       THEN waSess' = [waSess EXCEPT ![t] = Touched(@)] /\ Goes(r, "go")
       ELSE waSess' = Without(t) /\ Done(r)
    /\ UNCHANGED <<waAcct, waLock>>

----------------------------------------------------------------------------
(* The handlers *)

LogoutRequest(r) ==
    /\ At(r, "go") /\ waReq[r].op = "logout"
    /\ waSess' = Without(waReq[r].token)
    /\ Done(r)
    /\ UNCHANGED <<waAcct, waLock>>

(* guardLastAdmin: there is one administrator, so it is the last one.      *)
LastAdmin(u) == u = Admin /\ waAcct[u].row = "on"

(* What is read before the write: the row, the old password, the guard.    *)
Considers(r, op, refused) ==
    /\ At(r, "go") /\ waReq[r].op = op
    /\ IF refused THEN Done(r) ELSE Goes(r, "write")
    /\ UNCHANGED <<waAcct, waSess, waLock>>

Gone(r) == waAcct[waReq[r].who].row = "gone"

(* The old password is right, or not.                                      *)
ChangePassword(r) == \E wrong \in BOOLEAN : Considers(r, "password", wrong \/ Gone(r))
ResetPassword(r) == Considers(r, "reset", Gone(r))
Disable(r) == Considers(r, "disable", Gone(r) \/ LastAdmin(waReq[r].who))
Enable(r) == Considers(r, "enable", FALSE)
Delete(r) == Considers(r, "delete", Gone(r) \/ LastAdmin(waReq[r].who))

(* SetUserEnabled, DeleteUser, UpdateUserPassword: of a row that is gone,  *)
(* no row is changed and nobody is told.                                   *)
SetUserEnabled(a, on) == [a EXCEPT !.row = IF on THEN "on" ELSE "off"]
UpdateUserPassword(a) == [a EXCEPT !.pw = @ + 1, !.must = FALSE]
Rewritten(op, a) ==
    IF a.row = "gone" THEN a
    ELSE CASE op \in {"enable", "disable"} -> SetUserEnabled(a, op = "enable")
           [] op = "delete" -> [a EXCEPT !.row = "gone"]
           [] OTHER -> UpdateUserPassword(a)

(* The row is written, whatever has become of it.                          *)
Write(r) ==
    /\ At(r, "write")
    /\ LET q == waReq[r] IN
       /\ q.op \in {"password", "reset"} => waAcct[q.who].pw < MaxPw
       /\ waAcct' = [waAcct EXCEPT ![q.who] = Rewritten(q.op, @)]
       /\ IF q.op = "enable" THEN Done(r) ELSE Goes(r, "revoke")
    /\ UNCHANGED <<waSess, waLock>>

(* Mutant of Revoke: only the session of the request is ended.             *)
RevokeOwn(r) ==
    /\ At(r, "revoke")
    /\ waSess' = [t \in Tokens |-> IF t = waReq[r].token THEN NoSess ELSE waSess[t]]
    /\ Done(r)
    /\ UNCHANGED <<waAcct, waLock>>

(* LogoutAllForUser. A login that has read the old row may still come.     *)
Revoke(r) ==
    /\ At(r, "revoke")
    /\ LET u == waReq[r].who IN
       /\ waSess' = [t \in Tokens |-> IF waSess[t].user = u THEN NoSess ELSE waSess[t]]
       /\ waReq' = [x \in Requests |->
             IF x = r THEN Idle
             ELSE IF waReq[x].me = u /\ waReq[x].pc \in {"read", "verified"} THEN [waReq[x] EXCEPT !.crossed = TRUE]
             ELSE waReq[x]]
    /\ UNCHANGED <<waAcct, waLock>>

----------------------------------------------------------------------------
(* The clock, the periodic pruning, a restart *)

Tick ==
    /\ waSess' = [t \in Tokens |-> IF Live(waSess[t]) THEN [waSess[t] EXCEPT !.left = @ - 1, !.cap = @ - 1] ELSE waSess[t]]
    /\ waLock' = [k \in Realms |-> [waLock[k] EXCEPT !.left = IF @ > 0 THEN @ - 1 ELSE @]]
    /\ UNCHANGED <<waAcct, waReq>>

Prune ==
    /\ waSess' = Pruned(waSess)
    /\ waLock' = [k \in Realms |-> IF waLock[k].n >= MaxAttempts /\ waLock[k].left = 0 THEN [n |-> 0, left |-> 0] ELSE waLock[k]]
    /\ UNCHANGED <<waAcct, waReq>>

(* Sessions and locks are in memory only.  EnsureAdmin finds accounts and  *)
(* gives its own the password of the file, if the file says so.            *)
AuthRestart ==
    /\ waSess' = [t \in Tokens |-> NoSess]
    /\ waLock' = [k \in Realms |-> [n |-> 0, left |-> 0]]
    /\ waReq' = [r \in Requests |-> Idle]
    /\ waAcct' = IF Sync THEN [waAcct EXCEPT ![Admin].pw = 0, ![Admin].must = FALSE] ELSE waAcct

WaStep ==
    \/ \E r \in Requests :
          AskLogin(r) \/ LookUp(r) \/ CheckPassword(r) \/ CreateSession(r) \/ Arrive(r) \/ Authorise(r)
          \/ Admit(r) \/ LogoutRequest(r) \/ ChangePassword(r) \/ ResetPassword(r) \/ Disable(r)
          \/ Enable(r) \/ Delete(r) \/ Write(r) \/ Revoke(r)
    \/ Prune \/ AuthRestart

WaSpec == WaInit /\ [][WaStep \/ Tick]_waVars

----------------------------------------------------------------------------
WaTypeOK ==
    /\ waAcct \in [Accounts -> [row : {"on", "off", "gone"}, pw : 0..MaxPw, must : BOOLEAN]]
    /\ \A t \in Tokens : waSess[t] # NoSess => /\ waSess[t].user = Admin
                                               /\ waSess[t].left \in 0..TTL /\ waSess[t].cap \in 0..(2 * TTL)
    /\ \A k \in Realms : waLock[k].n \in Nat /\ waLock[k].left \in 0..LockTicks
    /\ \A r \in Requests : waReq[r].op \in Operations \cup Realms \cup {""}

(* A session was opened with the password its account has now and the      *)
(* account is enabled, or the request that changed this is about to end    *)
(* it.  Except the session of a login that had read the old row when all   *)
(* sessions of the account were ended.                                     *)
SessionsRevoked ==
    \A t \in Tokens : LET s == waSess[t] IN
        (s # NoSess /\ ~s.late) =>
            \/ waAcct[s.user].row = "on" /\ waAcct[s.user].pw = s.pw
            \/ \E r \in Requests : At(r, "revoke") /\ waReq[r].who = s.user

(* No sequence of requests takes the administrator away.                   *)
AdminRemains == waAcct[Admin].row = "on"

(* However the requests interleave, an address gets no more attempts than  *)
(* the limit and one for each request that was under way.                  *)
AttemptsBounded == \A k \in Realms : waLock[k].n <= MaxAttempts - 1 + Cardinality(Requests)

(* Requests prolong a session up to its limit and not beyond it.           *)
WithinLimit == \A t \in Tokens : waSess[t].left <= waSess[t].cap

(* Until its password is changed, an account does nothing but change it.   *)
MustChangeFirst ==
    \A r \in Requests : waReq[r].pc \in {"go", "write", "revoke"} /\ waReq[r].op \notin Bypass => ~waAcct[waReq[r].me].must

(* Who may administer the server, against requests that cross.             *)
AdminAccess == SessionsRevoked /\ AdminRemains /\ AttemptsBounded /\ WithinLimit /\ MustChangeFirst
=============================================================================
