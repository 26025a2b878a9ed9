--------------------------- MODULE ServicesProofs ---------------------------
(***************************************************************************)
(* For any accounts, tokens, requests, addresses, clerks and connections:  *)
(* who may administer the server (WebAuth), that the bans of the probe     *)
(* defence stand (ProbeGuard), and that the LAN registry says of a via     *)
(* what its session does (LanRegistry).  Requests and handshakes read in   *)
(* one step and write in a later one; the invariants say what is still     *)
(* true of what was read, and of whom it need not be.                      *)
(***************************************************************************)
EXTENDS LanRegistry, WebAuth, ProbeGuard, PolicyTables, FiniteSetTheorems, SequenceTheorems,
        WellFoundedInduction, TLAPS

-----------------------------------------------------------------------------
(***************************************************************************)
(* Web sessions.  What a login has read stays true, or the request that    *)
(* changes it is about to end all sessions of the account, or has crossed  *)
(* the login (RowRead); the last administrator's guard was asked before a  *)
(* write (Guarded); who may go on has changed its password (Changed); and  *)
(* the failures, with the logins that may still fail, are bounded          *)
(* (FailuresBounded).                                                      *)
(***************************************************************************)
PcsOfLogin == {"asked", "read", "verified"}
PcsOfWork  == {"session", "active", "go", "write", "revoke"}

WaSessions == [user : Accounts \cup {""}, left : Nat, cap : Nat, pw : Nat, late : BOOLEAN]
WaRequests == [op : Operations \cup Realms \cup {""}, pc : PcsOfLogin \cup PcsOfWork \cup {"idle"},
               me : Accounts \cup {""}, who : Accounts \cup {""}, token : Tokens \cup {None},
               pw : Nat, hash : Nat, crossed : BOOLEAN]
WaRows     == [row : {"on", "off", "gone"}, pw : 0..MaxPw, must : BOOLEAN]

RowsOK     == waAcct \in [Accounts -> WaRows]
SessionsOK == /\ waSess \in [Tokens -> WaSessions]
              /\ \A t \in Tokens : waSess[t] # NoSess => waSess[t].user = Admin /\ waSess[t].left <= TTL /\ waSess[t].cap <= 2 * TTL
LocksOK    == waLock \in [Realms -> [n : Nat, left : 0..LockTicks]]
(* What a request is about, where it stands. *)
RequestOK(q) ==
    /\ q.pc \in PcsOfLogin => q.op \in Realms /\ q.me \in Accounts
    /\ q.pc = "verified" => q.me = Admin /\ q.hash = q.pw
    /\ q.pc \in PcsOfWork => q.op \in Operations /\ {q.me, q.who} \subseteq Accounts /\ q.token \in Tokens
    /\ q.pc \in {"write", "revoke"} => q.op # "logout"
RequestsOK == waReq \in [Requests -> WaRequests] /\ \A r \in Requests : RequestOK(waReq[r])

WaTypes == RowsOK /\ SessionsOK /\ LocksOK /\ RequestsOK

(* What becomes of a row that is written. *)
LEMMA RewrittenIs ==
  ASSUME NEW op \in Operations \ {"logout"}, NEW a \in WaRows
  PROVE  LET b == Rewritten(op, a) IN
         /\ b \in [row : {"on", "off", "gone"}, pw : {a.pw, a.pw + 1}, must : BOOLEAN]
         /\ b.pw # a.pw => op \in {"password", "reset"}
         /\ b.must => a.must
         /\ a.row = "on" /\ op \notin {"disable", "delete"} => b.row = "on"
         /\ op = "enable" => b.pw = a.pw
<1>. USE DEF Rewritten, WaRows
<1>1. CASE a.row = "gone"
  BY <1>1
<1>2. CASE a.row # "gone" /\ op \in {"enable", "disable"}
  BY <1>2 DEF SetUserEnabled
<1>3. CASE a.row # "gone" /\ op = "delete"
  BY <1>3
<1>4. CASE a.row # "gone" /\ op \in {"password", "reset"}
  <2>1. Rewritten(op, a) = UpdateUserPassword(a)
    BY <1>4
  <2>. QED BY <1>4, <2>1 DEF UpdateUserPassword
<1>. QED BY <1>1, <1>2, <1>3, <1>4 DEF Operations, Bypass

LEMMA RowsStep == RowsOK /\ RequestsOK /\ [WaStep \/ Tick]_waVars => RowsOK'
<1>. SUFFICES ASSUME RowsOK, RequestsOK, [WaStep \/ Tick]_waVars PROVE RowsOK'
  OBVIOUS
<1>. USE WebAuthAssumption
<1>1. CASE UNCHANGED waAcct
  BY <1>1 DEF RowsOK
<1>2. CASE AuthRestart
  <2>1. \A a \in WaRows : \A p \in 0..MaxPw, m \in BOOLEAN : [a EXCEPT !.pw = p, !.must = m] \in WaRows
    BY DEF WaRows
  <2>2. UNCHANGED waAcct \/ waAcct' = [waAcct EXCEPT ![Admin] = [waAcct[Admin] EXCEPT !.pw = 0, !.must = FALSE]]
    BY <1>2 DEF AuthRestart, RowsOK
  <2>3. waAcct[Admin] \in WaRows /\ 0 \in 0..MaxPw /\ FALSE \in BOOLEAN
    BY DEF RowsOK
  <2>4. [waAcct[Admin] EXCEPT !.pw = 0, !.must = FALSE] \in WaRows
    BY <2>1, <2>3
  <2>. QED BY <1>1, <2>2, <2>4 DEF RowsOK
<1>3. ASSUME NEW r \in Requests, Write(r) PROVE RowsOK'
  <2>. DEFINE q == waReq[r]
  <2>1. q.op \in Operations \ {"logout"} /\ q.who \in Accounts
    BY <1>3 DEF Write, At, RequestsOK, RequestOK, PcsOfWork
  <2>2. waAcct[q.who] \in WaRows /\ (q.op \in {"password", "reset"} => waAcct[q.who].pw < MaxPw)
    BY <1>3, <2>1 DEF Write, RowsOK
  <2>3. Rewritten(q.op, waAcct[q.who]) \in WaRows
    BY <2>1, <2>2, RewrittenIs DEF WaRows
  <2>4. waAcct' = [waAcct EXCEPT ![q.who] = Rewritten(q.op, waAcct[q.who])]
    BY <1>3 DEF Write
  <2>. QED BY <2>1, <2>3, <2>4 DEF RowsOK
<1>4. CASE Tick \/ Prune \/ UNCHANGED waVars
  BY <1>1, <1>4 DEF Tick, Prune, waVars
<1>5. ASSUME NEW r \in Requests,
             AskLogin(r) \/ LookUp(r) \/ CheckPassword(r) \/ CreateSession(r) \/ Arrive(r) \/ Authorise(r)
             \/ Admit(r) \/ LogoutRequest(r) \/ ChangePassword(r) \/ ResetPassword(r) \/ Disable(r)
             \/ Enable(r) \/ Delete(r) \/ Revoke(r)
      PROVE RowsOK'
  BY <1>1, <1>5 DEF AskLogin, LookUp, CheckPassword, CreateSession, Arrive, Authorise, Admit, LogoutRequest,
     ChangePassword, ResetPassword, Disable, Enable, Delete, Considers, Revoke, KeepLogin
<1>. QED BY <1>2, <1>3, <1>4, <1>5 DEF WaStep

(* A session of which a field is set, or from which a tick is taken. *)
Aged(s) == [s EXCEPT !.left = s.left - 1, !.cap = s.cap - 1]

LEMMA SetLeft ==
  ASSUME NEW s \in WaSessions, NEW l \in Nat
  PROVE  LET n == [s EXCEPT !.left = l] IN
         n \in WaSessions /\ n.user = s.user /\ n.left = l /\ n.cap = s.cap /\ n.pw = s.pw /\ n.late = s.late
BY DEF WaSessions

LEMMA AgedIs ==
  ASSUME NEW s \in WaSessions, Live(s)
  PROVE  /\ Aged(s) \in WaSessions /\ Aged(s).user = s.user
         /\ Aged(s).left = s.left - 1 /\ Aged(s).cap = s.cap - 1
         /\ Aged(s).pw = s.pw /\ Aged(s).late = s.late
<1>1. \A l, c \in Nat : LET n == [s EXCEPT !.left = l, !.cap = c] IN
        n \in WaSessions /\ n.user = s.user /\ n.left = l /\ n.cap = c /\ n.pw = s.pw /\ n.late = s.late
  BY DEF WaSessions
<1>2. s.left - 1 \in Nat /\ s.cap - 1 \in Nat
  <2>1. s.left > 0 /\ s.cap > 0
    BY DEF Live
  <2>2. s.left \in Nat /\ s.cap \in Nat
    BY DEF WaSessions
  <2>. QED BY <2>1, <2>2
<1>. QED BY <1>1, <1>2 DEF Aged

LEMMA SessionsStep == RowsOK /\ SessionsOK /\ RequestsOK /\ [WaStep \/ Tick]_waVars => SessionsOK'
<1>. SUFFICES ASSUME RowsOK, SessionsOK, RequestsOK, [WaStep \/ Tick]_waVars PROVE SessionsOK'
  OBVIOUS
<1>. USE WebAuthAssumption
<1>0. NoSess \in WaSessions
  BY DEF NoSess, WaSessions
<1>1. CASE UNCHANGED waSess
  BY <1>1 DEF SessionsOK
<1>2. ASSUME waSess' \in [Tokens -> WaSessions],
             \A t \in Tokens : \/ waSess'[t] \in {waSess[t], NoSess}
                               \/ waSess'[t].user = Admin /\ waSess'[t].left <= TTL /\ waSess'[t].cap <= 2 * TTL
      PROVE  SessionsOK'
  BY <1>2 DEF SessionsOK
<1>3. ASSUME NEW r \in Requests, CreateSession(r) PROVE SessionsOK'
  <2>. DEFINE s == [user |-> waReq[r].me, left |-> TTL, cap |-> 2 * TTL, pw |-> waReq[r].pw, late |-> waReq[r].crossed]
  <2>0. /\ waReq[r] \in WaRequests /\ waReq[r].me = Admin
        /\ waReq[r].pw \in Nat /\ waReq[r].crossed \in BOOLEAN
    BY <1>3 DEF CreateSession, At, RequestsOK, RequestOK, WaRequests
  <2>1. s \in WaSessions /\ s.user = Admin /\ s.left <= TTL /\ s.cap <= 2 * TTL
    <3>1. \A u \in Accounts, l, c, p \in Nat, b \in BOOLEAN : [user |-> u, left |-> l, cap |-> c, pw |-> p, late |-> b] \in WaSessions
      BY DEF WaSessions
    <3>2. Admin \in Accounts /\ TTL \in Nat /\ 2 * TTL \in Nat
      OBVIOUS
    <3>. QED BY <2>0, <3>1, <3>2
  <2>2. PICK t \in Tokens : waSess' = Pruned([waSess EXCEPT ![t] = s])
    BY <1>3 DEF CreateSession
  <2>3. \A x \in Tokens : waSess'[x] \in {waSess[x], NoSess, s}
    BY <2>2 DEF Pruned, SessionsOK
  <2>4. waSess' \in [Tokens -> WaSessions]
    BY <1>0, <2>1, <2>2 DEF Pruned, SessionsOK
  <2>. QED BY <1>2, <2>1, <2>3, <2>4
<1>4. ASSUME NEW r \in Requests, Admit(r) PROVE SessionsOK'
  <2>. DEFINE t == waReq[r].token
  <2>1. t \in Tokens
    BY <1>4 DEF Admit, At, RequestsOK, RequestOK, PcsOfWork
  <2>2. CASE waSess' = Without(t)
    BY <1>0, <1>2, <2>1, <2>2 DEF Without, SessionsOK
  <2>3. CASE Live(waSess[t]) /\ waSess' = [waSess EXCEPT ![t] = Touched(waSess[t])]
    <3>1. waSess[t] \in WaSessions /\ waSess[t].user = Admin /\ waSess[t].cap <= 2 * TTL
      BY <2>1, <2>3 DEF SessionsOK, Live
    <3>2. \A l \in Nat : /\ [waSess[t] EXCEPT !.left = l] \in WaSessions
                          /\ [waSess[t] EXCEPT !.left = l].user = waSess[t].user
                          /\ [waSess[t] EXCEPT !.left = l].cap = waSess[t].cap
                          /\ [waSess[t] EXCEPT !.left = l].left = l
      BY <3>1, SetLeft
    <3>3. PICK l \in Nat : l <= TTL /\ Touched(waSess[t]) = [waSess[t] EXCEPT !.left = l]
      <4>1. waSess[t].cap \in Nat
        BY <3>1 DEF WaSessions
      <4>2. CASE TTL > waSess[t].cap
        BY <4>1, <4>2 DEF Touched
      <4>3. CASE ~(TTL > waSess[t].cap)
        BY <4>1, <4>3 DEF Touched
      <4>. QED BY <4>2, <4>3
    <3>4. /\ Touched(waSess[t]) \in WaSessions /\ Touched(waSess[t]).user = Admin
          /\ Touched(waSess[t]).left <= TTL /\ Touched(waSess[t]).cap <= 2 * TTL
      BY <3>1, <3>2, <3>3
    <3>. QED BY <1>2, <2>1, <2>3, <3>4 DEF SessionsOK
  <2>. QED BY <1>4, <2>2, <2>3 DEF Admit
<1>5. CASE Tick
  <2>2. waSess' = [t \in Tokens |-> IF Live(waSess[t]) THEN [waSess[t] EXCEPT !.left = waSess[t].left - 1, !.cap = waSess[t].cap - 1]
                                    ELSE waSess[t]]
    BY <1>5 DEF Tick
  <2>3. ASSUME NEW t \in Tokens
        PROVE  /\ waSess'[t] \in WaSessions
               /\ \/ waSess'[t] \in {waSess[t], NoSess}
                  \/ waSess'[t].user = Admin /\ waSess'[t].left <= TTL /\ waSess'[t].cap <= 2 * TTL
    <3>1. waSess[t] \in WaSessions
      BY DEF SessionsOK
    <3>2. CASE Live(waSess[t])
      <4>1. waSess'[t] = Aged(waSess[t])
        BY <2>2, <3>2 DEF Aged
      <4>2. /\ Aged(waSess[t]) \in WaSessions /\ Aged(waSess[t]).user = waSess[t].user
            /\ Aged(waSess[t]).left = waSess[t].left - 1 /\ Aged(waSess[t]).cap = waSess[t].cap - 1
        BY <3>1, <3>2, AgedIs
      <4>3. waSess[t].user = Admin /\ waSess[t].left <= TTL /\ waSess[t].cap <= 2 * TTL
        BY <3>2 DEF SessionsOK, Live
      <4>4. waSess[t].left \in Nat /\ waSess[t].cap \in Nat
        BY <3>1 DEF WaSessions
      <4>. QED BY <4>1, <4>2, <4>3, <4>4
    <3>3. CASE ~Live(waSess[t])
      BY <2>2, <3>1, <3>3
    <3>. QED BY <3>2, <3>3
  <2>4. waSess' \in [Tokens -> WaSessions]
    <3>1. /\ waSess' = [t \in Tokens |-> waSess'[t]]
          /\ \A t \in Tokens : waSess'[t] \in WaSessions
      BY <2>2, <2>3
    <3>. QED BY <3>1
  <2>. QED BY <1>2, <2>3, <2>4
<1>6. CASE Prune \/ AuthRestart
  BY <1>0, <1>2, <1>6 DEF Prune, AuthRestart, Pruned, SessionsOK
<1>7. ASSUME NEW r \in Requests, Arrive(r) \/ Authorise(r) \/ LogoutRequest(r) \/ Revoke(r) PROVE SessionsOK'
  <2>1. \/ UNCHANGED waSess
        \/ \E t : waSess' = [waSess EXCEPT ![t] = NoSess]
        \/ \E u : waSess' = [t \in Tokens |-> IF waSess[t].user = u THEN NoSess ELSE waSess[t]]
    BY <1>7 DEF Arrive, Authorise, LogoutRequest, Revoke, Without
  <2>. QED BY <1>0, <1>1, <1>2, <2>1 DEF SessionsOK
<1>8. ASSUME NEW r \in Requests,
             AskLogin(r) \/ LookUp(r) \/ CheckPassword(r) \/ ChangePassword(r) \/ ResetPassword(r) \/ Disable(r)
             \/ Enable(r) \/ Delete(r) \/ Write(r)
      PROVE SessionsOK'
  BY <1>1, <1>8 DEF AskLogin, LookUp, CheckPassword, ChangePassword, ResetPassword, Disable, Enable, Delete, Considers,
     Write, KeepLogin
<1>. QED BY <1>1, <1>3, <1>4, <1>5, <1>6, <1>7, <1>8 DEF WaStep, waVars

WaLocks == [n : Nat, left : 0..LockTicks]

LEMMA LocksStep == LocksOK /\ RequestsOK /\ [WaStep \/ Tick]_waVars => LocksOK'
<1>. SUFFICES ASSUME LocksOK, RequestsOK, [WaStep \/ Tick]_waVars PROVE LocksOK'
  OBVIOUS
<1>. USE WebAuthAssumption
<1>0. waLock \in [Realms -> WaLocks]
  BY DEF LocksOK, WaLocks
<1>1. CASE UNCHANGED waLock
  BY <1>1 DEF LocksOK
<1>2. ASSUME NEW k \in Realms PROVE /\ RecordFailure(k) \in [Realms -> WaLocks]
                                   /\ ClearFailures(k) \in [Realms -> WaLocks]
                                   /\ \A l \in {0, LockTicks} : [waLock EXCEPT ![k] = [n |-> 1, left |-> l]] \in [Realms -> WaLocks]
  <2>1. waLock[k] \in WaLocks
    BY <1>0
  <2>2. \A n \in Nat, l \in 0..LockTicks : [waLock[k] EXCEPT !.n = n, !.left = l] \in WaLocks /\ [n |-> n, left |-> l] \in WaLocks
    BY <2>1 DEF WaLocks
  <2>3. waLock[k].n + 1 \in Nat /\ waLock[k].left \in 0..LockTicks /\ {0, LockTicks} \subseteq 0..LockTicks
    BY <2>1 DEF WaLocks
  <2>4. RecordFailure(k) = [waLock EXCEPT ![k] = [waLock[k] EXCEPT !.n = waLock[k].n + 1,
           !.left = IF waLock[k].n + 1 >= MaxAttempts THEN LockTicks ELSE waLock[k].left]]
    BY <1>0 DEF RecordFailure
  <2>5. RecordFailure(k) \in [Realms -> WaLocks]
    <3>1. (IF waLock[k].n + 1 >= MaxAttempts THEN LockTicks ELSE waLock[k].left) \in 0..LockTicks
      BY <2>3
    <3>2. [waLock[k] EXCEPT !.n = waLock[k].n + 1,
           !.left = IF waLock[k].n + 1 >= MaxAttempts THEN LockTicks ELSE waLock[k].left] \in WaLocks
      BY <2>2, <2>3, <3>1
    <3>. QED BY <1>0, <2>4, <3>2
  <2>. QED BY <1>0, <2>2, <2>3, <2>5 DEF ClearFailures
<1>3. ASSUME NEW r \in Requests, AskLogin(r) \/ LookUp(r) \/ CheckPassword(r) PROVE LocksOK'
  <2>1. \/ UNCHANGED waLock
        \/ \E k \in Realms : waLock' \in {RecordFailure(k), ClearFailures(k)}
        \/ \E k \in Realms, l \in {0, LockTicks} : waLock' = [waLock EXCEPT ![k] = [n |-> 1, left |-> l]]
    BY <1>3 DEF AskLogin, LookUp, CheckPassword, At, RequestsOK, RequestOK, PcsOfLogin
  <2>2. waLock' \in [Realms -> WaLocks]
    BY <1>0, <1>2, <2>1
  <2>. QED BY <2>2 DEF LocksOK, WaLocks
<1>4. CASE Tick \/ Prune \/ AuthRestart
  <2>1. \A l \in WaLocks : /\ [l EXCEPT !.left = IF l.left > 0 THEN l.left - 1 ELSE l.left] \in WaLocks
                           /\ [n |-> 0, left |-> 0] \in WaLocks
    BY DEF WaLocks
  <2>2. waLock' \in [Realms -> WaLocks]
    BY <1>0, <1>4, <2>1 DEF Tick, Prune, AuthRestart, WaLocks
  <2>. QED BY <2>2 DEF LocksOK, WaLocks
<1>5. ASSUME NEW r \in Requests,
             CreateSession(r) \/ Arrive(r) \/ Authorise(r) \/ Admit(r) \/ LogoutRequest(r) \/ ChangePassword(r)
             \/ ResetPassword(r) \/ Disable(r) \/ Enable(r) \/ Delete(r) \/ Write(r) \/ Revoke(r)
      PROVE LocksOK'
  BY <1>1, <1>5 DEF CreateSession, Arrive, Authorise, Admit, LogoutRequest, ChangePassword, ResetPassword, Disable,
     Enable, Delete, Considers, Write, Revoke
<1>. QED BY <1>1, <1>3, <1>4, <1>5 DEF WaStep, waVars

(* Idle, and a request of which the place or the crossing is set. *)
LEMMA RequestParts ==
  /\ Idle \in WaRequests /\ RequestOK(Idle)
  /\ \A q \in WaRequests : \A pc \in PcsOfLogin \cup PcsOfWork \cup {"idle"} :
        LET n == [q EXCEPT !.pc = pc] IN
        /\ n \in WaRequests /\ n.pc = pc /\ n.op = q.op /\ n.me = q.me /\ n.who = q.who /\ n.token = q.token
        /\ n.pw = q.pw /\ n.hash = q.hash /\ n.crossed = q.crossed
  /\ \A q \in WaRequests : LET n == [q EXCEPT !.crossed = TRUE] IN
        /\ n \in WaRequests /\ n.pc = q.pc /\ n.op = q.op /\ n.me = q.me /\ n.who = q.who /\ n.token = q.token
        /\ n.pw = q.pw /\ n.hash = q.hash /\ n.crossed
<1>1. Idle \in WaRequests /\ RequestOK(Idle)
  BY DEF Idle, WaRequests, RequestOK, PcsOfLogin, PcsOfWork
<1>2. ASSUME NEW q \in WaRequests, NEW pc \in PcsOfLogin \cup PcsOfWork \cup {"idle"}
      PROVE  LET n == [q EXCEPT !.pc = pc] IN
        /\ n \in WaRequests /\ n.pc = pc /\ n.op = q.op /\ n.me = q.me /\ n.who = q.who /\ n.token = q.token
        /\ n.pw = q.pw /\ n.hash = q.hash /\ n.crossed = q.crossed
  BY DEF WaRequests
<1>3. ASSUME NEW q \in WaRequests
      PROVE  LET n == [q EXCEPT !.crossed = TRUE] IN
        /\ n \in WaRequests /\ n.pc = q.pc /\ n.op = q.op /\ n.me = q.me /\ n.who = q.who /\ n.token = q.token
        /\ n.pw = q.pw /\ n.hash = q.hash /\ n.crossed
  <2>1. \A c \in BOOLEAN : [q EXCEPT !.crossed = c] \in WaRequests
    BY DEF WaRequests
  <2>. QED BY <2>1 DEF WaRequests
<1>. QED BY <1>1, <1>2, <1>3

LEMMA RequestSet ==
  ASSUME RequestsOK, NEW r \in Requests, NEW n \in WaRequests, RequestOK(n), Set(r, n)
  PROVE  RequestsOK'
BY DEF RequestsOK, Set

LEMMA RequestsStep == RowsOK /\ SessionsOK /\ RequestsOK /\ [WaStep \/ Tick]_waVars => RequestsOK'
<1>. SUFFICES ASSUME RowsOK, SessionsOK, RequestsOK, [WaStep \/ Tick]_waVars PROVE RequestsOK'
  OBVIOUS
<1>. USE WebAuthAssumption
<1>1. CASE UNCHANGED waReq
  BY <1>1 DEF RequestsOK
<1>2. ASSUME NEW r \in Requests, Done(r) PROVE RequestsOK'
  BY <1>2, RequestParts, RequestSet DEF Done
<1>3. ASSUME NEW r \in Requests, NEW pc \in PcsOfLogin \cup PcsOfWork \cup {"idle"}, Goes(r, pc),
             RequestOK([waReq[r] EXCEPT !.pc = pc])
      PROVE  RequestsOK'
  <2>1. [waReq[r] EXCEPT !.pc = pc] \in WaRequests
    BY RequestParts DEF RequestsOK
  <2>2. Set(r, [waReq[r] EXCEPT !.pc = pc])
    BY <1>3 DEF Set, Goes
  <2>. QED BY <1>3, <2>1, <2>2, RequestSet
<1>4. ASSUME NEW r \in Requests, AskLogin(r) PROVE RequestsOK'
  <2>1. PICK u \in Accounts, k \in Realms, p \in {0, 1} :
           Set(r, [Idle EXCEPT !.op = k, !.pc = "asked", !.me = u, !.who = u,
                               !.pw = IF p = 0 THEN waAcct[u].pw ELSE MaxPw + 1])
    BY <1>4 DEF AskLogin
  <2>2. PICK w \in Nat : w = IF p = 0 THEN waAcct[u].pw ELSE MaxPw + 1
    BY DEF RowsOK, WaRows
  <2>. DEFINE n == [Idle EXCEPT !.op = k, !.pc = "asked", !.me = u, !.who = u, !.pw = w]
  <2>3. n \in WaRequests /\ RequestOK(n)
    BY DEF Idle, WaRequests, RequestOK, PcsOfLogin, PcsOfWork
  <2>. QED BY <2>1, <2>2, <2>3, RequestSet
<1>5. ASSUME NEW r \in Requests, LookUp(r) PROVE RequestsOK'
  <2>1. waReq[r] \in WaRequests /\ RequestOK(waReq[r]) /\ waReq[r].pc = "asked" /\ waReq[r].me \in Accounts /\ waReq[r].op \in Realms
    BY <1>5 DEF LookUp, At, RequestsOK, RequestOK, PcsOfLogin
  <2>2. PICK h \in Nat : h = waAcct[waReq[r].me].pw
    BY <2>1 DEF RowsOK, WaRows
  <2>. DEFINE n == [waReq[r] EXCEPT !.pc = "read", !.hash = h]
  <2>3. n \in WaRequests /\ RequestOK(n)
    BY <2>1 DEF WaRequests, RequestOK, PcsOfLogin, PcsOfWork
  <2>. QED BY <1>2, <1>5, <2>2, <2>3, RequestSet DEF LookUp
<1>6. ASSUME NEW r \in Requests, CheckPassword(r) PROVE RequestsOK'
  <2>1. waReq[r] \in WaRequests /\ waReq[r].pc = "read" /\ waReq[r].op \in Realms /\ waReq[r].me \in Accounts
    BY <1>6 DEF CheckPassword, At, RequestsOK, RequestOK, PcsOfLogin
  <2>2. Done(r) \/ (Goes(r, "verified") /\ waReq[r].hash = waReq[r].pw /\ waReq[r].me = Admin)
    BY <1>6 DEF CheckPassword
  <2>3. waReq[r].hash = waReq[r].pw /\ waReq[r].me = Admin => RequestOK([waReq[r] EXCEPT !.pc = "verified"])
    BY <2>1 DEF RequestOK, WaRequests, PcsOfLogin, PcsOfWork
  <2>. QED BY <1>2, <1>3, <2>2, <2>3 DEF PcsOfLogin
<1>7. ASSUME NEW r \in Requests, Arrive(r) PROVE RequestsOK'
  <2>1. PICK t \in Tokens :
           \/ UNCHANGED waReq
           \/ /\ waSess[t] # NoSess
              /\ \E op \in Operations, u \in Accounts :
                    Set(r, [Idle EXCEPT !.op = op, !.pc = "session", !.me = waSess[t].user, !.who = u, !.token = t])
    BY <1>7 DEF Arrive
  <2>2. ASSUME NEW op \in Operations, NEW u \in Accounts
        PROVE  LET n == [Idle EXCEPT !.op = op, !.pc = "session", !.me = Admin, !.who = u, !.token = t]
               IN  n \in WaRequests /\ RequestOK(n)
    BY DEF Idle, WaRequests, RequestOK, PcsOfLogin, PcsOfWork
  <2>3. waSess[t] # NoSess => waSess[t].user = Admin
    BY DEF SessionsOK
  <2>. QED BY <1>1, <2>1, <2>2, <2>3, RequestSet
<1>8. ASSUME NEW r \in Requests, NEW pc \in PcsOfWork, waReq[r].pc \in PcsOfWork, Goes(r, pc), pc \in {"write", "revoke"} => waReq[r].op # "logout"
      PROVE  RequestsOK'
  <2>1. waReq[r] \in WaRequests /\ RequestOK(waReq[r])
    BY DEF RequestsOK
  <2>2. RequestOK([waReq[r] EXCEPT !.pc = pc])
    BY <1>8, <2>1, RequestParts DEF RequestOK, PcsOfLogin, PcsOfWork
  <2>. QED BY <1>3, <1>8, <2>2
<1>9. ASSUME NEW r \in Requests, Authorise(r) \/ Admit(r) \/ LogoutRequest(r) \/ CreateSession(r) PROVE RequestsOK'
  <2>1. Done(r) \/ (waReq[r].pc \in PcsOfWork /\ (Goes(r, "active") \/ Goes(r, "go")))
    BY <1>9 DEF Authorise, Admit, LogoutRequest, CreateSession, At, PcsOfWork
  <2>. QED BY <1>2, <1>8, <2>1 DEF PcsOfWork
<1>10. ASSUME NEW r \in Requests, ChangePassword(r) \/ ResetPassword(r) \/ Disable(r) \/ Enable(r) \/ Delete(r)
       PROVE  RequestsOK'
  <2>1. Done(r) \/ (waReq[r].pc = "go" /\ waReq[r].op # "logout" /\ Goes(r, "write"))
    BY <1>10 DEF ChangePassword, ResetPassword, Disable, Enable, Delete, Considers, At
  <2>. QED BY <1>2, <1>8, <2>1 DEF PcsOfWork
<1>11. ASSUME NEW r \in Requests, Write(r) PROVE RequestsOK'
  <2>1. waReq[r].pc = "write" /\ (Done(r) \/ Goes(r, "revoke"))
    BY <1>11 DEF Write, At
  <2>2. waReq[r].op # "logout"
    BY <2>1 DEF RequestsOK, RequestOK
  <2>. QED BY <1>2, <1>8, <2>1, <2>2 DEF PcsOfWork
<1>12. ASSUME NEW r \in Requests, Revoke(r) PROVE RequestsOK'
  <2>1. ASSUME NEW x \in Requests
        PROVE  LET n == [waReq[x] EXCEPT !.crossed = TRUE] IN n \in WaRequests /\ RequestOK(n)
    <3>1. waReq[x] \in WaRequests /\ RequestOK(waReq[x])
      BY DEF RequestsOK
    <3>. QED BY <3>1, RequestParts DEF RequestOK
  <2>2. waReq' = [x \in Requests |-> waReq'[x]]
    BY <1>12 DEF Revoke
  <2>3. \A x \in Requests : waReq'[x] \in {Idle, [waReq[x] EXCEPT !.crossed = TRUE], waReq[x]}
    BY <1>12 DEF Revoke
  <2>4. \A x \in Requests : waReq'[x] \in WaRequests /\ RequestOK(waReq'[x])
    BY <2>1, <2>3, RequestParts DEF RequestsOK
  <2>. QED BY <2>2, <2>4 DEF RequestsOK
<1>13. CASE AuthRestart
  BY <1>13, RequestParts DEF AuthRestart, RequestsOK
<1>14. CASE Tick \/ Prune \/ UNCHANGED waVars
  BY <1>1, <1>14 DEF Tick, Prune, waVars
<1>. QED BY <1>4, <1>5, <1>6, <1>7, <1>9, <1>10, <1>11, <1>12, <1>13, <1>14 DEF WaStep

(* The invariant of the web sessions, part by part. *)
Pending(u) == \E r \in Requests : At(r, "revoke") /\ waReq[r].who = u
TrueOrPending(u, pw) == (waAcct[u].row = "on" /\ waAcct[u].pw = pw) \/ Pending(u)

RowRead == \A r \in Requests :
    waReq[r].pc \in {"read", "verified"} /\ ~waReq[r].crossed => TrueOrPending(waReq[r].me, waReq[r].hash)
SessionsTrue == \A t \in Tokens :
    waSess[t] # NoSess /\ ~waSess[t].late => TrueOrPending(waSess[t].user, waSess[t].pw)
Guarded == \A r \in Requests :
    waReq[r].pc = "write" /\ waReq[r].op \in {"disable", "delete"} => waReq[r].who # Admin
Changed == \A r \in Requests :
    waReq[r].pc \in {"active", "go", "write", "revoke"} /\ waReq[r].op \notin Bypass => ~waAcct[waReq[r].me].must
Pend(k) == {r \in Requests : waReq[r].op = k /\ waReq[r].pc \in {"asked", "read"}}
FailuresBounded == \A k \in Realms : waLock[k].n + Cardinality(Pend(k)) <= MaxAttempts - 1 + Cardinality(Requests)

WaInv == WaTypes /\ RowRead /\ SessionsTrue /\ Guarded /\ AdminRemains /\ Changed /\ WithinLimit /\ FailuresBounded

-----------------------------------------------------------------------------
(* Every step of a request but the revocation. *)
Steps(r) ==
    \/ AskLogin(r) \/ LookUp(r) \/ CheckPassword(r) \/ CreateSession(r) \/ Arrive(r) \/ Authorise(r) \/ Admit(r)
    \/ LogoutRequest(r) \/ ChangePassword(r) \/ ResetPassword(r) \/ Disable(r) \/ Enable(r) \/ Delete(r) \/ Write(r)

LEMMA StepsAll == WaStep => (\E r \in Requests : Steps(r) \/ Revoke(r)) \/ Prune \/ AuthRestart
BY DEF WaStep, Steps

(* Only the request itself moves. *)
LEMMA OneMoves ==
  ASSUME RequestsOK, NEW r \in Requests, Steps(r)
  PROVE  waReq[r].pc # "revoke" /\ \A x \in Requests \ {r} : waReq'[x] = waReq[x]
<1>. USE DEF At, Set, Done, Goes, RequestsOK
<1>1. CASE AskLogin(r) \/ LookUp(r) \/ CheckPassword(r) \/ CreateSession(r)
  BY <1>1 DEF AskLogin, LookUp, CheckPassword, CreateSession
<1>2. CASE Arrive(r) \/ Authorise(r) \/ Admit(r) \/ LogoutRequest(r)
  BY <1>2 DEF Arrive, Authorise, Admit, LogoutRequest
<1>3. CASE ChangePassword(r) \/ ResetPassword(r) \/ Disable(r) \/ Enable(r) \/ Delete(r) \/ Write(r)
  BY <1>3 DEF ChangePassword, ResetPassword, Disable, Enable, Delete, Considers, Write
<1>. QED BY <1>1, <1>2, <1>3 DEF Steps

(* Where the request of a step is afterwards, if in a login. *)
LEMMA LoginMoves ==
  ASSUME WaTypes, NEW r \in Requests, Steps(r), waReq'[r].pc \in PcsOfLogin
  PROVE  \/ waReq'[r].pc = "asked" /\ AskLogin(r)
         \/ /\ waReq'[r].pc = "read" /\ LookUp(r)
            /\ waAcct[waReq[r].me].row = "on" /\ waReq'[r].hash = waAcct[waReq[r].me].pw
            /\ waReq'[r].me = waReq[r].me
         \/ /\ waReq'[r].pc = "verified" /\ CheckPassword(r)
            /\ waReq[r].pc = "read" /\ waReq'[r].me = waReq[r].me
            /\ waReq'[r].hash = waReq[r].hash /\ waReq'[r].crossed = waReq[r].crossed
<1>. USE DEF PcsOfLogin
<1>0. waReq \in [Requests -> WaRequests] /\ waReq[r] \in WaRequests
  BY DEF WaTypes, RequestsOK
<1>8. ~Done(r)
  <2>1. Idle.pc = "idle"
    BY DEF Idle
  <2>. QED BY <1>0, <2>1 DEF Done, Set
<1>9. \A pc \in PcsOfLogin \cup PcsOfWork : Goes(r, pc) => /\ waReq'[r].pc = pc /\ waReq'[r].me = waReq[r].me
                                                         /\ waReq'[r].hash = waReq[r].hash /\ waReq'[r].crossed = waReq[r].crossed
  <2>. SUFFICES ASSUME NEW pc \in PcsOfLogin \cup PcsOfWork, Goes(r, pc)
                PROVE  /\ waReq'[r].pc = pc /\ waReq'[r].me = waReq[r].me
                       /\ waReq'[r].hash = waReq[r].hash /\ waReq'[r].crossed = waReq[r].crossed
    OBVIOUS
  <2>1. waReq'[r] = [waReq[r] EXCEPT !.pc = pc]
    BY <1>0 DEF Goes
  <2>. QED BY <1>0, <2>1, RequestParts
<1>1. CASE AskLogin(r)
  <2>1. waReq'[r].pc = "asked"
    BY <1>0, <1>1 DEF AskLogin, Set, Idle
  <2>. QED BY <1>1, <2>1
<1>2. CASE LookUp(r)
  <2>1. waAcct[waReq[r].me].row = "on" /\ waReq'[r] = [waReq[r] EXCEPT !.pc = "read", !.hash = waAcct[waReq[r].me].pw]
    BY <1>0, <1>2, <1>8 DEF LookUp, Set
  <2>. QED BY <1>0, <1>2, <2>1 DEF WaRequests
<1>3. CASE CheckPassword(r)
  <2>1. Goes(r, "verified") /\ waReq[r].pc = "read"
    BY <1>3, <1>8 DEF CheckPassword, At
  <2>. QED BY <1>3, <1>9, <2>1
<1>4. CASE CreateSession(r) \/ LogoutRequest(r)
  BY <1>4, <1>8 DEF CreateSession, LogoutRequest
<1>5. CASE Arrive(r)
  <2>1. (UNCHANGED waReq /\ waReq[r].pc = "idle") \/ waReq'[r].pc = "session"
    BY <1>0, <1>5 DEF Arrive, Set, Idle, At
  <2>. QED BY <2>1
<1>6. CASE Authorise(r) \/ Admit(r)
  <2>1. Goes(r, "active") \/ Goes(r, "go")
    BY <1>6, <1>8 DEF Authorise, Admit
  <2>2. waReq'[r].pc \in {"active", "go"}
    BY <1>9, <2>1 DEF PcsOfWork
  <2>. QED BY <2>2
<1>7. CASE ChangePassword(r) \/ ResetPassword(r) \/ Disable(r) \/ Enable(r) \/ Delete(r) \/ Write(r)
  <2>1. Goes(r, "write") \/ Goes(r, "revoke")
    BY <1>7, <1>8 DEF ChangePassword, ResetPassword, Disable, Enable, Delete, Considers, Write
  <2>2. waReq'[r].pc \in {"write", "revoke"}
    BY <1>9, <2>1 DEF PcsOfWork
  <2>. QED BY <2>2
<1>. QED BY <1>1, <1>2, <1>3, <1>4, <1>5, <1>6, <1>7 DEF Steps

(* A step changes no row, or writes one: this row stays as a login has     *)
(* read it, or its sessions are about to be ended.                         *)
LEMMA RowsMove ==
  ASSUME WaTypes, NEW r \in Requests, Steps(r)
  PROVE  \/ UNCHANGED waAcct
         \/ /\ Write(r) /\ waReq[r].op \in Operations \ {"logout"} /\ waReq[r].who \in Accounts
            /\ waAcct[waReq[r].who] \in WaRows
            /\ waAcct' = [waAcct EXCEPT ![waReq[r].who] = Rewritten(waReq[r].op, waAcct[waReq[r].who])]
            /\ waReq[r].op # "enable" => waReq'[r].pc = "revoke" /\ waReq'[r].who = waReq[r].who
<1>1. CASE Write(r)
  <2>1. waReq[r] \in WaRequests /\ waReq[r].op \in Operations \ {"logout"} /\ waReq[r].who \in Accounts
    BY <1>1 DEF Write, At, WaTypes, RequestsOK, RequestOK, PcsOfWork
  <2>2. waReq[r].op # "enable" => Goes(r, "revoke")
    BY <1>1 DEF Write
  <2>3. Goes(r, "revoke") => waReq'[r].pc = "revoke" /\ waReq'[r].who = waReq[r].who
    BY <2>1, RequestParts DEF Goes, WaTypes, RequestsOK, PcsOfWork
  <2>. QED BY <1>1, <2>1, <2>2, <2>3 DEF Write, WaTypes, RowsOK
<1>2. CASE ~Write(r)
  BY <1>2 DEF Steps, AskLogin, LookUp, CheckPassword, CreateSession, Arrive, Authorise, Admit, LogoutRequest,
     ChangePassword, ResetPassword, Disable, Enable, Delete, Considers, KeepLogin
<1>. QED BY <1>1, <1>2

LEMMA TrueKept ==
  ASSUME WaTypes, NEW r \in Requests, Steps(r)
  PROVE  \A u \in Accounts, pw \in Nat : TrueOrPending(u, pw) => TrueOrPending(u, pw)'
<1>. SUFFICES ASSUME NEW u \in Accounts, NEW pw \in Nat, TrueOrPending(u, pw) PROVE TrueOrPending(u, pw)'
  OBVIOUS
<1>0. RequestsOK /\ RowsOK
  BY DEF WaTypes
<1>1. CASE Pending(u)
  <2>1. PICK x \in Requests : At(x, "revoke") /\ waReq[x].who = u
    BY <1>1 DEF Pending
  <2>2. waReq'[x] = waReq[x]
    BY <1>0, <2>1, OneMoves DEF At
  <2>. QED BY <2>1, <2>2 DEF TrueOrPending, Pending, At
<1>2. CASE waAcct[u].row = "on" /\ waAcct[u].pw = pw
  <2>1. CASE UNCHANGED waAcct
    BY <1>2, <2>1 DEF TrueOrPending
  <2>2. CASE /\ waReq[r].op \in Operations \ {"logout"} /\ waReq[r].who \in Accounts
             /\ waAcct[waReq[r].who] \in WaRows
             /\ waAcct' = [waAcct EXCEPT ![waReq[r].who] = Rewritten(waReq[r].op, waAcct[waReq[r].who])]
             /\ waReq[r].op # "enable" => waReq'[r].pc = "revoke" /\ waReq'[r].who = waReq[r].who
    <3>1. CASE waReq[r].who # u
      BY <1>0, <1>2, <2>2, <3>1 DEF TrueOrPending, RowsOK
    <3>2. CASE waReq[r].who = u /\ waReq[r].op = "enable"
      <4>1. Rewritten("enable", waAcct[u]).row = "on" /\ Rewritten("enable", waAcct[u]).pw = pw
        BY <1>2, <2>2, <3>2, RewrittenIs
      <4>2. waAcct'[u] = Rewritten("enable", waAcct[u])
        BY <1>0, <2>2, <3>2 DEF RowsOK
      <4>. QED BY <4>1, <4>2 DEF TrueOrPending
    <3>3. CASE waReq[r].who = u /\ waReq[r].op # "enable"
      <4>1. waReq'[r].pc = "revoke" /\ waReq'[r].who = u
        BY <2>2, <3>3
      <4>. QED BY <4>1 DEF TrueOrPending, Pending, At
    <3>. QED BY <3>1, <3>2, <3>3
  <2>. QED BY <2>1, <2>2, RowsMove
<1>. QED BY <1>1, <1>2 DEF TrueOrPending

(* The end of all sessions of an account takes nothing from another.       *)
LEMMA TrueOfOthers ==
  ASSUME WaTypes, NEW r \in Requests, Revoke(r)
  PROVE  \A u \in Accounts \ {waReq[r].who}, pw \in Nat : TrueOrPending(u, pw) => TrueOrPending(u, pw)'
<1>. SUFFICES ASSUME NEW u \in Accounts \ {waReq[r].who}, NEW pw \in Nat, TrueOrPending(u, pw) PROVE TrueOrPending(u, pw)'
  OBVIOUS
<1>1. CASE Pending(u)
  <2>1. PICK x \in Requests : At(x, "revoke") /\ waReq[x].who = u
    BY <1>1 DEF Pending
  <2>2. waReq'[x] = waReq[x]
    BY <2>1 DEF Revoke, At
  <2>. QED BY <2>1, <2>2 DEF TrueOrPending, Pending, At
<1>2. CASE waAcct[u].row = "on" /\ waAcct[u].pw = pw
  BY <1>2 DEF Revoke, TrueOrPending
<1>. QED BY <1>1, <1>2 DEF TrueOrPending

LEMMA RowReadStep == WaTypes /\ RowRead /\ [WaStep \/ Tick]_waVars => RowRead'
<1>. SUFFICES ASSUME WaTypes, RowRead, [WaStep \/ Tick]_waVars, NEW x \in Requests,
                     waReq'[x].pc \in {"read", "verified"}, ~waReq'[x].crossed
              PROVE  TrueOrPending(waReq[x].me, waReq[x].hash)'
  BY DEF RowRead
<1>0. waReq \in [Requests -> WaRequests] /\ waReq[x] \in WaRequests /\ waReq[x].hash \in Nat /\ RequestsOK
  BY DEF WaTypes, RequestsOK, WaRequests
<1>1. waReq[x].pc \in {"read", "verified"} => waReq[x].me \in Accounts
  BY DEF WaTypes, RequestsOK, RequestOK, PcsOfLogin
<1>2. ASSUME NEW r \in Requests, Steps(r) PROVE TrueOrPending(waReq[x].me, waReq[x].hash)'
  <2>1. CASE x # r
    <3>1. waReq'[x] = waReq[x]
      BY <1>0, <1>2, <2>1, OneMoves
    <3>2. TrueOrPending(waReq[x].me, waReq[x].hash)
      BY <3>1 DEF RowRead
    <3>. QED BY <1>0, <1>1, <1>2, <3>1, <3>2, TrueKept DEF TrueOrPending, Pending, At
  <2>2. CASE x = r /\ LookUp(r) /\ waAcct[waReq[r].me].row = "on" /\ waReq'[r].hash = waAcct[waReq[r].me].pw
             /\ waReq'[r].me = waReq[r].me
    <3>1. UNCHANGED waAcct
      BY <2>2 DEF LookUp, KeepLogin
    <3>. QED BY <2>2, <3>1 DEF TrueOrPending
  <2>3. CASE x = r /\ CheckPassword(r) /\ waReq[r].pc = "read" /\ waReq'[r].me = waReq[r].me
             /\ waReq'[r].hash = waReq[r].hash /\ waReq'[r].crossed = waReq[r].crossed
    <3>1. TrueOrPending(waReq[x].me, waReq[x].hash)
      BY <2>3 DEF RowRead
    <3>. QED BY <1>0, <1>1, <1>2, <2>3, <3>1, TrueKept DEF TrueOrPending, Pending, At
  <2>. QED BY <1>2, <2>1, <2>2, <2>3, LoginMoves DEF PcsOfLogin
<1>3. ASSUME NEW r \in Requests, Revoke(r) PROVE TrueOrPending(waReq[x].me, waReq[x].hash)'
  <2>1. x # r
    BY <1>0, <1>3 DEF Revoke, Idle
  <2>2. waReq'[x] = waReq[x] /\ waReq[x].me # waReq[r].who
    <3>1. CASE waReq[x].me = waReq[r].who /\ waReq[x].pc \in {"read", "verified"}
      <4>1. waReq'[x] = [waReq[x] EXCEPT !.crossed = TRUE]
        BY <1>3, <2>1, <3>1 DEF Revoke
      <4>. QED BY <1>0, <4>1, RequestParts
    <3>2. CASE ~(waReq[x].me = waReq[r].who /\ waReq[x].pc \in {"read", "verified"})
      <4>1. waReq'[x] = waReq[x]
        BY <1>3, <2>1, <3>2 DEF Revoke
      <4>. QED BY <3>2, <4>1
    <3>. QED BY <3>1, <3>2
  <2>3. TrueOrPending(waReq[x].me, waReq[x].hash)
    BY <2>2 DEF RowRead
  <2>. QED BY <1>0, <1>1, <1>3, <2>2, <2>3, TrueOfOthers DEF TrueOrPending, Pending, At
<1>4. ~AuthRestart
  <2>1. AuthRestart => waReq'[x] = Idle
    BY DEF AuthRestart
  <2>2. Idle.pc = "idle"
    BY DEF Idle
  <2>. QED BY <2>1, <2>2
<1>5. CASE Tick \/ Prune \/ UNCHANGED waVars
  BY <1>5 DEF Tick, Prune, waVars, RowRead, TrueOrPending, Pending, At
<1>. QED BY <1>2, <1>3, <1>4, <1>5, StepsAll

(* What a session is after a step: it has ended, goes on with the same     *)
(* account and password, or has just been opened.                          *)
LEMMA SessionMoves ==
  ASSUME WaTypes, WithinLimit, NEW t \in Tokens,
         Prune \/ AuthRestart \/ Tick \/ UNCHANGED waSess \/ \E r \in Requests : Steps(r) \/ Revoke(r)
  PROVE  /\ waSess'[t].left <= waSess'[t].cap
         /\ \/ waSess'[t] = NoSess
            \/ /\ waSess[t] # NoSess /\ waSess'[t].user = waSess[t].user
               /\ waSess'[t].pw = waSess[t].pw /\ waSess'[t].late = waSess[t].late
            \/ \E r \in Requests : /\ CreateSession(r) /\ waReq[r].pc = "verified"
                                   /\ waSess'[t].user = waReq[r].me /\ waSess'[t].pw = waReq[r].pw
                                   /\ waSess'[t].late = waReq[r].crossed
<1>0. waSess \in [Tokens -> WaSessions] /\ waSess[t] \in WaSessions /\ waSess[t].left <= waSess[t].cap
  BY DEF WaTypes, SessionsOK, WithinLimit
<1>1. NoSess.left <= NoSess.cap
  BY DEF NoSess
<1>2. CASE waSess'[t] \in {NoSess, waSess[t]}
  BY <1>0, <1>1, <1>2
<1>3. CASE Prune \/ AuthRestart \/ UNCHANGED waSess
  BY <1>0, <1>2, <1>3 DEF Prune, Pruned, AuthRestart
<1>4. CASE Tick
  <2>1. CASE ~Live(waSess[t])
    BY <1>0, <1>2, <1>4, <2>1 DEF Tick
  <2>2. CASE Live(waSess[t])
    <3>1. waSess'[t] = Aged(waSess[t]) /\ waSess[t] # NoSess
      BY <1>4, <2>2 DEF Tick, Aged, Live
    <3>2. waSess[t].left \in Nat /\ waSess[t].cap \in Nat
      BY <1>0 DEF WaSessions
    <3>. QED BY <1>0, <2>2, <3>1, <3>2, AgedIs
  <2>. QED BY <2>1, <2>2
<1>5. ASSUME NEW r \in Requests, Admit(r) PROVE \/ waSess'[t] \in {NoSess, waSess[t]}
                                                \/ /\ waSess'[t].left <= waSess'[t].cap
                                                   /\ waSess[t] # NoSess /\ waSess'[t].user = waSess[t].user
                                                   /\ waSess'[t].pw = waSess[t].pw /\ waSess'[t].late = waSess[t].late
  <2>1. CASE Live(waSess[waReq[r].token]) /\ t = waReq[r].token
    <3>1. waSess'[t] = Touched(waSess[t]) /\ waSess[t] # NoSess
      BY <1>0, <1>5, <2>1 DEF Admit, Live
    <3>2. waSess[t].cap \in Nat
      BY <1>0 DEF WaSessions
    <3>3. PICK l \in Nat : l <= waSess[t].cap /\ Touched(waSess[t]) = [waSess[t] EXCEPT !.left = l]
      <4>1. CASE TTL > waSess[t].cap
        BY <3>2, <4>1 DEF Touched
      <4>2. CASE ~(TTL > waSess[t].cap)
        BY <3>2, <4>2, WebAuthAssumption DEF Touched
      <4>. QED BY <4>1, <4>2
    <3>. QED BY <1>0, <3>1, <3>3, SetLeft
  <2>2. CASE ~(Live(waSess[waReq[r].token]) /\ t = waReq[r].token)
    BY <1>0, <1>5, <2>2 DEF Admit, Without
  <2>. QED BY <2>1, <2>2
<1>6. ASSUME NEW r \in Requests, CreateSession(r)
      PROVE  \/ waSess'[t] \in {NoSess, waSess[t]}
             \/ /\ waSess'[t].left <= waSess'[t].cap /\ waReq[r].pc = "verified"
                /\ waSess'[t].user = waReq[r].me /\ waSess'[t].pw = waReq[r].pw
                /\ waSess'[t].late = waReq[r].crossed
  <2>. DEFINE s == [user |-> waReq[r].me, left |-> TTL, cap |-> 2 * TTL, pw |-> waReq[r].pw, late |-> waReq[r].crossed]
  <2>1. PICK z \in Tokens : waSess' = Pruned([waSess EXCEPT ![z] = s])
    BY <1>6 DEF CreateSession
  <2>2. waSess'[t] \in {NoSess, waSess[t], s}
    BY <1>0, <2>1 DEF Pruned
  <2>3. s.left <= s.cap /\ s.user = waReq[r].me /\ s.pw = waReq[r].pw /\ s.late = waReq[r].crossed
    BY WebAuthAssumption
  <2>4. waReq[r].pc = "verified"
    BY <1>6 DEF CreateSession, At
  <2>. HIDE DEF s
  <2>. QED BY <2>2, <2>3, <2>4
<1>7. ASSUME NEW r \in Requests, Steps(r) \/ Revoke(r), ~Admit(r), ~CreateSession(r) PROVE waSess'[t] \in {NoSess, waSess[t]}
  <2>1. \/ UNCHANGED waSess
        \/ \E z : waSess' = [waSess EXCEPT ![z] = NoSess]
        \/ \E u : waSess' = [z \in Tokens |-> IF waSess[z].user = u THEN NoSess ELSE waSess[z]]
    <3>1. CASE Arrive(r) \/ Authorise(r) \/ LogoutRequest(r)
      BY <3>1 DEF Arrive, Authorise, LogoutRequest, Without
    <3>2. CASE Revoke(r)
      BY <3>2 DEF Revoke
    <3>3. CASE AskLogin(r) \/ LookUp(r) \/ CheckPassword(r) \/ ChangePassword(r) \/ ResetPassword(r) \/ Disable(r)
               \/ Enable(r) \/ Delete(r) \/ Write(r)
      BY <3>3 DEF AskLogin, LookUp, CheckPassword, ChangePassword, ResetPassword, Disable, Enable, Delete, Considers,
         Write, KeepLogin
    <3>. QED BY <1>7, <3>1, <3>2, <3>3 DEF Steps
  <2>. QED BY <1>0, <2>1
<1>8. ASSUME NEW r \in Requests, Steps(r) \/ Revoke(r)
      PROVE  /\ waSess'[t].left <= waSess'[t].cap
             /\ \/ waSess'[t] = NoSess
                \/ /\ waSess[t] # NoSess /\ waSess'[t].user = waSess[t].user
                   /\ waSess'[t].pw = waSess[t].pw /\ waSess'[t].late = waSess[t].late
                \/ /\ CreateSession(r) /\ waReq[r].pc = "verified"
                   /\ waSess'[t].user = waReq[r].me /\ waSess'[t].pw = waReq[r].pw
                   /\ waSess'[t].late = waReq[r].crossed
  <2>1. CASE waSess'[t] \in {NoSess, waSess[t]}
    BY <1>0, <1>1, <2>1
  <2>. QED BY <1>5, <1>6, <1>7, <1>8, <2>1
<1>. QED BY <1>3, <1>4, <1>8, <1>0, <1>1

LEMMA SessionsTrueStep ==
  WaTypes /\ RowRead /\ SessionsTrue /\ WithinLimit /\ [WaStep \/ Tick]_waVars => SessionsTrue' /\ WithinLimit'
<1>. SUFFICES ASSUME WaTypes, RowRead, SessionsTrue, WithinLimit, [WaStep \/ Tick]_waVars PROVE SessionsTrue' /\ WithinLimit'
  OBVIOUS
<1>0. Prune \/ AuthRestart \/ Tick \/ UNCHANGED waVars \/ \E r \in Requests : Steps(r) \/ Revoke(r)
  BY StepsAll
<1>1. WithinLimit'
  BY <1>0, SessionMoves DEF WithinLimit, waVars
<1>. SUFFICES ASSUME NEW t \in Tokens, waSess'[t] # NoSess, ~waSess'[t].late
              PROVE  TrueOrPending(waSess[t].user, waSess[t].pw)'
  BY <1>1 DEF SessionsTrue
<1>2. waSess[t] \in WaSessions /\ waSess[t].pw \in Nat
  BY DEF WaTypes, SessionsOK, WaSessions
<1>3. CASE /\ waSess[t] # NoSess /\ waSess'[t].user = waSess[t].user
           /\ waSess'[t].pw = waSess[t].pw /\ waSess'[t].late = waSess[t].late
  <2>1. TrueOrPending(waSess[t].user, waSess[t].pw) /\ waSess[t].user = Admin /\ Admin \in Accounts
    BY <1>3, WebAuthAssumption DEF SessionsTrue, WaTypes, SessionsOK
  <2>2. ASSUME NEW r \in Requests, Steps(r) PROVE TrueOrPending(waSess[t].user, waSess[t].pw)'
    BY <1>2, <1>3, <2>1, <2>2, TrueKept DEF TrueOrPending, Pending, At
  <2>3. ASSUME NEW r \in Requests, Revoke(r) PROVE TrueOrPending(waSess[t].user, waSess[t].pw)'
    <3>1. waSess[t].user # waReq[r].who
      BY <2>3 DEF Revoke
    <3>. QED BY <1>2, <1>3, <2>1, <2>3, <3>1, TrueOfOthers DEF TrueOrPending, Pending, At
  <2>4. ~AuthRestart
    BY DEF AuthRestart
  <2>5. CASE Tick \/ Prune \/ UNCHANGED waVars
    <3>1. UNCHANGED <<waAcct, waReq>>
      BY <2>5 DEF Tick, Prune, waVars
    <3>. QED BY <1>3, <2>1, <3>1 DEF TrueOrPending, Pending, At
  <2>. QED BY <1>0, <2>2, <2>3, <2>4, <2>5
<1>4. ASSUME NEW r \in Requests, CreateSession(r), waReq[r].pc = "verified",
             waSess'[t].user = waReq[r].me, waSess'[t].pw = waReq[r].pw, waSess'[t].late = waReq[r].crossed
      PROVE  TrueOrPending(waSess[t].user, waSess[t].pw)'
  <2>1. TrueOrPending(waReq[r].me, waReq[r].hash)
    BY <1>4 DEF RowRead
  <2>2. waReq[r].hash = waReq[r].pw /\ waReq[r].pw \in Nat /\ waReq[r].me \in Accounts
    BY <1>4, WebAuthAssumption DEF WaTypes, RequestsOK, RequestOK, WaRequests
  <2>3. Steps(r)
    BY <1>4 DEF Steps
  <2>. QED BY <1>4, <2>1, <2>2, <2>3, TrueKept DEF TrueOrPending, Pending, At
<1>5. CASE UNCHANGED waVars
  BY <1>5 DEF SessionsTrue, TrueOrPending, Pending, At, waVars
<1>. QED BY <1>0, <1>3, <1>4, <1>5, SessionMoves

(* The last administrator: its guard is asked before the write. *)
LEMMA GuardedStep == WaTypes /\ Guarded /\ AdminRemains /\ [WaStep \/ Tick]_waVars => Guarded' /\ AdminRemains'
<1>. SUFFICES ASSUME WaTypes, Guarded, AdminRemains, [WaStep \/ Tick]_waVars PROVE Guarded' /\ AdminRemains'
  OBVIOUS
<1>0. waReq \in [Requests -> WaRequests] /\ RequestsOK /\ waAcct \in [Accounts -> WaRows] /\ Admin \in Accounts
  BY WebAuthAssumption DEF WaTypes, RequestsOK, RowsOK
<1>1. AdminRemains'
  <2>1. ASSUME NEW r \in Requests, Steps(r) PROVE AdminRemains'
    <3>1. CASE UNCHANGED waAcct
      BY <3>1 DEF AdminRemains
    <3>2. CASE /\ Write(r) /\ waReq[r].op \in Operations \ {"logout"} /\ waReq[r].who \in Accounts
               /\ waAcct[waReq[r].who] \in WaRows
               /\ waAcct' = [waAcct EXCEPT ![waReq[r].who] = Rewritten(waReq[r].op, waAcct[waReq[r].who])]
      <4>1. waReq[r].op \in {"disable", "delete"} => waReq[r].who # Admin
        BY <3>2 DEF Write, At, Guarded
      <4>2. CASE waReq[r].who # Admin
        BY <1>0, <3>2, <4>2 DEF AdminRemains
      <4>3. CASE waReq[r].who = Admin /\ waReq[r].op \notin {"disable", "delete"}
        <5>1. Rewritten(waReq[r].op, waAcct[Admin]).row = "on"
          BY <3>2, <4>3, RewrittenIs DEF AdminRemains
        <5>. QED BY <1>0, <3>2, <4>3, <5>1 DEF AdminRemains
      <4>. QED BY <4>1, <4>2, <4>3
    <3>. QED BY <2>1, <3>1, <3>2, RowsMove
  <2>2. CASE UNCHANGED waAcct
    BY <2>2 DEF AdminRemains
  <2>3. CASE AuthRestart
    <3>1. waAcct'[Admin].row = waAcct[Admin].row
      BY <1>0, <2>3 DEF AuthRestart, WaRows
    <3>. QED BY <3>1 DEF AdminRemains
  <2>. QED BY <2>1, <2>2, <2>3, StepsAll DEF Revoke, Prune, Tick, waVars
<1>2. Guarded'
  <2>. SUFFICES ASSUME NEW x \in Requests, waReq'[x].pc = "write", waReq'[x].op \in {"disable", "delete"}
                PROVE  waReq'[x].who # Admin
    BY DEF Guarded
  <2>1. waReq'[x] = waReq[x] => waReq'[x].who # Admin
    BY DEF Guarded
  <2>2. waReq'[x] # Idle
    <3>1. Idle.pc = "idle"
      BY DEF Idle
    <3>. QED BY <3>1
  <2>3. ASSUME Steps(x) PROVE waReq'[x].who # Admin
    <3>0. ~Done(x)
      BY <1>0, <2>2 DEF Done, Set
    <3>1. CASE ChangePassword(x) \/ ResetPassword(x) \/ Disable(x) \/ Enable(x) \/ Delete(x)
      <4>1. Goes(x, "write")
        BY <3>0, <3>1 DEF ChangePassword, ResetPassword, Disable, Enable, Delete, Considers
      <4>2. waReq'[x] = [waReq[x] EXCEPT !.pc = "write"] /\ waReq[x] \in WaRequests
        BY <1>0, <4>1 DEF Goes
      <4>3. waReq'[x].op = waReq[x].op /\ waReq'[x].who = waReq[x].who
        BY <4>2, RequestParts DEF PcsOfWork
      <4>4. ~LastAdmin(waReq[x].who)
        BY <3>0, <3>1, <4>3 DEF ChangePassword, ResetPassword, Disable, Enable, Delete, Considers
      <4>. QED BY <4>3, <4>4 DEF LastAdmin, AdminRemains
    <3>2. CASE AskLogin(x) \/ LookUp(x) \/ CheckPassword(x) \/ CreateSession(x)
      <4>1. waReq'[x].pc \in {"asked", "read", "verified"}
        <5>1. CASE AskLogin(x)
          BY <1>0, <5>1 DEF AskLogin, Set, Idle
        <5>3. CASE LookUp(x)
          <6>1. waReq'[x] = [waReq[x] EXCEPT !.pc = "read", !.hash = waAcct[waReq[x].me].pw] /\ waReq[x] \in WaRequests
            BY <1>0, <3>0, <5>3 DEF LookUp, Set
          <6>. QED BY <6>1 DEF WaRequests
        <5>2. CASE CheckPassword(x) \/ CreateSession(x)
          <6>1. Goes(x, "verified")
            BY <3>0, <5>2 DEF CheckPassword, CreateSession
          <6>2. waReq'[x] = [waReq[x] EXCEPT !.pc = "verified"] /\ waReq[x] \in WaRequests
            BY <1>0, <6>1 DEF Goes
          <6>. QED BY <6>2, RequestParts DEF PcsOfLogin
        <5>. QED BY <3>2, <5>1, <5>2, <5>3
      <4>. QED BY <4>1
    <3>3. CASE Authorise(x) \/ Admit(x) \/ LogoutRequest(x) \/ Write(x)
      <4>1. PICK pc \in {"active", "go", "revoke"} : Goes(x, pc)
        BY <3>0, <3>3 DEF Authorise, Admit, LogoutRequest, Write
      <4>2. waReq'[x] = [waReq[x] EXCEPT !.pc = pc] /\ waReq[x] \in WaRequests
        BY <1>0, <4>1 DEF Goes
      <4>. QED BY <4>2, RequestParts DEF PcsOfWork
    <3>4. CASE Arrive(x)
      <4>1. waReq'[x] = waReq[x] \/ waReq'[x].pc = "session"
        BY <1>0, <3>4 DEF Arrive, Set, Idle
      <4>. QED BY <2>1, <4>1
    <3>. QED BY <2>3, <3>1, <3>2, <3>3, <3>4 DEF Steps
  <2>4. ASSUME NEW r \in Requests, Steps(r) PROVE waReq'[x].who # Admin
    BY <1>0, <2>1, <2>3, <2>4, OneMoves
  <2>5. ASSUME NEW r \in Requests, Revoke(r) PROVE waReq'[x].who # Admin
    <3>1. waReq'[x] \in {Idle, waReq[x], [waReq[x] EXCEPT !.crossed = TRUE]} /\ waReq[x] \in WaRequests
      BY <1>0, <2>5 DEF Revoke
    <3>2. CASE waReq'[x] = [waReq[x] EXCEPT !.crossed = TRUE]
      <4>1. waReq'[x].pc = waReq[x].pc /\ waReq'[x].op = waReq[x].op /\ waReq'[x].who = waReq[x].who
        BY <3>1, <3>2, RequestParts
      <4>. QED BY <4>1 DEF Guarded
    <3>. QED BY <2>1, <2>2, <3>1, <3>2
  <2>6. CASE AuthRestart \/ UNCHANGED waReq
    BY <2>1, <2>2, <2>6 DEF AuthRestart
  <2>. QED BY <2>4, <2>5, <2>6, StepsAll DEF Prune, Tick, waVars
<1>. QED BY <1>1, <1>2

(* Nobody is told to change a password again. *)
LEMMA MustKept ==
  ASSUME WaTypes, [WaStep \/ Tick]_waVars
  PROVE  \A u \in Accounts : waAcct'[u].must => waAcct[u].must
<1>0. waAcct \in [Accounts -> WaRows]
  BY DEF WaTypes, RowsOK
<1>1. ASSUME NEW r \in Requests, Steps(r) PROVE \A u \in Accounts : waAcct'[u].must => waAcct[u].must
  <2>. SUFFICES ASSUME NEW u \in Accounts, waAcct'[u].must PROVE waAcct[u].must
    OBVIOUS
  <2>1. CASE /\ waReq[r].op \in Operations \ {"logout"} /\ waReq[r].who \in Accounts
             /\ waAcct[waReq[r].who] \in WaRows
             /\ waAcct' = [waAcct EXCEPT ![waReq[r].who] = Rewritten(waReq[r].op, waAcct[waReq[r].who])]
    <3>1. Rewritten(waReq[r].op, waAcct[waReq[r].who]).must => waAcct[waReq[r].who].must
      BY <2>1, RewrittenIs
    <3>. QED BY <1>0, <2>1, <3>1
  <2>. QED BY <1>1, <2>1, RowsMove
<1>2. CASE AuthRestart
  <2>1. UNCHANGED waAcct \/ waAcct' = [waAcct EXCEPT ![Admin] = [waAcct[Admin] EXCEPT !.pw = 0, !.must = FALSE]]
    BY <1>0, <1>2 DEF AuthRestart
  <2>2. ~[waAcct[Admin] EXCEPT !.pw = 0, !.must = FALSE].must
    BY <1>0, WebAuthAssumption DEF WaRows
  <2>. QED BY <1>0, <2>1, <2>2, WebAuthAssumption
<1>3. CASE UNCHANGED waAcct
  BY <1>3
<1>. QED BY <1>1, <1>2, <1>3, StepsAll DEF Revoke, Prune, Tick, waVars

LEMMA ChangedStep == WaTypes /\ Changed /\ [WaStep \/ Tick]_waVars => Changed'
<1>. SUFFICES ASSUME WaTypes, Changed, [WaStep \/ Tick]_waVars, NEW x \in Requests,
                     waReq'[x].pc \in {"active", "go", "write", "revoke"}, waReq'[x].op \notin Bypass
              PROVE  ~waAcct'[waReq'[x].me].must
  BY DEF Changed
<1>0. waReq \in [Requests -> WaRequests] /\ waReq[x] \in WaRequests /\ RequestsOK
  BY DEF WaTypes, RequestsOK
<1>1. waReq'[x] # Idle
  <2>1. Idle.pc = "idle"
    BY DEF Idle
  <2>. QED BY <2>1
<1>2. ASSUME waReq[x].pc \in PcsOfWork, waReq'[x].me = waReq[x].me, ~waAcct[waReq[x].me].must
      PROVE  ~waAcct'[waReq'[x].me].must
  BY <1>2, MustKept DEF WaTypes, RequestsOK, RequestOK
<1>3. ASSUME waReq'[x].me = waReq[x].me, waReq'[x].op = waReq[x].op, waReq[x].pc \in {"active", "go", "write", "revoke"}
      PROVE  ~waAcct'[waReq'[x].me].must
  BY <1>2, <1>3 DEF Changed, PcsOfWork
<1>4. waReq'[x] = waReq[x] => ~waAcct'[waReq'[x].me].must
  BY <1>3
<1>5. ASSUME Steps(x) PROVE ~waAcct'[waReq'[x].me].must
  <2>0. ~Done(x)
    BY <1>0, <1>1 DEF Done, Set
  <2>1. CASE Authorise(x)
    <3>1. Goes(x, "active") /\ waReq[x].pc = "session" /\ (~waAcct[waReq[x].me].must \/ waReq[x].op \in Bypass)
      BY <2>0, <2>1 DEF Authorise, At
    <3>2. waReq'[x] = [waReq[x] EXCEPT !.pc = "active"]
      BY <1>0, <3>1 DEF Goes
    <3>3. waReq'[x].op = waReq[x].op /\ waReq'[x].me = waReq[x].me
      BY <1>0, <3>2, RequestParts DEF PcsOfWork
    <3>. QED BY <1>2, <3>1, <3>3 DEF PcsOfWork
  <2>2. CASE Admit(x) \/ ChangePassword(x) \/ ResetPassword(x) \/ Disable(x) \/ Enable(x) \/ Delete(x) \/ Write(x)
    <3>1. /\ waReq[x].pc \in {"active", "go", "write"}
          /\ \E pc \in {"go", "write", "revoke"} : Goes(x, pc)
      BY <2>0, <2>2 DEF Admit, ChangePassword, ResetPassword, Disable, Enable, Delete, Considers, Write, At
    <3>2. PICK pc \in {"go", "write", "revoke"} : waReq'[x] = [waReq[x] EXCEPT !.pc = pc]
      BY <1>0, <3>1 DEF Goes
    <3>3. waReq'[x].op = waReq[x].op /\ waReq'[x].me = waReq[x].me
      BY <1>0, <3>2, RequestParts DEF PcsOfWork
    <3>. QED BY <1>3, <3>1, <3>3
  <2>3. CASE Arrive(x)
    <3>1. waReq'[x] = waReq[x] \/ waReq'[x].pc = "session"
      BY <1>0, <2>3 DEF Arrive, Set, Idle
    <3>. QED BY <1>4, <3>1
  <2>4. CASE AskLogin(x)
    <3>1. waReq'[x].pc = "asked"
      BY <1>0, <2>4 DEF AskLogin, Set, Idle
    <3>. QED BY <3>1
  <2>5. CASE LookUp(x)
    <3>1. waReq'[x] = [waReq[x] EXCEPT !.pc = "read", !.hash = waAcct[waReq[x].me].pw]
      BY <1>0, <2>0, <2>5 DEF LookUp, Set
    <3>2. waReq'[x].pc = "read"
      BY <1>0, <3>1 DEF WaRequests
    <3>. QED BY <3>2
  <2>6. CASE CheckPassword(x) \/ CreateSession(x) \/ LogoutRequest(x)
    <3>1. Goes(x, "verified")
      BY <2>0, <2>6 DEF CheckPassword, CreateSession, LogoutRequest
    <3>2. waReq'[x] = [waReq[x] EXCEPT !.pc = "verified"]
      BY <1>0, <3>1 DEF Goes
    <3>3. waReq'[x].pc = "verified"
      BY <1>0, <3>2, RequestParts DEF PcsOfLogin
    <3>. QED BY <3>3
  <2>. QED BY <1>5, <2>1, <2>2, <2>3, <2>4, <2>5, <2>6 DEF Steps
<1>6. ASSUME NEW r \in Requests, Steps(r) PROVE ~waAcct'[waReq'[x].me].must
  BY <1>0, <1>4, <1>5, <1>6, OneMoves
<1>7. ASSUME NEW r \in Requests, Revoke(r) PROVE ~waAcct'[waReq'[x].me].must
  <2>1. waReq'[x] \in {Idle, waReq[x], [waReq[x] EXCEPT !.crossed = TRUE]}
    BY <1>0, <1>7 DEF Revoke
  <2>2. CASE waReq'[x] = [waReq[x] EXCEPT !.crossed = TRUE]
    <3>1. waReq'[x].pc = waReq[x].pc /\ waReq'[x].op = waReq[x].op /\ waReq'[x].me = waReq[x].me
      BY <1>0, <2>2, RequestParts
    <3>. QED BY <1>3, <3>1
  <2>. QED BY <1>1, <1>4, <2>1, <2>2
<1>8. CASE AuthRestart \/ UNCHANGED waReq
  BY <1>1, <1>4, <1>8 DEF AuthRestart
<1>. QED BY <1>6, <1>7, <1>8, StepsAll DEF Prune, Tick, waVars

-----------------------------------------------------------------------------
(* The failures and the logins that may still fail. *)
LEMMA PendFinite ==
  ASSUME NEW S \in SUBSET Requests
  PROVE  IsFiniteSet(S) /\ Cardinality(S) \in Nat /\ Cardinality(Requests) \in Nat /\ Cardinality(S) <= Cardinality(Requests)
BY WebAuthAssumption, FS_Subset, FS_CardinalityType

(* A login that has ended, or goes on, or begins. *)
LEMMA PendMoves ==
  ASSUME WaTypes, NEW k \in Realms
  PROVE  /\ \A r \in Requests : Steps(r) /\ ~AskLogin(r) => Pend(k)' \subseteq Pend(k)
         /\ \A r \in Requests : Steps(r) /\ Done(r) => Pend(k)' \subseteq Pend(k) \ {r}
         /\ \A r \in Requests : CheckPassword(r) => r \notin Pend(k)'
         /\ \A r \in Requests : AskLogin(r) /\ waReq'[r].op # k => Pend(k)' \subseteq Pend(k)
         /\ \A r \in Requests : Revoke(r) => Pend(k)' \subseteq Pend(k)
         /\ AuthRestart => Pend(k)' = {}
<1>0. waReq \in [Requests -> WaRequests] /\ RequestsOK
  BY DEF WaTypes, RequestsOK
<1>00. Idle.pc = "idle"
  BY DEF Idle
<1>1. ASSUME NEW r \in Requests, Steps(r) PROVE \A x \in Requests \ {r} : x \in Pend(k)' => x \in Pend(k)
  BY <1>0, <1>1, OneMoves DEF Pend
<1>2. ASSUME NEW r \in Requests, Done(r) PROVE r \notin Pend(k)'
  BY <1>0, <1>00, <1>2 DEF Done, Set, Pend
<1>3. ASSUME NEW r \in Requests, Steps(r), ~AskLogin(r), r \in Pend(k)' PROVE r \in Pend(k)
  <2>1. LookUp(r) /\ waReq'[r].pc = "read"
    BY <1>3, LoginMoves DEF Pend, PcsOfLogin
  <2>2. ~Done(r)
    BY <1>2, <1>3
  <2>3. waReq'[r] = [waReq[r] EXCEPT !.pc = "read", !.hash = waAcct[waReq[r].me].pw]
    BY <1>0, <2>1, <2>2 DEF LookUp, Set
  <2>. QED BY <1>0, <1>3, <2>1, <2>3 DEF Pend, LookUp, At, WaRequests
<1>4. ASSUME NEW r \in Requests, CheckPassword(r) PROVE r \notin Pend(k)'
  <2>1. Done(r) \/ Goes(r, "verified")
    BY <1>4 DEF CheckPassword
  <2>2. CASE Goes(r, "verified")
    <3>1. waReq'[r] = [waReq[r] EXCEPT !.pc = "verified"]
      BY <1>0, <2>2 DEF Goes
    <3>2. waReq'[r].pc = "verified"
      BY <1>0, <3>1, RequestParts DEF PcsOfLogin
    <3>. QED BY <3>2 DEF Pend
  <2>. QED BY <1>2, <2>1, <2>2
<1>5. ASSUME NEW r \in Requests, Revoke(r) PROVE Pend(k)' \subseteq Pend(k)
  <2>. SUFFICES ASSUME NEW x \in Pend(k)' PROVE x \in Pend(k)
    OBVIOUS
  <2>0. x \in Requests
    BY DEF Pend
  <2>1. waReq'[x] \in {Idle, waReq[x], [waReq[x] EXCEPT !.crossed = TRUE]} /\ waReq[x] \in WaRequests
    BY <1>0, <1>5, <2>0 DEF Revoke
  <2>2. waReq'[x] # Idle
    BY <1>00 DEF Pend
  <2>3. waReq'[x].pc = waReq[x].pc /\ waReq'[x].op = waReq[x].op
    BY <2>1, <2>2, RequestParts
  <2>. QED BY <2>0, <2>3 DEF Pend
<1>6. ASSUME AuthRestart PROVE Pend(k)' = {}
  BY <1>00, <1>6 DEF AuthRestart, Pend
<1>7. \A r \in Requests : Steps(r) => Pend(k)' \subseteq Pend(k) \cup {r}
  BY <1>1 DEF Pend
<1>8. ASSUME NEW r \in Requests, AskLogin(r), waReq'[r].op # k PROVE r \notin Pend(k)'
  BY <1>8 DEF Pend
<1>. QED BY <1>1, <1>2, <1>3, <1>4, <1>5, <1>6, <1>7, <1>8 DEF Steps

LEMMA FailuresStep == WaTypes /\ FailuresBounded /\ [WaStep \/ Tick]_waVars => FailuresBounded'
<1>. SUFFICES ASSUME WaTypes, FailuresBounded, [WaStep \/ Tick]_waVars, NEW k \in Realms
              PROVE  waLock'[k].n + Cardinality(Pend(k)') <= MaxAttempts - 1 + Cardinality(Requests)
  BY DEF FailuresBounded
<1>. USE WebAuthAssumption
<1>0. waLock \in [Realms -> WaLocks] /\ waLock[k].n \in Nat /\ waReq \in [Requests -> WaRequests] /\ RequestsOK
  BY DEF WaTypes, LocksOK, WaLocks, RequestsOK
<1>1. /\ waLock[k].n + Cardinality(Pend(k)) <= MaxAttempts - 1 + Cardinality(Requests)
      /\ Pend(k) \in SUBSET Requests /\ Pend(k)' \in SUBSET Requests
  BY DEF FailuresBounded, Pend
<1>2. /\ IsFiniteSet(Pend(k)) /\ IsFiniteSet(Pend(k)') /\ Cardinality(Pend(k)) \in Nat /\ Cardinality(Pend(k)') \in Nat
      /\ Cardinality(Requests) \in Nat /\ Cardinality(Pend(k)') <= Cardinality(Requests)
  BY <1>1, PendFinite
<1>3. ASSUME Pend(k)' \subseteq Pend(k), waLock'[k].n \in Nat, waLock'[k].n <= waLock[k].n
      PROVE  waLock'[k].n + Cardinality(Pend(k)') <= MaxAttempts - 1 + Cardinality(Requests)
  <2>1. Cardinality(Pend(k)') <= Cardinality(Pend(k))
    BY <1>2, <1>3, FS_Subset
  <2>. QED BY <1>0, <1>1, <1>2, <1>3, <2>1
<1>4. ASSUME NEW r \in Pend(k), Pend(k)' \subseteq Pend(k) \ {r}, waLock'[k].n = waLock[k].n + 1
      PROVE  waLock'[k].n + Cardinality(Pend(k)') <= MaxAttempts - 1 + Cardinality(Requests)
  <2>1. IsFiniteSet(Pend(k) \ {r}) /\ Cardinality(Pend(k) \ {r}) = Cardinality(Pend(k)) - 1
    BY <1>2, FS_RemoveElement
  <2>2. Cardinality(Pend(k)') <= Cardinality(Pend(k) \ {r})
    BY <1>4, <2>1, FS_Subset
  <2>. QED BY <1>0, <1>1, <1>2, <1>4, <2>1, <2>2
<1>5. ASSUME waLock'[k].n \in Nat, waLock'[k].n <= MaxAttempts - 1
      PROVE  waLock'[k].n + Cardinality(Pend(k)') <= MaxAttempts - 1 + Cardinality(Requests)
  BY <1>2, <1>5
<1>6. ASSUME NEW r \in Requests \ Pend(k)', waLock'[k].n = 1
      PROVE  waLock'[k].n + Cardinality(Pend(k)') <= MaxAttempts - 1 + Cardinality(Requests)
  <2>1. IsFiniteSet(Requests \ {r}) /\ Cardinality(Requests \ {r}) = Cardinality(Requests) - 1
    BY FS_RemoveElement
  <2>2. Pend(k)' \subseteq Requests \ {r}
    BY <1>1, <1>6
  <2>3. Cardinality(Pend(k)') <= Cardinality(Requests \ {r})
    BY <2>1, <2>2, FS_Subset
  <2>. QED BY <1>2, <1>6, <2>1, <2>3
<1>7. ASSUME NEW r \in Requests, AskLogin(r)
      PROVE  waLock'[k].n + Cardinality(Pend(k)') <= MaxAttempts - 1 + Cardinality(Requests)
  <2>1. PICK j \in Realms : /\ ~IsLocked(j) /\ waReq'[r].op = j
                            /\ waLock' = IF waLock[j].n >= MaxAttempts THEN ClearFailures(j) ELSE waLock
    BY <1>0, <1>7 DEF AskLogin, Set, Idle
  <2>2. CASE j # k
    <3>1. waLock'[k] = waLock[k]
      BY <1>0, <2>1, <2>2 DEF ClearFailures
    <3>2. Pend(k)' \subseteq Pend(k)
      BY <1>7, <2>1, <2>2, PendMoves
    <3>. QED BY <1>0, <1>3, <3>1, <3>2
  <2>3. CASE j = k /\ waLock[k].n >= MaxAttempts
    <3>1. waLock'[k].n = 0
      BY <1>0, <2>1, <2>3 DEF ClearFailures
    <3>. QED BY <1>5, <3>1
  <2>4. CASE j = k /\ ~(waLock[k].n >= MaxAttempts)
    <3>1. waLock'[k].n = waLock[k].n
      BY <2>1, <2>4
    <3>. QED BY <1>0, <1>5, <2>4, <3>1
  <2>. QED BY <2>2, <2>3, <2>4
<1>8. ASSUME NEW r \in Requests, LookUp(r) \/ CheckPassword(r)
      PROVE  waLock'[k].n + Cardinality(Pend(k)') <= MaxAttempts - 1 + Cardinality(Requests)
  <2>. DEFINE j == waReq[r].op
  <2>0. j \in Realms /\ (j = k => r \in Pend(k)) /\ Steps(r) /\ ~AskLogin(r)
    BY <1>8 DEF LookUp, CheckPassword, At, WaTypes, RequestsOK, RequestOK, PcsOfLogin, Pend, Steps, AskLogin
  <2>1. \/ UNCHANGED waLock
        \/ Done(r) /\ waLock' = RecordFailure(j)
        \/ waLock' = ClearFailures(j)
        \/ Done(r) /\ \E l : waLock' = [waLock EXCEPT ![j] = [n |-> 1, left |-> l]]
    BY <1>8 DEF LookUp, CheckPassword
  <2>2. Pend(k)' \subseteq Pend(k)
    BY <2>0, PendMoves
  <2>3. CASE j # k \/ UNCHANGED waLock
    <3>1. waLock'[k] = waLock[k]
      BY <1>0, <2>0, <2>1, <2>3 DEF RecordFailure, ClearFailures
    <3>. QED BY <1>0, <1>3, <2>2, <3>1
  <2>4. CASE j = k /\ Done(r) /\ waLock' = RecordFailure(j)
    <3>1. waLock'[k].n = waLock[k].n + 1
      BY <1>0, <2>4 DEF RecordFailure, WaLocks
    <3>2. Pend(k)' \subseteq Pend(k) \ {r}
      BY <2>0, <2>4, PendMoves
    <3>. QED BY <1>4, <2>0, <2>4, <3>1, <3>2
  <2>5. CASE j = k /\ waLock' = ClearFailures(j)
    <3>1. waLock'[k].n = 0
      BY <1>0, <2>5 DEF ClearFailures
    <3>. QED BY <1>5, <3>1
  <2>6. CASE j = k /\ Done(r) /\ \E l : waLock' = [waLock EXCEPT ![j] = [n |-> 1, left |-> l]]
    <3>1. waLock'[k].n = 1
      BY <1>0, <2>6
    <3>2. r \notin Pend(k)'
      BY <2>0, <2>6, PendMoves
    <3>. QED BY <1>6, <3>1, <3>2
  <2>. QED BY <2>1, <2>3, <2>4, <2>5, <2>6
<1>9. ASSUME NEW r \in Requests, Steps(r) \/ Revoke(r), ~AskLogin(r), ~LookUp(r), ~CheckPassword(r)
      PROVE  waLock'[k].n + Cardinality(Pend(k)') <= MaxAttempts - 1 + Cardinality(Requests)
  <2>1. UNCHANGED waLock
    BY <1>9 DEF Steps, CreateSession, Arrive, Authorise, Admit, LogoutRequest, ChangePassword, ResetPassword, Disable,
       Enable, Delete, Considers, Write, Revoke
  <2>2. Pend(k)' \subseteq Pend(k)
    BY <1>9, PendMoves
  <2>. QED BY <1>0, <1>3, <2>1, <2>2
<1>10. CASE AuthRestart
  <2>1. waLock'[k].n = 0
    BY <1>10 DEF AuthRestart
  <2>. QED BY <1>5, <2>1
<1>11. CASE Tick \/ Prune \/ UNCHANGED waVars
  <2>1. Pend(k)' = Pend(k)
    BY <1>11 DEF Tick, Prune, waVars, Pend
  <2>2. waLock'[k].n \in Nat /\ waLock'[k].n <= waLock[k].n
    <3>1. CASE Tick
      <4>1. waLock[k] \in WaLocks /\ \E l : waLock'[k] = [waLock[k] EXCEPT !.left = l]
        BY <1>0, <3>1 DEF Tick
      <4>2. waLock'[k].n = waLock[k].n
        BY <4>1 DEF WaLocks
      <4>. QED BY <1>0, <4>2
    <3>2. CASE Prune
      BY <1>0, <3>2 DEF Prune
    <3>3. CASE UNCHANGED waVars
      BY <1>0, <3>3 DEF waVars
    <3>. QED BY <1>11, <3>1, <3>2, <3>3
  <2>. QED BY <1>3, <2>1, <2>2
<1>. QED BY <1>7, <1>8, <1>9, <1>10, <1>11, StepsAll

-----------------------------------------------------------------------------
LEMMA WaInitInv == WaInit => WaInv
<1>. SUFFICES ASSUME WaInit PROVE WaInv
  OBVIOUS
<1>. USE WebAuthAssumption DEF WaInit
<1>0. Idle.pc = "idle" /\ NoSess.left = 0 /\ NoSess.cap = 0 /\ NoSess \in WaSessions
  BY DEF Idle, NoSess, WaSessions
<1>1. RowsOK
  BY DEF RowsOK, WaRows
<1>2. SessionsOK
  BY <1>0 DEF SessionsOK
<1>3. LocksOK
  BY DEF LocksOK
<1>4. RequestsOK
  BY RequestParts DEF RequestsOK
<1>5. RowRead /\ Guarded /\ Changed
  BY <1>0 DEF RowRead, Guarded, Changed
<1>6. SessionsTrue /\ WithinLimit /\ AdminRemains
  BY <1>0 DEF SessionsTrue, WithinLimit, AdminRemains
<1>7. ASSUME NEW k \in Realms PROVE waLock[k].n + Cardinality(Pend(k)) <= MaxAttempts - 1 + Cardinality(Requests)
  <2>1. Pend(k) \in SUBSET Requests /\ waLock[k].n = 0
    BY DEF Pend
  <2>2. Cardinality(Pend(k)) <= Cardinality(Requests) /\ Cardinality(Pend(k)) \in Nat /\ Cardinality(Requests) \in Nat
    BY <2>1, PendFinite
  <2>. QED BY <2>1, <2>2
<1>. QED BY <1>1, <1>2, <1>3, <1>4, <1>5, <1>6, <1>7 DEF WaInv, WaTypes, FailuresBounded

LEMMA WaInvStep == WaInv /\ [WaStep \/ Tick]_waVars => WaInv'
<1>. SUFFICES ASSUME WaInv, [WaStep \/ Tick]_waVars PROVE WaInv'
  OBVIOUS
<1>. USE DEF WaInv
<1>1. WaTypes'
  BY RowsStep, SessionsStep, LocksStep, RequestsStep DEF WaTypes
<1>2. RowRead'
  BY RowReadStep
<1>3. SessionsTrue' /\ WithinLimit'
  BY SessionsTrueStep
<1>4. Guarded' /\ AdminRemains'
  BY GuardedStep
<1>5. Changed'
  BY ChangedStep
<1>6. FailuresBounded'
  BY FailuresStep
<1>. QED BY <1>1, <1>2, <1>3, <1>4, <1>5, <1>6

LEMMA WaInvSuffices == WaInv => AdminAccess
<1>. SUFFICES ASSUME WaInv PROVE AdminAccess
  OBVIOUS
<1>. USE DEF WaInv
<1>1. SessionsRevoked
  BY DEF SessionsTrue, TrueOrPending, Pending, SessionsRevoked
<1>2. ASSUME NEW k \in Realms PROVE waLock[k].n <= MaxAttempts - 1 + Cardinality(Requests)
  <2>1. Pend(k) \in SUBSET Requests /\ waLock[k].n + Cardinality(Pend(k)) <= MaxAttempts - 1 + Cardinality(Requests)
    BY DEF Pend, FailuresBounded
  <2>2. Cardinality(Pend(k)) \in Nat /\ Cardinality(Requests) \in Nat
    BY <2>1, PendFinite
  <2>3. waLock[k].n \in Nat
    BY DEF WaTypes, LocksOK
  <2>. QED BY <2>1, <2>2, <2>3, WebAuthAssumption
<1>3. MustChangeFirst
  BY DEF Changed, MustChangeFirst
<1>. QED BY <1>1, <1>2, <1>3 DEF AdminAccess, AttemptsBounded

(* Who may administer the server, however requests, logins, the clock and  *)
(* restarts interleave: a session is one of the password its account has,  *)
(* or is being ended; the administrator's account stays; failures are      *)
(* bounded; sessions end; a password that must be changed is changed first *)
(* (auth.Service, requireAuth and the handlers of accounts).               *)
THEOREM AccessKept == WaSpec => []AdminAccess
<1>1. WaSpec => []WaInv
  BY WaInitInv, WaInvStep, PTL DEF WaSpec
<1>. QED BY <1>1, WaInvSuffices, PTL

-----------------------------------------------------------------------------
(***************************************************************************)
(* The probe defence.  A ban for good stays, as nobody of the address is   *)
(* inside (BanStands): only a reject of a connection from inside replaces  *)
(* it.  A reload that no edit has crossed has read the table as it is      *)
(* (ListFresh).                                                            *)
(***************************************************************************)
PgBlocks == [on : BOOLEAN, until : {"never", "timed", "over"}]
PgTasks  == [pc : {"idle", "record", "watch", "count", "ban"}, ip : Sources \cup {Nothing}, counts : BOOLEAN]
PgClerks == [pc : {"idle", "forever", "timed", "list", "set", "unban"}, add : BOOLEAN,
             of : Sources \cup Exempts \cup {Nothing}, list : SUBSET (Exempts \cup Yaml), crossed : BOOLEAN]

BlocksOK == pgBlocks \in [Sources -> PgBlocks]
TasksOK  == pgTasks \in [Watchers -> PgTasks]
ClerksOK == /\ pgClerks \in [Clerks -> PgClerks] /\ pgDb \subseteq Exempts \cup Yaml
            /\ \A c \in Clerks : pgClerks[c].pc \in {"forever", "timed"} => pgClerks[c].of \in Sources

Forever == [on |-> TRUE, until |-> "never"]
BanStands == pgWord \subseteq Sources /\ \A ip \in pgWord \ pgLate : pgBlocks[ip] = Forever /\ ~Inside(ip)
ListFresh == \A c \in Clerks : pgClerks[c].pc = "set" /\ ~pgClerks[c].crossed => pgClerks[c].list = pgDb

GuardInv == BlocksOK /\ TasksOK /\ ClerksOK /\ BanStands /\ ListFresh /\ ExemptListCurrent

LEMMA BlocksStep == BlocksOK /\ [PgNext]_pgVars => BlocksOK'
<1>. SUFFICES ASSUME BlocksOK, [PgNext]_pgVars PROVE BlocksOK'
  OBVIOUS
<1>1. /\ \A b \in PgBlocks : [b EXCEPT !.until = "over"] \in PgBlocks /\ [b EXCEPT !.on = FALSE] \in PgBlocks
      /\ \A u \in {"never", "timed"} : [on |-> TRUE, until |-> u] \in PgBlocks
      /\ Free \in PgBlocks
  <2>1. \A b \in PgBlocks : [b EXCEPT !.until = "over"] \in PgBlocks
    BY DEF PgBlocks
  <2>2. \A b \in PgBlocks : \A o \in BOOLEAN : [b EXCEPT !.on = o] \in PgBlocks
    BY DEF PgBlocks
  <2>3. \A o \in BOOLEAN, u \in {"never", "timed", "over"} : [on |-> o, until |-> u] \in PgBlocks
    BY DEF PgBlocks
  <2>. QED BY <2>1, <2>2, <2>3 DEF Free
<1>2. CASE UNCHANGED pgBlocks
  BY <1>2 DEF BlocksOK
<1>3. ASSUME NEW ip, NEW b \in PgBlocks, pgBlocks' = [pgBlocks EXCEPT ![ip] = b] PROVE BlocksOK'
  BY <1>3 DEF BlocksOK
<1>4. ASSUME NEW ip \in Sources, Expire(ip) \/ Lift(ip) PROVE BlocksOK'
  <2>1. pgBlocks[ip] \in PgBlocks
    BY DEF BlocksOK
  <2>2. \/ pgBlocks' = [pgBlocks EXCEPT ![ip] = [pgBlocks[ip] EXCEPT !.until = "over"]]
        \/ pgBlocks' = [pgBlocks EXCEPT ![ip] = [pgBlocks[ip] EXCEPT !.on = FALSE]]
    BY <1>4 DEF Expire, Lift
  <2>. QED BY <1>1, <1>3, <2>1, <2>2
<1>5. ASSUME NEW ip \in Sources, Accept(ip) \/ ConnEnds(ip) \/ WindowPasses(ip) \/ Unban(ip) PROVE BlocksOK'
  BY <1>2, <1>4, <1>5 DEF Accept, ConnEnds, WindowPasses, Unban
<1>6. ASSUME NEW w \in Watchers, Record(w) \/ Watch(w) \/ CountEvents(w) \/ BanAutomatically(w) PROVE BlocksOK'
  BY <1>1, <1>2, <1>3, <1>6 DEF Record, Watch, CountEvents, BanAutomatically
<1>7. ASSUME NEW c \in Clerks, AskBan(c) \/ UpsertBanExempt(c) \/ DisableBanExempt(c) \/ ListExempts(c) \/ SetExempts(c)
      PROVE  BlocksOK'
  BY <1>2, <1>7 DEF AskBan, UpsertBanExempt, DisableBanExempt, ChangeExempt, ListExempts, SetExempts
<1>8. ASSUME NEW c \in Clerks, Ban(c) PROVE BlocksOK'
  <2>1. \E u \in {"never", "timed"} : pgBlocks' = [pgBlocks EXCEPT ![pgClerks[c].of] = [on |-> TRUE, until |-> u]]
    BY <1>8 DEF Ban
  <2>. QED BY <1>1, <1>3, <2>1
<1>9. ASSUME NEW c \in Clerks, UnbanExempted(c) PROVE BlocksOK'
  BY <1>2, <1>4, <1>9 DEF UnbanExempted
<1>10. CASE PruneBlocks
  BY <1>1, <1>10 DEF PruneBlocks, BlocksOK
<1>. QED BY <1>2, <1>4, <1>5, <1>6, <1>7, <1>8, <1>9, <1>10 DEF PgNext, PgRestart, pgVars

LEMMA TasksStep == TasksOK /\ [PgNext]_pgVars => TasksOK'
<1>. SUFFICES ASSUME TasksOK, [PgNext]_pgVars PROVE TasksOK'
  OBVIOUS
<1>1. NoTask \in PgTasks
  BY DEF NoTask, PgTasks
<1>2. CASE UNCHANGED pgTasks
  BY <1>2 DEF TasksOK
<1>3. ASSUME NEW w \in Watchers, NEW t \in PgTasks, pgTasks' = [pgTasks EXCEPT ![w] = t] PROVE TasksOK'
  BY <1>3 DEF TasksOK
<1>4. ASSUME NEW ip \in Sources, Rejected(ip) PROVE TasksOK'
  <2>1. \A k \in BOOLEAN : [pc |-> "record", ip |-> ip, counts |-> k] \in PgTasks
    BY DEF PgTasks
  <2>. QED BY <1>3, <1>4, <2>1 DEF Rejected
<1>5. ASSUME NEW w \in Watchers, NEW pc \in {"watch", "idle", "count", "ban"}, TaskGoes(w, pc) PROVE TasksOK'
  <2>1. pgTasks[w] \in PgTasks
    BY DEF TasksOK
  <2>2. [pgTasks[w] EXCEPT !.pc = pc] \in PgTasks
    BY <2>1 DEF PgTasks
  <2>3. pgTasks' = [pgTasks EXCEPT ![w] = IF pc = "idle" THEN NoTask ELSE [pgTasks[w] EXCEPT !.pc = pc]]
    BY <1>5 DEF TaskGoes
  <2>. QED BY <1>1, <1>3, <2>2, <2>3
<1>6. ASSUME NEW w \in Watchers, Record(w) \/ Watch(w) \/ CountEvents(w) \/ BanAutomatically(w) PROVE TasksOK'
  <2>1. \E pc \in {"watch", "idle", "count", "ban"} : TaskGoes(w, pc)
    BY <1>6 DEF Record, Watch, CountEvents, BanAutomatically
  <2>. QED BY <1>5, <2>1
<1>7. ASSUME NEW ip \in Sources, Accept(ip) \/ ConnEnds(ip) \/ WindowPasses(ip) \/ Expire(ip) \/ Unban(ip) PROVE TasksOK'
  BY <1>2, <1>4, <1>7 DEF Accept, ConnEnds, WindowPasses, Expire, Unban, KeepPort
<1>8. ASSUME NEW c \in Clerks, AskBan(c) \/ Ban(c) \/ UpsertBanExempt(c) \/ DisableBanExempt(c)
                               \/ ListExempts(c) \/ SetExempts(c) \/ UnbanExempted(c)
      PROVE  TasksOK'
  BY <1>2, <1>8 DEF AskBan, Ban, UpsertBanExempt, DisableBanExempt, ChangeExempt, ListExempts, SetExempts, UnbanExempted, KeepPort
<1>9. CASE PgRestart
  BY <1>1, <1>9 DEF PgRestart, TasksOK
<1>. QED BY <1>2, <1>6, <1>7, <1>8, <1>9 DEF PgNext, PruneBlocks, pgVars

ClerkOK(k) == k.pc \in {"forever", "timed"} => k.of \in Sources

LEMMA ClerksStep == ClerksOK /\ [PgNext]_pgVars => ClerksOK'
<1>. SUFFICES ASSUME ClerksOK, [PgNext]_pgVars PROVE ClerksOK'
  OBVIOUS
<1>1. NoClerk \in PgClerks /\ ClerkOK(NoClerk) /\ NoClerk.pc = "idle"
  BY DEF NoClerk, PgClerks, ClerkOK
<1>2. CASE UNCHANGED <<pgClerks, pgDb>>
  BY <1>2 DEF ClerksOK
<1>3. ASSUME NEW c \in Clerks, NEW k \in PgClerks, ClerkOK(k), Clerk(c, k), UNCHANGED pgDb PROVE ClerksOK'
  BY <1>3 DEF ClerksOK, Clerk, ClerkOK
<1>4. ASSUME NEW c \in Clerks, Clerk(c, NoClerk), UNCHANGED pgDb PROVE ClerksOK'
  BY <1>1, <1>3, <1>4
<1>5. ASSUME NEW c \in Clerks, AskBan(c) PROVE ClerksOK'
  <2>1. PICK ip \in Sources, pc \in {"forever", "timed"} : Clerk(c, [NoClerk EXCEPT !.pc = pc, !.of = ip])
    BY <1>5 DEF AskBan
  <2>2. [NoClerk EXCEPT !.pc = pc, !.of = ip] \in PgClerks /\ ClerkOK([NoClerk EXCEPT !.pc = pc, !.of = ip])
    BY DEF NoClerk, PgClerks, ClerkOK
  <2>. QED BY <1>3, <1>5, <2>1, <2>2 DEF AskBan
<1>6. ASSUME NEW c \in Clerks, NEW e \in Exempts, NEW add \in BOOLEAN, ChangeExempt(c, e, add) PROVE ClerksOK'
  <2>1. pgDb' \subseteq Exempts \cup Yaml
    BY <1>6 DEF ChangeExempt, ClerksOK
  <2>2. \A b \in BOOLEAN : [NoClerk EXCEPT !.pc = "list", !.add = b, !.of = e] \in PgClerks
    BY DEF NoClerk, PgClerks
  <2>3. ClerkOK([NoClerk EXCEPT !.pc = "list", !.add = add, !.of = e])
    BY DEF NoClerk, ClerkOK
  <2>4. \A k \in PgClerks : \A b \in BOOLEAN : LET n == [k EXCEPT !.crossed = b] IN n \in PgClerks /\ n.pc = k.pc /\ n.of = k.of
    BY DEF PgClerks
  <2>5. ASSUME NEW d \in Clerks PROVE pgClerks'[d] \in PgClerks /\ ClerkOK(pgClerks'[d])
    <3>1. CASE d = c
      BY <1>6, <2>2, <2>3, <3>1 DEF ChangeExempt
    <3>2. CASE d # c
      <4>1. pgClerks'[d] = pgClerks[d] \/ pgClerks'[d] = [pgClerks[d] EXCEPT !.crossed = TRUE]
        BY <1>6, <3>2 DEF ChangeExempt
      <4>2. pgClerks[d] \in PgClerks /\ ClerkOK(pgClerks[d])
        BY DEF ClerksOK, ClerkOK
      <4>. QED BY <2>4, <4>1, <4>2 DEF ClerkOK
    <3>. QED BY <3>1, <3>2
  <2>6. pgClerks' \in [Clerks -> PgClerks]
    BY <1>6, <2>5 DEF ChangeExempt
  <2>. QED BY <2>1, <2>5, <2>6 DEF ClerksOK, ClerkOK
<1>7. ASSUME NEW c \in Clerks, ListExempts(c) PROVE ClerksOK'
  <2>1. \A k \in PgClerks : \A l \in SUBSET (Exempts \cup Yaml) :
           LET n == [k EXCEPT !.pc = "set", !.list = l] IN n \in PgClerks /\ n.pc = "set"
    BY DEF PgClerks
  <2>2. pgClerks[c] \in PgClerks /\ pgDb \in SUBSET (Exempts \cup Yaml)
    BY DEF ClerksOK
  <2>. QED BY <1>3, <1>7, <2>1, <2>2 DEF ListExempts, ClerkOK
<1>8. ASSUME NEW c \in Clerks, SetExempts(c) PROVE ClerksOK'
  <2>1. pgClerks[c].of \in Sources \cup Exempts \cup {Nothing}
    BY DEF ClerksOK, PgClerks
  <2>2. \A o \in Sources \cup Exempts \cup {Nothing} :
           LET n == [NoClerk EXCEPT !.pc = "unban", !.of = o] IN n \in PgClerks /\ n.pc = "unban"
    BY DEF NoClerk, PgClerks
  <2>3. Clerk(c, NoClerk) \/ Clerk(c, [NoClerk EXCEPT !.pc = "unban", !.of = pgClerks[c].of])
    BY <1>8 DEF SetExempts
  <2>. QED BY <1>3, <1>4, <1>8, <2>1, <2>2, <2>3 DEF SetExempts, ClerkOK
<1>9. ASSUME NEW c \in Clerks, Ban(c) \/ UnbanExempted(c) PROVE ClerksOK'
  BY <1>4, <1>9 DEF Ban, UnbanExempted
<1>10. ASSUME NEW ip \in Sources, Accept(ip) \/ ConnEnds(ip) \/ WindowPasses(ip) \/ Expire(ip) \/ Unban(ip) PROVE ClerksOK'
  BY <1>2, <1>10 DEF Accept, ConnEnds, WindowPasses, Expire, Unban, KeepAdmin
<1>11. ASSUME NEW w \in Watchers, Record(w) \/ Watch(w) \/ CountEvents(w) \/ BanAutomatically(w) PROVE ClerksOK'
  BY <1>2, <1>11 DEF Record, Watch, CountEvents, BanAutomatically, KeepAdmin
<1>12. CASE PgRestart
  BY <1>1, <1>12 DEF PgRestart, ClerksOK
<1>13. CASE PruneBlocks \/ UNCHANGED pgVars
  BY <1>2, <1>13 DEF PruneBlocks, KeepAdmin, pgVars
<1>. QED BY <1>5, <1>6, <1>7, <1>8, <1>9, <1>10, <1>11, <1>12, <1>13 DEF PgNext, UpsertBanExempt, DisableBanExempt

(* Only connections and rejects of an address put anybody of it inside.    *)
LEMMA InsideMoves ==
  ASSUME TasksOK, NEW ip \in Sources, [PgNext]_pgVars, Inside(ip)'
  PROVE  Inside(ip) \/ Accept(ip)
<1>. SUFFICES ASSUME ~Inside(ip), ~Accept(ip) PROVE FALSE
  OBVIOUS
<1>0. NoTask.ip # ip
  BY ProbeGuardAssumption DEF NoTask
<1>1. CASE UNCHANGED <<pgConns, pgTasks>>
  BY <1>1 DEF Inside
<1>2. ASSUME pgConns' \subseteq pgConns \cup (Sources \ {ip}), \A w \in Watchers : pgTasks'[w].ip = ip => pgTasks[w].ip = ip PROVE FALSE
  BY <1>2 DEF Inside
<1>3. ASSUME NEW x \in Sources \ {ip}, Rejected(x) PROVE \A w \in Watchers : pgTasks'[w].ip = ip => pgTasks[w].ip = ip
  BY <1>3 DEF Rejected, TasksOK
<1>4. ASSUME NEW w \in Watchers, NEW pc, TaskGoes(w, pc) PROVE \A v \in Watchers : pgTasks'[v].ip = ip => pgTasks[v].ip = ip
  <2>1. [pgTasks[w] EXCEPT !.pc = pc].ip = pgTasks[w].ip
    BY DEF TasksOK, PgTasks
  <2>2. \A v \in Watchers : pgTasks'[v] = pgTasks[v] \/ pgTasks'[v] = NoTask \/ (v = w /\ pgTasks'[v] = [pgTasks[w] EXCEPT !.pc = pc])
    BY <1>4 DEF TaskGoes, TasksOK
  <2>. QED BY <1>0, <2>1, <2>2
<1>5. ASSUME NEW x \in Sources, Accept(x) \/ ConnEnds(x) PROVE FALSE
  <2>1. CASE x = ip
    BY <1>5, <2>1 DEF ConnEnds, Inside
  <2>2. CASE x # ip
    <3>1. pgConns' \subseteq pgConns \cup (Sources \ {ip})
      BY <1>5, <2>2 DEF Accept, ConnEnds
    <3>2. UNCHANGED pgTasks \/ Rejected(x)
      BY <1>5 DEF Accept, ConnEnds
    <3>. QED BY <1>2, <1>3, <2>2, <3>1, <3>2
  <2>. QED BY <2>1, <2>2
<1>6. ASSUME NEW w \in Watchers, Record(w) \/ Watch(w) \/ CountEvents(w) \/ BanAutomatically(w) PROVE FALSE
  <2>1. UNCHANGED pgConns /\ \E pc : TaskGoes(w, pc)
    BY <1>6 DEF Record, Watch, CountEvents, BanAutomatically
  <2>. QED BY <1>2, <1>4, <2>1
<1>7. ASSUME NEW c \in Clerks, AskBan(c) \/ Ban(c) \/ UpsertBanExempt(c) \/ DisableBanExempt(c)
                               \/ ListExempts(c) \/ SetExempts(c) \/ UnbanExempted(c)
      PROVE  FALSE
  BY <1>1, <1>7 DEF AskBan, Ban, UpsertBanExempt, DisableBanExempt, ChangeExempt, ListExempts, SetExempts, UnbanExempted, KeepPort
<1>8. ASSUME NEW x \in Sources, WindowPasses(x) \/ Expire(x) \/ Unban(x) PROVE FALSE
  BY <1>1, <1>8 DEF WindowPasses, Expire, Unban, KeepPort
<1>9. CASE PgRestart
  BY <1>0, <1>2, <1>9 DEF PgRestart
<1>10. CASE PruneBlocks \/ UNCHANGED pgVars
  BY <1>1, <1>10 DEF PruneBlocks, pgVars
<1>. QED BY <1>5, <1>6, <1>7, <1>8, <1>9, <1>10 DEF PgNext

LEMMA BanStandsStep == BlocksOK /\ TasksOK /\ ClerksOK /\ BanStands /\ [PgNext]_pgVars => BanStands'
<1>. SUFFICES ASSUME BlocksOK, TasksOK, ClerksOK, BanStands, [PgNext]_pgVars PROVE BanStands'
  OBVIOUS
<1>0. pgWord \subseteq Sources
  BY DEF BanStands
<1>1. ASSUME pgWord' \subseteq Sources,
             \A ip \in pgWord' \ pgLate' : pgBlocks'[ip] = Forever /\ (ip \in pgWord \ pgLate \/ ~Inside(ip)'),
             \A ip \in Sources : Accept(ip) => ip \notin pgWord' \ pgLate'
      PROVE  BanStands'
  <2>1. ASSUME NEW ip \in pgWord' \ pgLate' PROVE ~Inside(ip)'
    BY <1>1, InsideMoves DEF BanStands
  <2>. QED BY <1>1, <2>1 DEF BanStands
<1>2. ASSUME UNCHANGED <<pgBlocks, pgWord, pgLate>>, \A ip \in Sources : Accept(ip) => ip \notin pgWord \ pgLate PROVE BanStands'
  BY <1>0, <1>1, <1>2 DEF BanStands
<1>3. ASSUME NEW ip \in Sources, Accept(ip) PROVE ip \notin pgWord' \ pgLate'
  <2>1. ASSUME ip \in pgWord, ip \notin pgLate PROVE Exempt(ip)
    <3>1. pgBlocks[ip] = Forever
      BY <2>1 DEF BanStands
    <3>2. Blocked(ip)
      BY <3>1 DEF Blocked, Forever
    <3>. QED BY <1>3, <3>2 DEF Accept
  <2>. QED BY <1>3, <2>1 DEF Accept, KeepAdmin
<1>4. \A ip \in Sources : Accept(ip) => BanStands'
  <2>. SUFFICES ASSUME NEW ip \in Sources, Accept(ip) PROVE BanStands'
    OBVIOUS
  <2>1. pgWord' = pgWord /\ pgBlocks' = pgBlocks /\ pgWord' \ pgLate' \subseteq pgWord \ pgLate
    BY DEF Accept, KeepAdmin
  <2>. QED BY <1>0, <1>1, <1>3, <2>1 DEF BanStands
<1>. SUFFICES ASSUME \A ip \in Sources : ~Accept(ip) PROVE BanStands'
  BY <1>4
<1>5. ASSUME NEW ip \in Sources, ConnEnds(ip) \/ WindowPasses(ip) PROVE BanStands'
  BY <1>2, <1>5 DEF ConnEnds, WindowPasses, KeepAdmin
<1>6. ASSUME NEW x \in Sources, Expire(x) PROVE BanStands'
  <2>1. pgBlocks[x].until = "timed" /\ pgBlocks' = [pgBlocks EXCEPT ![x] = [pgBlocks[x] EXCEPT !.until = "over"]]
        /\ UNCHANGED <<pgWord, pgLate>>
    BY <1>6 DEF Expire, KeepAdmin
  <2>2. x \notin pgWord \ pgLate
    BY <2>1 DEF BanStands, Forever
  <2>3. \A ip \in pgWord \ pgLate : pgBlocks'[ip] = pgBlocks[ip]
    BY <1>0, <2>1, <2>2 DEF BlocksOK
  <2>. QED BY <1>0, <1>1, <2>1, <2>3 DEF BanStands
<1>7. CASE PruneBlocks
  <2>1. \A ip \in pgWord \ pgLate : pgBlocks'[ip] = pgBlocks[ip]
    <3>1. \A ip \in pgWord \ pgLate : pgBlocks[ip].until # "over"
      BY DEF BanStands, Forever
    <3>. QED BY <1>0, <1>7, <3>1 DEF PruneBlocks
  <2>. QED BY <1>0, <1>1, <1>7, <2>1 DEF BanStands, PruneBlocks, KeepAdmin
<1>8. ASSUME NEW x, Lift(x) PROVE BanStands'
  <2>1. \A ip \in pgWord' \ pgLate' : ip \in pgWord \ pgLate /\ ip # x /\ pgBlocks'[ip] = pgBlocks[ip]
    BY <1>0, <1>8 DEF Lift, BlocksOK
  <2>2. pgWord' \subseteq Sources
    BY <1>0, <1>8 DEF Lift
  <2>. QED BY <1>1, <2>1, <2>2 DEF BanStands
<1>9. ASSUME NEW w \in Watchers, Record(w) \/ Watch(w) \/ CountEvents(w) PROVE BanStands'
  BY <1>2, <1>9 DEF Record, Watch, CountEvents, KeepAdmin
<1>10. ASSUME NEW w \in Watchers, BanAutomatically(w) PROVE BanStands'
  <2>1. \A ip \in pgWord \ pgLate : ip # pgTasks[w].ip
    BY DEF BanStands, Inside
  <2>2. \A ip \in pgWord \ pgLate : pgBlocks'[ip] = pgBlocks[ip]
    BY <1>0, <1>10, <2>1 DEF BanAutomatically, BlocksOK
  <2>. QED BY <1>0, <1>1, <1>10, <2>2 DEF BanStands, BanAutomatically, KeepAdmin
<1>11. ASSUME NEW c \in Clerks, Ban(c) PROVE BanStands'
  <2>0. PICK x \in Sources : x = pgClerks[c].of
    BY <1>11 DEF Ban, ClerksOK
  <2>1. UNCHANGED <<pgConns, pgTasks>>
    BY <1>11 DEF Ban, KeepPort
  <2>2. CASE pgClerks[c].pc = "forever"
    <3>1. /\ pgBlocks' = [pgBlocks EXCEPT ![x] = Forever] /\ pgWord' = pgWord \cup {x}
          /\ pgLate' = IF Inside(x) THEN pgLate \cup {x} ELSE pgLate \ {x}
      BY <1>11, <2>0, <2>2 DEF Ban, Forever
    <3>2. Inside(x)' <=> Inside(x)
      BY <2>1 DEF Inside
    <3>3. \A ip \in pgWord' \ pgLate' : ip # x => ip \in pgWord \ pgLate /\ pgBlocks'[ip] = pgBlocks[ip]
      BY <1>0, <3>1 DEF BlocksOK
    <3>4. pgBlocks'[x] = Forever /\ (x \in pgWord' \ pgLate' => ~Inside(x))
      BY <2>1, <3>1 DEF BlocksOK
    <3>5. \A ip \in pgWord' \ pgLate' : pgBlocks'[ip] = Forever /\ ~Inside(ip)'
      <4>1. ASSUME NEW ip \in pgWord' \ pgLate', ip # x PROVE pgBlocks'[ip] = Forever /\ ~Inside(ip)'
        BY <2>1, <3>3, <4>1 DEF BanStands, Inside
      <4>2. x \in pgWord' \ pgLate' => pgBlocks'[x] = Forever /\ ~Inside(x)'
        BY <3>2, <3>4
      <4>. QED BY <4>1, <4>2 DEF Inside
    <3>. QED BY <1>0, <2>1, <3>1, <3>5 DEF BanStands
  <2>3. CASE pgClerks[c].pc = "timed"
    <3>1. /\ pgWord' = pgWord \ {x} /\ pgLate' = pgLate \ {x}
          /\ pgBlocks' = [pgBlocks EXCEPT ![x] = [on |-> TRUE, until |-> "timed"]]
      BY <1>11, <2>0, <2>3 DEF Ban
    <3>2. \A ip \in pgWord' \ pgLate' : ip \in pgWord \ pgLate /\ pgBlocks'[ip] = pgBlocks[ip]
      BY <1>0, <3>1 DEF BlocksOK
    <3>. QED BY <1>0, <1>1, <3>1, <3>2 DEF BanStands
  <2>. QED BY <1>11, <2>2, <2>3 DEF Ban
<1>12. ASSUME NEW c \in Clerks, AskBan(c) \/ UpsertBanExempt(c) \/ DisableBanExempt(c) \/ ListExempts(c) \/ SetExempts(c)
       PROVE  BanStands'
  BY <1>2, <1>12 DEF AskBan, UpsertBanExempt, DisableBanExempt, ChangeExempt, ListExempts, SetExempts
<1>13. ASSUME NEW c \in Clerks, UnbanExempted(c) PROVE BanStands'
  BY <1>2, <1>8, <1>13 DEF UnbanExempted
<1>14. CASE PgRestart \/ UNCHANGED pgVars
  BY <1>2, <1>14 DEF PgRestart, pgVars
<1>. QED BY <1>5, <1>6, <1>7, <1>8, <1>9, <1>10, <1>11, <1>12, <1>13, <1>14 DEF PgNext, Unban

(* The list in memory, and what reloads have read. *)
LEMMA ListStep == ClerksOK /\ ListFresh /\ ExemptListCurrent /\ [PgNext]_pgVars => ListFresh' /\ ExemptListCurrent'
<1>. SUFFICES ASSUME ClerksOK, ListFresh, ExemptListCurrent, [PgNext]_pgVars PROVE ListFresh' /\ ExemptListCurrent'
  OBVIOUS
<1>0. pgClerks \in [Clerks -> PgClerks] /\ NoClerk.pc = "idle"
  BY DEF ClerksOK, NoClerk
<1>1. CASE UNCHANGED <<pgClerks, pgDb, pgMem, pgStale>>
  BY <1>1 DEF ListFresh, ExemptListCurrent
<1>2. ASSUME NEW c \in Clerks, NEW k, k.pc \notin {"list", "set"}, pgClerks[c].pc \notin {"list", "set"}, Clerk(c, k),
             UNCHANGED <<pgDb, pgMem, pgStale>>
      PROVE  ListFresh' /\ ExemptListCurrent'
  BY <1>0, <1>2 DEF Clerk, ListFresh, ExemptListCurrent
<1>3. ASSUME NEW c \in Clerks, AskBan(c) PROVE ListFresh' /\ ExemptListCurrent'
  <2>1. PICK ip \in Sources, pc \in {"forever", "timed"} : Clerk(c, [NoClerk EXCEPT !.pc = pc, !.of = ip])
    BY <1>3 DEF AskBan
  <2>2. [NoClerk EXCEPT !.pc = pc, !.of = ip].pc = pc /\ pgClerks[c].pc = "idle"
    BY <1>0, <1>3 DEF AskBan, NoClerk
  <2>. QED BY <1>2, <1>3, <2>1, <2>2 DEF AskBan
<1>4. ASSUME NEW c \in Clerks, Ban(c) \/ UnbanExempted(c) PROVE ListFresh' /\ ExemptListCurrent'
  BY <1>0, <1>2, <1>4 DEF Ban, UnbanExempted
<1>5. ASSUME NEW c \in Clerks, NEW e \in Exempts, NEW add \in BOOLEAN, ChangeExempt(c, e, add)
      PROVE  ListFresh' /\ ExemptListCurrent'
  <2>1. pgClerks'[c].pc = "list"
    BY <1>5 DEF ChangeExempt, NoClerk
  <2>2. ASSUME NEW d \in Clerks, pgClerks'[d].pc = "set" PROVE pgClerks'[d].crossed
    <3>1. d # c
      BY <2>1, <2>2
    <3>2. CASE pgClerks[d].pc = "set"
      <4>1. pgClerks'[d] = [pgClerks[d] EXCEPT !.crossed = TRUE]
        BY <1>5, <3>1, <3>2 DEF ChangeExempt
      <4>. QED BY <1>0, <4>1 DEF PgClerks
    <3>3. CASE pgClerks[d].pc # "set"
      BY <1>5, <2>2, <3>1, <3>3 DEF ChangeExempt
    <3>. QED BY <3>2, <3>3
  <2>. QED BY <2>1, <2>2 DEF ListFresh, ExemptListCurrent
<1>6. ASSUME NEW c \in Clerks, ListExempts(c) PROVE ListFresh' /\ ExemptListCurrent'
  <2>1. pgClerks' = [pgClerks EXCEPT ![c] = [pgClerks[c] EXCEPT !.pc = "set", !.list = pgDb]] /\ pgClerks[c] \in PgClerks
        /\ pgDb' = pgDb
    BY <1>0, <1>6 DEF ListExempts, Clerk
  <2>2. pgClerks'[c].pc = "set" /\ pgClerks'[c].list = pgDb
    BY <1>0, <2>1 DEF PgClerks
  <2>3. \A d \in Clerks \ {c} : pgClerks'[d] = pgClerks[d]
    BY <1>0, <2>1
  <2>. QED BY <2>1, <2>2, <2>3 DEF ListFresh, ExemptListCurrent
<1>7. ASSUME NEW c \in Clerks, SetExempts(c) PROVE ListFresh' /\ ExemptListCurrent'
  <2>1. PICK k : Clerk(c, k) /\ k.pc \in {"unban", "idle"}
    <3>1. CASE pgClerks[c].add
      <4>1. [NoClerk EXCEPT !.pc = "unban", !.of = pgClerks[c].of].pc = "unban"
        BY DEF NoClerk
      <4>. QED BY <1>7, <3>1, <4>1 DEF SetExempts
    <3>2. CASE ~pgClerks[c].add
      BY <1>0, <1>7, <3>2 DEF SetExempts
    <3>. QED BY <3>1, <3>2
  <2>2. \A d \in Clerks : pgClerks'[d] = IF d = c THEN k ELSE pgClerks[d]
    BY <1>0, <2>1 DEF Clerk
  <2>3. pgDb' = pgDb /\ pgMem' = Yaml \cup pgClerks[c].list /\ pgStale' = pgClerks[c].crossed /\ pgClerks[c].pc = "set"
    BY <1>7 DEF SetExempts
  <2>4. ListFresh'
    BY <2>1, <2>2, <2>3 DEF ListFresh
  <2>5. ~pgClerks[c].crossed => pgMem' = Yaml \cup pgDb'
    BY <2>3 DEF ListFresh
  <2>. QED BY <2>3, <2>4, <2>5 DEF ExemptListCurrent
<1>8. ASSUME NEW ip \in Sources, Accept(ip) \/ ConnEnds(ip) \/ WindowPasses(ip) \/ Expire(ip) \/ Unban(ip)
      PROVE  ListFresh' /\ ExemptListCurrent'
  BY <1>1, <1>8 DEF Accept, ConnEnds, WindowPasses, Expire, Unban, KeepAdmin
<1>9. ASSUME NEW w \in Watchers, Record(w) \/ Watch(w) \/ CountEvents(w) \/ BanAutomatically(w) PROVE ListFresh' /\ ExemptListCurrent'
  BY <1>1, <1>9 DEF Record, Watch, CountEvents, BanAutomatically, KeepAdmin
<1>10. CASE PgRestart
  BY <1>0, <1>10 DEF PgRestart, ListFresh, ExemptListCurrent
<1>11. CASE PruneBlocks \/ UNCHANGED pgVars
  BY <1>1, <1>11 DEF PruneBlocks, KeepAdmin, pgVars
<1>. QED BY <1>3, <1>4, <1>5, <1>6, <1>7, <1>8, <1>9, <1>10, <1>11 DEF PgNext, UpsertBanExempt, DisableBanExempt

(* An address that is banned for good stays so until the ban is lifted,    *)
(* whatever is recorded of it meanwhile, unless somebody of it had been    *)
(* let in; and the exemptions the port goes by are the table and the file, *)
(* unless reloads crossed (probedefense.Guard, its handlers).              *)
THEOREM BansKept == PgSpec => []BansHold
<1>1. PgInit => GuardInv
  <2>. SUFFICES ASSUME PgInit PROVE GuardInv
    OBVIOUS
  <2>1. BlocksOK
    BY DEF PgInit, BlocksOK, Free, PgBlocks
  <2>2. TasksOK
    BY DEF PgInit, TasksOK, NoTask, PgTasks
  <2>3. ClerksOK
    BY DEF PgInit, ClerksOK, NoClerk, PgClerks
  <2>4. BanStands /\ ListFresh /\ ExemptListCurrent
    BY DEF PgInit, BanStands, ListFresh, ExemptListCurrent, NoClerk
  <2>. QED BY <2>1, <2>2, <2>3, <2>4 DEF GuardInv
<1>2. GuardInv /\ [PgNext]_pgVars => GuardInv'
  BY BlocksStep, TasksStep, ClerksStep, BanStandsStep, ListStep DEF GuardInv
<1>3. GuardInv => BansHold
  BY DEF GuardInv, BanStands, Forever, BansHold, BanKept
<1>. QED BY <1>1, <1>2, <1>3, PTL DEF PgSpec

-----------------------------------------------------------------------------
(***************************************************************************)
(* The LAN registry.  Rows of a via are held by its session, by a          *)
(* handshake, or by a disconnect handler on its way to clear them          *)
(* (RowsHeld); session_stats lags behind the session only while the writer *)
(* that will correct it is under way (UpIsOnline, OnlineIsUp).             *)
(***************************************************************************)
Stations  == {"new", "rows", "policy", "exit", "stat", "online", "flush", "off"}
LanHs     == [pc : Stations, lans : SUBSET Lans, vias : SUBSET Lans]
LanSess   == [conn : LanConns \cup {NoLan}, lans : SUBSET Lans, vias : SUBSET Lans]

(* A session is of a connection of its account, registered and not ended.  *)
SessionsHeld ==
    \A u \in {Via, Member} :
        IF lanSess[u].conn = NoLan THEN lanSess[u] = Offline
        ELSE Owner[lanSess[u].conn] = u /\ lanHs[lanSess[u].conn].pc \in {"stat", "online", "flush"}
FlushesOfVia == \A c \in LanConns : lanHs[c].pc = "flush" => Owner[c] = Via
HandlersOfVia == \A c \in LanConns : lanLeft[c] # "none" => Owner[c] = Via

LanTypes ==
    /\ lanRows \subseteq Lans
    /\ lanSess \in [{Via, Member} -> LanSess]
    /\ lanHs \in [LanConns -> LanHs]
    /\ lanLeft \in [LanConns -> {"none", "stat", "rows"}]
    /\ lanSync.lans \subseteq Lans
    /\ SessionsHeld /\ FlushesOfVia /\ HandlersOfVia

RowsHeld ==
    lanRows # {} => Held \/ lanSlips \cap {"refused", "restart", "lateSync"} # {}
UpIsOnline ==
    lanStat = "up" /\ ~Online(Via) =>
        (\E c \in LanConns : lanLeft[c] = "stat") \/ "lateStat" \in lanSlips \/ "restart" \in lanSlips
OnlineIsUp ==
    Online(Via) /\ lanStat # "up" =>
        (\E c \in LanConns : Owner[c] = Via /\ lanHs[c].pc = "stat") \/ "lateStat" \in lanSlips \/ "restart" \in lanSlips

LanInv == LanTypes /\ ExitLansRegistered /\ RowsHeld /\ RoutesLive /\ UpIsOnline /\ OnlineIsUp

LEMMA OfflineIs == Offline \in LanSess /\ Offline.conn = NoLan /\ NewHs \in LanHs /\ NewHs.pc = "new"
BY DEF Offline, LanSess, NewHs, LanHs, Stations

LEMMA OnlineIs ==
  ASSUME LanTypes, NEW u \in {Via, Member}
  PROVE  /\ Online(u) <=> lanSess[u].conn # NoLan
         /\ Online(u) => /\ lanSess[u].conn \in LanConns /\ Owner[lanSess[u].conn] = u
                         /\ lanHs[lanSess[u].conn].pc \in {"stat", "online", "flush"}
BY OfflineIs DEF LanTypes, SessionsHeld, Online, LanSess

LEMMA KickedIs ==
  ASSUME NEW h \in LanHs
  PROVE  /\ Kicked(h) \in LanHs /\ (h.pc # "online" => Kicked(h) = h)
         /\ h.pc = "online" => Kicked(h).pc = "off"
BY DEF Kicked, NewHs, LanHs, Stations

(* A record of a handshake that is written. *)
LEMMA PcIs ==
  ASSUME NEW h \in LanHs, NEW pc \in Stations
  PROVE  [h EXCEPT !.pc = pc] \in LanHs /\ [h EXCEPT !.pc = pc].pc = pc
BY DEF LanHs

LEMMA HsIs ==
  ASSUME NEW h \in LanHs, NEW pc \in Stations, NEW ns \in SUBSET Lans
  PROVE  /\ [h EXCEPT !.pc = pc, !.vias = ns] \in LanHs /\ [h EXCEPT !.pc = pc, !.vias = ns].pc = pc
         /\ [h EXCEPT !.pc = pc, !.lans = ns] \in LanHs /\ [h EXCEPT !.pc = pc, !.lans = ns].pc = pc
BY DEF LanHs

LEMMA EndsIs ==
  ASSUME LanTypes, NEW u \in {Via, Member}, Online(u), Ends(u),
         lanHs' = [lanHs EXCEPT ![lanSess[u].conn] = Kicked(lanHs[lanSess[u].conn])], UNCHANGED lanRows
  PROVE  /\ lanSess' \in [{Via, Member} -> LanSess] /\ lanHs' \in [LanConns -> LanHs]
         /\ lanLeft' \in [LanConns -> {"none", "stat", "rows"}] /\ SessionsHeld' /\ FlushesOfVia' /\ HandlersOfVia'
         /\ lanSess'[u] = Offline /\ (\A w \in {Via, Member} : w # u => lanSess'[w] = lanSess[w])
         /\ \A c \in LanConns : lanHs'[c] = lanHs[c] \/ (lanHs[c].pc = "online" /\ lanHs'[c].pc = "off")
         /\ u = Via => \E c \in LanConns : lanLeft'[c] = "stat"
         /\ \A c \in LanConns : lanLeft'[c] = lanLeft[c] \/ (u = Via /\ lanLeft'[c] = "stat") \/ (lanLeft[c] = "none" /\ lanLeft'[c] = "none")
<1>. USE DEF LanTypes
<1>1. PICK c \in LanConns : c = lanSess[u].conn /\ Owner[c] = u /\ lanHs[c].pc \in {"stat", "online", "flush"}
  BY OnlineIs
<1>2. lanSess' = [lanSess EXCEPT ![u] = Offline] /\ lanLeft' = [lanLeft EXCEPT ![c] = IF u = Via THEN "stat" ELSE "none"]
      /\ lanHs' = [lanHs EXCEPT ![c] = Kicked(lanHs[c])]
  BY <1>1 DEF Ends
<1>3. Kicked(lanHs[c]) \in LanHs /\ (lanHs[c].pc # "online" => Kicked(lanHs[c]) = lanHs[c])
      /\ (lanHs[c].pc = "online" => Kicked(lanHs[c]).pc = "off")
  BY KickedIs
<1>4. lanSess' \in [{Via, Member} -> LanSess] /\ lanSess'[u] = Offline /\ (\A w \in {Via, Member} : w # u => lanSess'[w] = lanSess[w])
  BY <1>2, OfflineIs
<1>5. lanHs' \in [LanConns -> LanHs] /\ \A d \in LanConns : lanHs'[d] = lanHs[d] \/ (lanHs[d].pc = "online" /\ lanHs'[d].pc = "off")
  BY <1>2, <1>3
<1>6. lanHs'[c] = Kicked(lanHs[c]) /\ \A d \in LanConns : d # c => lanHs'[d] = lanHs[d]
  BY <1>2
<1>7. lanLeft' \in [LanConns -> {"none", "stat", "rows"}]
  BY <1>2
<1>8. \A d \in LanConns : d # c => lanLeft'[d] = lanLeft[d]
  BY <1>2
<1>9. lanLeft'[c] = IF u = Via THEN "stat" ELSE "none"
  BY <1>2
<1>13. FlushesOfVia'
  BY <1>5 DEF FlushesOfVia
<1>10. HandlersOfVia'
  <2>1. ASSUME NEW d \in LanConns, lanLeft'[d] # "none" PROVE Owner[d] = Via
    BY <1>1, <1>8, <1>9, <2>1 DEF HandlersOfVia
  <2>. QED BY <2>1 DEF HandlersOfVia
<1>11. lanLeft[c] = "none" \/ u = Via
  BY <1>1 DEF HandlersOfVia
<1>12. SessionsHeld'
  <2>1. ASSUME NEW w \in {Via, Member}, w # u, lanSess[w].conn # NoLan
        PROVE  Owner[lanSess[w].conn] = w /\ lanHs'[lanSess[w].conn].pc \in {"stat", "online", "flush"}
    <3>1. Owner[lanSess[w].conn] = w /\ lanHs[lanSess[w].conn].pc \in {"stat", "online", "flush"} /\ lanSess[w].conn \in LanConns
      BY <2>1, OnlineIs
    <3>2. lanSess[w].conn # c
      BY <1>1, <2>1, <3>1
    <3>. QED BY <1>6, <3>1, <3>2
  <2>. QED BY <1>4, <2>1, OfflineIs DEF SessionsHeld
<1>. QED BY <1>4, <1>5, <1>7, <1>8, <1>9, <1>10, <1>11, <1>12, <1>13

LEMMA LanTypesStep == LanTypes /\ [LanNext]_lanVars => LanTypes'
<1>. SUFFICES ASSUME LanTypes, [LanNext]_lanVars PROVE LanTypes'
  OBVIOUS
<1>0. /\ lanRows \subseteq Lans /\ lanSess \in [{Via, Member} -> LanSess] /\ lanHs \in [LanConns -> LanHs]
      /\ lanLeft \in [LanConns -> {"none", "stat", "rows"}] /\ lanSync.lans \subseteq Lans /\ SessionsHeld /\ FlushesOfVia /\ HandlersOfVia
  BY DEF LanTypes
<1>1. ASSUME NEW c \in LanConns, NEW h \in LanHs, lanHs' = [lanHs EXCEPT ![c] = h],
             lanHs[c].pc \in {"stat", "online", "flush"} =>
                 h.pc \in {"stat", "online", "flush"} \/ lanSess[Owner[c]].conn # c,
             h.pc = "flush" => Owner[c] = Via, lanSess' = lanSess
      PROVE  lanHs' \in [LanConns -> LanHs] /\ SessionsHeld' /\ FlushesOfVia'
  <2>1. lanHs' \in [LanConns -> LanHs]
    BY <1>0, <1>1
  <2>2. ASSUME NEW u \in {Via, Member}, lanSess[u].conn # NoLan
        PROVE  Owner[lanSess[u].conn] = u /\ lanHs'[lanSess[u].conn].pc \in {"stat", "online", "flush"}
    <3>1. lanSess[u].conn \in LanConns /\ Owner[lanSess[u].conn] = u /\ lanHs[lanSess[u].conn].pc \in {"stat", "online", "flush"}
      BY <2>2, OnlineIs
    <3>2. CASE lanSess[u].conn = c
      BY <1>0, <1>1, <3>1, <3>2
    <3>3. CASE lanSess[u].conn # c
      BY <1>0, <1>1, <3>1, <3>3
    <3>. QED BY <3>2, <3>3
  <2>3. SessionsHeld'
    BY <1>0, <1>1, <2>2 DEF SessionsHeld
  <2>4. FlushesOfVia'
    BY <1>0, <1>1 DEF FlushesOfVia
  <2>. QED BY <2>1, <2>3, <2>4
<1>2. ASSUME UNCHANGED <<lanSess, lanHs>> PROVE SessionsHeld' /\ FlushesOfVia'
  BY <1>0, <1>2 DEF SessionsHeld, FlushesOfVia
<1>3. ASSUME UNCHANGED lanLeft PROVE HandlersOfVia'
  BY <1>0, <1>3 DEF HandlersOfVia
<1>4. ASSUME NEW c \in LanConns, Report(c) \/ Resolve(c) \/ LoadExitLANs(c) \/ Refused(c) \/ StatUp(c) \/ Inbound(c) \/ StatRx(c)
      PROVE  LanTypes'
  <2>1. lanSess' = lanSess /\ lanLeft' = lanLeft /\ lanSync' = lanSync /\ lanRows' \subseteq Lans
    BY <1>0, <1>4 DEF Report, Resolve, LoadExitLANs, Refused, StatUp, Inbound, StatRx
  <2>2. PICK h \in LanHs :
           /\ lanHs' = [lanHs EXCEPT ![c] = h]
           /\ lanHs[c].pc \in {"stat", "online", "flush"} =>
                 h.pc \in {"stat", "online", "flush"} \/ lanSess[Owner[c]].conn # c
           /\ h.pc = "flush" => Owner[c] = Via
    <3>0. PICK q \in LanHs : q = lanHs[c]
      BY <1>0
    <3>1. CASE Report(c)
      <4>1. lanHs' = [lanHs EXCEPT ![c] = [q EXCEPT !.pc = "rows"]] /\ lanHs[c].pc = "new"
        BY <3>0, <3>1 DEF Report, HsGoes
      <4>. QED BY <4>1, PcIs DEF Stations
    <3>2. CASE Resolve(c)
      <4>1. PICK ns \in SUBSET Lans : ns = IF Owner[c] = Member THEN lanRows ELSE {}
        BY <1>0
      <4>2. lanHs' = [lanHs EXCEPT ![c] = [q EXCEPT !.pc = "policy", !.vias = ns]] /\ lanHs[c].pc = "rows"
        BY <3>0, <3>2, <4>1 DEF Resolve
      <4>3. [q EXCEPT !.pc = "policy", !.vias = ns] \in LanHs /\ [q EXCEPT !.pc = "policy", !.vias = ns].pc = "policy"
        BY HsIs DEF Stations
      <4>. QED BY <4>2, <4>3
    <3>3. CASE LoadExitLANs(c)
      <4>1. PICK ns \in SUBSET Lans : ns = IF Owner[c] = Via THEN lanRows ELSE {}
        BY <1>0
      <4>2. lanHs' = [lanHs EXCEPT ![c] = [q EXCEPT !.pc = "exit", !.lans = ns]] /\ lanHs[c].pc = "policy"
        BY <3>0, <3>3, <4>1 DEF LoadExitLANs
      <4>3. [q EXCEPT !.pc = "exit", !.lans = ns] \in LanHs /\ [q EXCEPT !.pc = "exit", !.lans = ns].pc = "exit"
        BY HsIs DEF Stations
      <4>. QED BY <4>2, <4>3
    <3>4. CASE Refused(c)
      <4>1. lanHs' = [lanHs EXCEPT ![c] = [NewHs EXCEPT !.pc = "off"]] /\ lanHs[c].pc \in {"rows", "exit"}
        BY <3>4 DEF Refused
      <4>. QED BY <4>1, PcIs, OfflineIs DEF Stations
    <3>5. CASE StatUp(c) \/ StatRx(c)
      <4>1. PICK pc \in {"online", "off"} :
               lanHs' = [lanHs EXCEPT ![c] = [q EXCEPT !.pc = pc]] /\ (pc = "off" => lanSess[Owner[c]].conn # c)
        BY <1>0, <3>0, <3>5 DEF StatUp, StatRx, HsGoes, FlushesOfVia
      <4>2. pc \in Stations /\ pc # "flush"
        BY DEF Stations
      <4>. QED BY <4>1, <4>2, PcIs
    <3>6. CASE Inbound(c)
      <4>1. lanHs' = [lanHs EXCEPT ![c] = [q EXCEPT !.pc = "flush"]] /\ Owner[c] = Via
        BY <3>0, <3>6 DEF Inbound, HsGoes
      <4>2. "flush" \in Stations
        BY DEF Stations
      <4>. QED BY <4>1, <4>2, PcIs
    <3>. QED BY <1>4, <3>1, <3>2, <3>3, <3>4, <3>5, <3>6
  <2>3. lanHs' \in [LanConns -> LanHs] /\ SessionsHeld' /\ FlushesOfVia'
    BY <1>1, <2>1, <2>2
  <2>. QED BY <1>0, <1>3, <2>1, <2>3 DEF LanTypes
<1>5. ASSUME NEW c \in LanConns, RegisterLan(c) PROVE LanTypes'
  <2>0. PICK x : x = [lanHs[c] EXCEPT !.pc = "stat"]
    OBVIOUS
  <2>1. PICK u \in {Via, Member} : u = Owner[c]
    BY LanAssumption
  <2>2. PICK h \in LanHs : h = lanHs[c] /\ h.lans \in SUBSET Lans /\ h.vias \in SUBSET Lans
    BY <1>0 DEF LanHs
  <2>3. PICK s \in LanSess : s = [conn |-> c, lans |-> h.lans, vias |-> h.vias]
    BY <2>2 DEF LanSess
  <2>4. lanSess' = [lanSess EXCEPT ![u] = s] /\ UNCHANGED <<lanRows, lanLeft, lanSync>> /\ h.pc = "exit"
    BY <1>5, <2>1, <2>2, <2>3 DEF RegisterLan
  <2>5. lanSess' \in [{Via, Member} -> LanSess] /\ lanSess'[u] = s /\ s.conn = c /\ c # NoLan
        /\ \A w \in {Via, Member} : w # u => lanSess'[w] = lanSess[w]
    BY <1>0, <2>3, <2>4, LanAssumption
  <2>6. lanHs' = [d \in LanConns |-> CASE d = c -> x [] d = lanSess[u].conn -> Kicked(lanHs[d]) [] OTHER -> lanHs[d]]
    BY <1>5, <2>1, <2>0 DEF RegisterLan
  <2>7. lanHs'[c] \in LanHs /\ lanHs'[c].pc = "stat"
    <3>0. lanSess[u].conn # c
      BY <2>1, <2>2, <2>4, LanAssumption, OnlineIs
    <3>1. lanHs'[c] = x
      BY <2>6, <3>0
    <3>2. [h EXCEPT !.pc = "stat"] \in LanHs /\ [h EXCEPT !.pc = "stat"].pc = "stat"
      BY PcIs DEF Stations
    <3>. QED BY <2>2, <2>0, <3>1, <3>2
  <2>8. ASSUME NEW d \in LanConns, d # c
        PROVE  /\ lanHs'[d] \in LanHs /\ (d # lanSess[u].conn => lanHs'[d] = lanHs[d])
               /\ lanHs'[d] = lanHs[d] \/ lanHs'[d].pc = "off"
    <3>1. lanHs[d] \in LanHs
      BY <1>0
    <3>2. lanHs'[d] = IF d = lanSess[u].conn THEN Kicked(lanHs[d]) ELSE lanHs[d]
      BY <2>6, <2>8
    <3>. QED BY <3>1, <3>2, KickedIs
  <2>9. lanHs' \in [LanConns -> LanHs]
    <3>1. lanHs' = [d \in LanConns |-> lanHs'[d]]
      BY <2>6
    <3>. QED BY <2>7, <2>8, <3>1
  <2>10. FlushesOfVia'
    <3>1. ASSUME NEW d \in LanConns, lanHs'[d].pc = "flush" PROVE Owner[d] = Via
      <4>1. d # c /\ lanHs'[d] = lanHs[d]
        BY <2>7, <2>8, <3>1
      <4>. QED BY <1>0, <3>1, <4>1 DEF FlushesOfVia
    <3>. QED BY <3>1 DEF FlushesOfVia
  <2>11. SessionsHeld'
    <3>1. ASSUME NEW w \in {Via, Member}, w # u, lanSess[w].conn # NoLan
          PROVE  Owner[lanSess[w].conn] = w /\ lanHs'[lanSess[w].conn].pc \in {"stat", "online", "flush"}
      <4>1. lanSess[w].conn \in LanConns /\ Owner[lanSess[w].conn] = w /\ lanHs[lanSess[w].conn].pc \in {"stat", "online", "flush"}
        BY <3>1, OnlineIs
      <4>2. lanSess[w].conn # c
        BY <2>1, <3>1, <4>1
      <4>3. lanSess[w].conn # lanSess[u].conn
        <5>1. lanSess[u].conn # NoLan => Owner[lanSess[u].conn] = u
          BY OnlineIs
        <5>. QED BY <3>1, <4>1, <5>1
      <4>. QED BY <2>8, <4>1, <4>2, <4>3
    <3>. QED BY <1>0, <2>1, <2>5, <2>7, <3>1 DEF SessionsHeld
  <2>. QED BY <1>0, <1>3, <2>4, <2>5, <2>9, <2>10, <2>11 DEF LanTypes
<1>6. ASSUME NEW c \in LanConns, Lose(c) PROVE LanTypes'
  <2>1. /\ Owner[c] \in {Via, Member} /\ lanSess[Owner[c]].conn = c /\ Ends(Owner[c]) /\ Online(Owner[c])
        /\ lanHs' = [lanHs EXCEPT ![c] = Kicked(lanHs[c])] /\ UNCHANGED <<lanRows, lanSync>>
    BY <1>0, <1>6, LanAssumption, OnlineIs DEF Lose
  <2>. QED BY <1>0, <2>1, EndsIs DEF LanTypes
<1>7. ASSUME NEW u \in {Via, Member}, KickLan(u) PROVE LanTypes'
  BY <1>0, <1>7, EndsIs DEF KickLan, LanTypes
<1>8. ASSUME NEW c \in LanConns, StatDown(c) \/ ClearRows(c) PROVE LanTypes'
  <2>1. UNCHANGED <<lanSess, lanHs, lanSync>> /\ lanRows' \subseteq Lans
    BY <1>0, <1>8 DEF StatDown, ClearRows
  <2>2. PICK x \in {"none", "rows"} : lanLeft' = [lanLeft EXCEPT ![c] = x] /\ lanLeft[c] # "none"
    BY <1>8 DEF StatDown, ClearRows
  <2>3. lanLeft' \in [LanConns -> {"none", "stat", "rows"}] /\ HandlersOfVia'
    BY <1>0, <2>2 DEF HandlersOfVia
  <2>. QED BY <1>0, <1>2, <2>1, <2>3 DEF LanTypes
<1>9. CASE (\E c \in LanConns : SyncAllowed(c)) \/ SyncRows \/ SyncLoad
  <2>1. UNCHANGED <<lanSess, lanHs, lanLeft>> /\ lanRows' \subseteq Lans /\ lanSync'.lans \subseteq Lans
    BY <1>0, <1>9 DEF SyncAllowed, SyncRows, SyncLoad, SyncGoes
  <2>. QED BY <1>0, <1>2, <1>3, <2>1 DEF LanTypes
<1>10. CASE SyncReload \/ SyncPrune
  <2>1. UNCHANGED <<lanRows, lanHs, lanLeft>> /\ lanSync'.lans \subseteq Lans
    BY <1>0, <1>10 DEF SyncReload, SyncPrune, SyncGoes, NoSync
  <2>2. /\ lanSess' \in [{Via, Member} -> LanSess]
        /\ \A u \in {Via, Member} : lanSess'[u].conn = lanSess[u].conn /\ (lanSess[u] = Offline => lanSess'[u] = Offline)
    <3>1. CASE SyncReload
      <4>1. PICK s \in LanSess, ns \in SUBSET Lans : s = lanSess[Via] /\ ns = lanSync.lans
        BY <1>0
      <4>2. [s EXCEPT !.lans = ns] \in LanSess /\ [s EXCEPT !.lans = ns].conn = s.conn
        BY DEF LanSess
      <4>3. lanSess' = IF s # Offline THEN [lanSess EXCEPT ![Via] = [s EXCEPT !.lans = ns]] ELSE lanSess
        BY <3>1, <4>1 DEF SyncReload, Online
      <4>. QED BY <1>0, <4>1, <4>2, <4>3
    <3>2. CASE SyncPrune
      <4>1. PICK s \in LanSess, ns \in SUBSET Lans : s = lanSess[Member] /\ ns = s.vias \cap lanSync.lans
        BY <1>0 DEF LanSess
      <4>2. [s EXCEPT !.vias = ns] \in LanSess /\ [s EXCEPT !.vias = ns].conn = s.conn
        BY DEF LanSess
      <4>3. lanSess' = [lanSess EXCEPT ![Member] = [s EXCEPT !.vias = ns]]
        BY <3>2, <4>1 DEF SyncPrune
      <4>4. s = Offline => [s EXCEPT !.vias = ns] = s
        BY <4>1 DEF Offline
      <4>. QED BY <1>0, <4>1, <4>2, <4>3, <4>4
    <3>. QED BY <1>10, <3>1, <3>2
  <2>3. SessionsHeld' /\ FlushesOfVia'
    BY <1>0, <2>1, <2>2 DEF SessionsHeld, FlushesOfVia
  <2>. QED BY <1>0, <1>3, <2>1, <2>2, <2>3 DEF LanTypes
<1>11. CASE SyncList
  <2>1. UNCHANGED <<lanRows, lanSess, lanHs, lanLeft>> /\ lanSync'.lans = lanRows
    BY <1>11 DEF SyncList, SyncGoes
  <2>. QED BY <1>0, <1>2, <1>3, <2>1 DEF LanTypes
<1>12. CASE SyncKick
  <2>1. lanSync'.lans = {} /\ UNCHANGED lanRows
    BY <1>12 DEF SyncKick, NoSync
  <2>2. CASE Online(Member)
    BY <1>0, <1>12, <2>1, <2>2, EndsIs DEF SyncKick, LanTypes
  <2>3. CASE ~Online(Member)
    <3>1. UNCHANGED <<lanSess, lanLeft, lanHs>>
      BY <1>12, <2>3 DEF SyncKick
    <3>. QED BY <1>0, <1>2, <1>3, <2>1, <3>1 DEF LanTypes
  <2>. QED BY <2>2, <2>3
<1>13. CASE LanRestart
  BY <1>0, <1>13, OfflineIs DEF LanRestart, LanTypes, SessionsHeld, FlushesOfVia, HandlersOfVia, NoSync
<1>14. CASE UNCHANGED lanVars
  BY <1>0, <1>2, <1>3, <1>14 DEF lanVars, LanTypes
<1>. QED BY <1>4, <1>5, <1>6, <1>7, <1>8, <1>9, <1>10, <1>11, <1>12, <1>13, <1>14 DEF LanNext

(* What a step does to handshakes of the via, and to what is excused. *)
Midway(h) == h.pc \in {"rows", "policy", "exit"}

LEMMA SlipsStay == [LanNext]_lanVars => lanSlips \subseteq lanSlips'
<1>1. ASSUME NEW c \in LanConns, Report(c) \/ Resolve(c) \/ LoadExitLANs(c) \/ RegisterLan(c) \/ Refused(c) PROVE lanSlips \subseteq lanSlips'
  BY <1>1 DEF Report, Resolve, LoadExitLANs, RegisterLan, Refused
<1>2. ASSUME NEW c \in LanConns, StatUp(c) \/ Inbound(c) \/ StatRx(c) \/ Lose(c) \/ StatDown(c) \/ ClearRows(c) \/ SyncAllowed(c)
      PROVE  lanSlips \subseteq lanSlips'
  BY <1>2 DEF StatUp, Inbound, StatRx, Lose, StatDown, ClearRows, SyncAllowed
<1>3. CASE \E u \in {Via, Member} : KickLan(u)
  BY <1>3 DEF KickLan
<1>4. CASE SyncRows \/ SyncLoad \/ SyncReload \/ SyncList \/ SyncPrune \/ SyncKick \/ LanRestart \/ UNCHANGED lanVars
  BY <1>4 DEF SyncRows, SyncLoad, SyncReload, SyncList, SyncPrune, SyncKick, LanRestart, lanVars
<1>. QED BY <1>1, <1>2, <1>3, <1>4 DEF LanNext

(* A member that goes leaves the session of the via, and the handshakes.   *)
LEMMA MemberEnds ==
  ASSUME LanTypes, Online(Member), Ends(Member), UNCHANGED lanRows,
         lanHs' = [lanHs EXCEPT ![lanSess[Member].conn] = Kicked(lanHs[lanSess[Member].conn])]
  PROVE  /\ lanSess'[Via] = lanSess[Via]
         /\ \A c \in LanConns : lanHs'[c] = lanHs[c] \/ (lanHs[c].pc = "online" /\ lanHs'[c].pc = "off")
         /\ \A c \in LanConns : lanLeft'[c] = lanLeft[c]
<1>1. Via # Member
  BY LanAssumption
<1>2. \A c \in LanConns : lanLeft'[c] = lanLeft[c] \/ (Member = Via /\ lanLeft'[c] = "stat") \/ (lanLeft[c] = "none" /\ lanLeft'[c] = "none")
  BY EndsIs
<1>3. \A w \in {Via, Member} : w # Member => lanSess'[w] = lanSess[w]
  BY EndsIs
<1>4. \A c \in LanConns : lanHs'[c] = lanHs[c] \/ (lanHs[c].pc = "online" /\ lanHs'[c].pc = "off")
  BY EndsIs
<1>. QED BY <1>1, <1>2, <1>3, <1>4

LEMMA ViaEnds ==
  ASSUME LanTypes, Online(Via), Ends(Via), UNCHANGED lanRows,
         lanHs' = [lanHs EXCEPT ![lanSess[Via].conn] = Kicked(lanHs[lanSess[Via].conn])]
  PROVE  /\ lanSess'[Via] = Offline
         /\ \A c \in LanConns : lanHs'[c] = lanHs[c] \/ (lanHs[c].pc = "online" /\ lanHs'[c].pc = "off")
         /\ \E c \in LanConns : lanLeft'[c] = "stat"
<1>1. lanSess'[Via] = Offline
  BY EndsIs
<1>2. \A c \in LanConns : lanHs'[c] = lanHs[c] \/ (lanHs[c].pc = "online" /\ lanHs'[c].pc = "off")
  BY EndsIs
<1>3. \E c \in LanConns : lanLeft'[c] = "stat"
  BY EndsIs
<1>. QED BY <1>1, <1>2, <1>3

(* How a session ends. *)
Ending(u) ==
    /\ Online(u) /\ Ends(u) /\ UNCHANGED <<lanRows, lanStat, lanSlips>>
    /\ lanHs' = [lanHs EXCEPT ![lanSess[u].conn] = Kicked(lanHs[lanSess[u].conn])]
    /\ lanSync' = lanSync \/ (lanSync.pc = "kick" /\ lanSync'.pc = "idle")

(* What of the registry a step of a handshake or of a message writes.      *)
HsSteps(c)   == Report(c) \/ Resolve(c) \/ LoadExitLANs(c) \/ Refused(c) \/ StatUp(c) \/ Inbound(c) \/ StatRx(c)
LeftSteps(c) == StatDown(c) \/ ClearRows(c)
SyncSteps    ==
    \/ \E c \in LanConns : SyncAllowed(c)
    \/ SyncLoad \/ SyncReload \/ SyncList \/ SyncPrune \/ (SyncKick /\ ~Online(Member))

LEMMA LanNextIs ==
  ASSUME LanTypes, [LanNext]_lanVars
  PROVE  \/ \E c \in LanConns : HsSteps(c) \/ RegisterLan(c) \/ LeftSteps(c)
         \/ \E u \in {Via, Member} : Ending(u)
         \/ SyncRows \/ SyncSteps
         \/ LanRestart \/ UNCHANGED lanVars
<1>1. ASSUME NEW c \in LanConns, Lose(c) PROVE \E u \in {Via, Member} : Ending(u)
  <2>1. PICK u \in {Via, Member} : u = Owner[c]
    BY LanAssumption
  <2>2. c = lanSess[u].conn /\ lanHs' = [lanHs EXCEPT ![c] = Kicked(lanHs[c])] /\ Ends(u)
        /\ UNCHANGED <<lanRows, lanStat, lanSlips>> /\ lanSync' = lanSync
    BY <1>1, <2>1 DEF Lose
  <2>3. Online(u)
    BY <2>2, LanAssumption, OnlineIs
  <2>. QED BY <2>2, <2>3 DEF Ending
<1>2. ASSUME NEW u \in {Via, Member}, KickLan(u) PROVE Ending(u)
  BY <1>2 DEF KickLan, Ending
<1>3. ASSUME SyncKick, Online(Member) PROVE Ending(Member)
  BY <1>3 DEF SyncKick, Ending, NoSync
<1>. QED BY <1>1, <1>2, <1>3 DEF LanNext, HsSteps, LeftSteps, SyncSteps

(* A handshake step: of one connection, from one place to the next. *)
LEMMA HsStepIs ==
  ASSUME LanTypes, NEW c \in LanConns, HsSteps(c)
  PROVE  /\ UNCHANGED <<lanSess, lanLeft, lanSync>>
         /\ \A d \in LanConns : d # c => lanHs'[d] = lanHs[d]
         /\ \/ Report(c) /\ lanHs[c].pc = "new" /\ lanHs'[c].pc = "rows" /\ UNCHANGED <<lanStat, lanSlips>>
               /\ (Owner[c] # Via => lanRows' = lanRows)
            \/ (Resolve(c) \/ LoadExitLANs(c)) /\ Midway(lanHs[c]) /\ Midway(lanHs'[c]) /\ UNCHANGED <<lanStat, lanRows>>
            \/ Refused(c) /\ "refused" \in lanSlips' /\ UNCHANGED <<lanStat, lanRows>>
               /\ lanHs[c].pc # "stat"
            \/ (StatUp(c) \/ StatRx(c)) /\ UNCHANGED lanRows /\ ~Midway(lanHs[c])
            \/ Inbound(c) /\ UNCHANGED <<lanRows, lanStat, lanSlips>> /\ lanHs[c].pc = "online"
<1>0. lanHs \in [LanConns -> LanHs] /\ lanHs[c] \in LanHs
  BY DEF LanTypes
<1>1. PICK h : lanHs' = [lanHs EXCEPT ![c] = h]
  BY DEF HsSteps, Report, Resolve, LoadExitLANs, Refused, StatUp, Inbound, StatRx, HsGoes
<1>2. /\ \A d \in LanConns : d # c => lanHs'[d] = lanHs[d]
      /\ UNCHANGED <<lanSess, lanLeft, lanSync>>
  BY <1>0, <1>1 DEF HsSteps, Report, Resolve, LoadExitLANs, Refused, StatUp, Inbound, StatRx
<1>3. CASE Report(c)
  <2>1. lanHs'[c] = [lanHs[c] EXCEPT !.pc = "rows"] /\ lanHs[c].pc = "new" /\ UNCHANGED <<lanStat, lanSlips>>
        /\ (Owner[c] # Via => lanRows' = lanRows)
    BY <1>0, <1>3 DEF Report, HsGoes
  <2>2. lanHs'[c].pc = "rows"
    BY <1>0, <2>1, PcIs DEF Stations
  <2>. QED BY <1>2, <1>3, <2>1, <2>2
<1>4. CASE Resolve(c) \/ LoadExitLANs(c)
  <2>1. /\ Midway(lanHs[c]) /\ UNCHANGED <<lanStat, lanRows>>
        /\ \/ lanHs'[c] = [lanHs[c] EXCEPT !.pc = "policy", !.vias = IF Owner[c] = Member THEN lanRows ELSE {}]
           \/ lanHs'[c] = [lanHs[c] EXCEPT !.pc = "exit", !.lans = IF Owner[c] = Via THEN lanRows ELSE {}]
    BY <1>0, <1>4 DEF Resolve, LoadExitLANs, Midway
  <2>2. Midway(lanHs'[c])
    BY <1>0, <2>1 DEF LanHs, Midway
  <2>. QED BY <1>2, <1>4, <2>1, <2>2
<1>5. CASE Refused(c)
  BY <1>2, <1>5 DEF Refused
<1>6. CASE StatUp(c) \/ StatRx(c) \/ Inbound(c)
  BY <1>2, <1>6 DEF StatUp, StatRx, Inbound, Midway
<1>. QED BY <1>3, <1>4, <1>5, <1>6 DEF HsSteps

LEMMA RegisterIs ==
  ASSUME LanTypes, NEW c \in LanConns, RegisterLan(c)
  PROVE  /\ UNCHANGED <<lanRows, lanStat, lanLeft, lanSync>>
         /\ lanHs[c].pc = "exit" /\ lanHs'[c].pc = "stat"
         /\ \A d \in LanConns : d # c => lanHs'[d] = lanHs[d] \/ (lanHs[d].pc = "online" /\ lanHs'[d].pc = "off")
         /\ Owner[c] = Via => /\ lanSess'[Via].conn = c /\ lanSess'[Via].lans = lanHs[c].lans
                              /\ lanSess'[Via] # Offline
                              /\ lanHs[c].lans # lanRows => "crossed" \in lanSlips'
         /\ Owner[c] # Via => lanSess'[Via] = lanSess[Via]
<1>0. /\ lanHs \in [LanConns -> LanHs] /\ lanHs[c] \in LanHs /\ lanSess \in [{Via, Member} -> LanSess]
      /\ c # NoLan /\ Via # Member /\ Owner[c] \in {Via, Member}
  BY LanAssumption DEF LanTypes
<1>1. UNCHANGED <<lanRows, lanStat, lanLeft, lanSync>> /\ lanHs[c].pc = "exit"
  BY DEF RegisterLan
<1>2. PICK old : old = lanSess[Owner[c]].conn
  OBVIOUS
<1>3. PICK x : x = [lanHs[c] EXCEPT !.pc = "stat"]
  OBVIOUS
<1>4. lanHs' = [d \in LanConns |-> CASE d = c -> x [] d = old -> Kicked(lanHs[d]) [] OTHER -> lanHs[d]]
  BY <1>2, <1>3 DEF RegisterLan
<1>5. old # c
  BY <1>0, <1>1, <1>2, OnlineIs
<1>6. lanHs'[c] = x /\ x.pc = "stat"
  <2>1. lanHs'[c] = x
    BY <1>4, <1>5
  <2>. QED BY <1>0, <1>3, <2>1, PcIs DEF Stations
<1>7. ASSUME NEW d \in LanConns, d # c PROVE lanHs'[d] = lanHs[d] \/ (lanHs[d].pc = "online" /\ lanHs'[d].pc = "off")
  <2>1. lanHs'[d] = IF d = old THEN Kicked(lanHs[d]) ELSE lanHs[d]
    BY <1>4, <1>7
  <2>. QED BY <1>0, <2>1, KickedIs
<1>8. lanSess' = [lanSess EXCEPT ![Owner[c]] = [conn |-> c, lans |-> lanHs[c].lans, vias |-> lanHs[c].vias]]
      /\ (Owner[c] = Via /\ lanHs[c].lans # lanRows => "crossed" \in lanSlips')
  BY DEF RegisterLan
<1>9. ASSUME Owner[c] = Via
      PROVE  lanSess'[Via].conn = c /\ lanSess'[Via].lans = lanHs[c].lans /\ lanSess'[Via] # Offline
  <2>1. lanSess'[Via] = [conn |-> c, lans |-> lanHs[c].lans, vias |-> lanHs[c].vias]
    BY <1>0, <1>8, <1>9
  <2>. QED BY <1>0, <2>1, OfflineIs
<1>10. Owner[c] # Via => lanSess'[Via] = lanSess[Via]
  BY <1>0, <1>8
<1>. QED BY <1>1, <1>6, <1>7, <1>8, <1>9, <1>10

(* A session of the via, and the rest, while a message is handled.         *)
LEMMA SyncIs ==
  ASSUME LanTypes, SyncSteps
  PROVE  /\ UNCHANGED <<lanRows, lanStat, lanHs, lanLeft>>
         /\ lanSlips' \in {lanSlips, lanSlips \cup {"crossed"}}
         /\ Online(Via)' <=> Online(Via)
         /\ lanSess'[Via] = lanSess[Via] \/ lanSess'[Via].lans = lanRows \/ "crossed" \in lanSlips'
         /\ lanSync.pc \in {"reload", "set"} => \/ lanSess'[Via].lans = lanRows \/ "crossed" \in lanSlips'
                                               \/ ~Online(Via) \/ lanSync'.pc = "set"
<1>0. lanSess \in [{Via, Member} -> LanSess] /\ Via # Member /\ lanRows \in SUBSET Lans
  BY LanAssumption DEF LanTypes
<1>1. CASE SyncReload
  <2>1. PICK s \in LanSess : s = lanSess[Via]
    BY <1>0
  <2>2. [s EXCEPT !.lans = lanSync.lans].lans = lanSync.lans /\ [s EXCEPT !.lans = lanSync.lans].conn = s.conn
    BY DEF LanSess
  <2>3. lanSess' = IF Online(Via) THEN [lanSess EXCEPT ![Via] = [s EXCEPT !.lans = lanSync.lans]] ELSE lanSess
    BY <1>1, <2>1 DEF SyncReload
  <2>4. /\ UNCHANGED <<lanRows, lanStat, lanHs, lanLeft>>
        /\ lanSlips' \in {lanSlips, lanSlips \cup {"crossed"}}
        /\ Online(Via) => lanSync.lans = lanRows \/ "crossed" \in lanSlips'
    BY <1>1 DEF SyncReload
  <2>5. CASE Online(Via)
    <3>1. lanSess'[Via] = [s EXCEPT !.lans = lanSync.lans]
      BY <1>0, <2>3, <2>5
    <3>2. s.conn # NoLan
      BY <2>1, <2>5, OnlineIs
    <3>3. lanSess'[Via] # Offline
      BY <2>2, <3>1, <3>2, OfflineIs
    <3>. QED BY <2>2, <2>4, <2>5, <3>1, <3>3 DEF Online
  <2>6. CASE ~Online(Via)
    BY <2>3, <2>4, <2>6 DEF Online
  <2>. QED BY <2>5, <2>6
<1>2. CASE (\E c \in LanConns : SyncAllowed(c)) \/ SyncLoad \/ SyncList
  BY <1>2 DEF SyncAllowed, SyncLoad, SyncList, SyncGoes, Online
<1>3. CASE SyncPrune
  <2>1. PICK x : lanSess' = [lanSess EXCEPT ![Member] = x]
    BY <1>3 DEF SyncPrune
  <2>2. lanSess'[Via] = lanSess[Via]
    BY <1>0, <2>1
  <2>. QED BY <1>3, <2>2 DEF SyncPrune, Online
<1>4. CASE SyncKick /\ ~Online(Member)
  BY <1>4 DEF SyncKick, Online
<1>. QED BY <1>1, <1>2, <1>3, <1>4 DEF SyncSteps

LEMMA EndingIs ==
  ASSUME LanTypes, NEW u \in {Via, Member}, Ending(u)
  PROVE  /\ UNCHANGED <<lanRows, lanStat, lanSlips>>
         /\ \A pc \in {"reload", "set"} : lanSync'.pc = pc <=> lanSync.pc = pc
         /\ \A c \in LanConns : lanHs'[c] = lanHs[c] \/ (lanHs[c].pc = "online" /\ lanHs'[c].pc = "off")
         /\ \/ ~Online(Via)' /\ \E c \in LanConns : lanLeft'[c] = "stat"
            \/ lanSess'[Via] = lanSess[Via] /\ \A c \in LanConns : lanLeft'[c] = lanLeft[c]
<1>1. UNCHANGED <<lanRows, lanStat, lanSlips>> /\ \A pc \in {"reload", "set"} : lanSync'.pc = pc <=> lanSync.pc = pc
  BY DEF Ending
<1>2. CASE u = Via
  BY <1>1, <1>2, ViaEnds DEF Ending, Online
<1>3. CASE u = Member
  BY <1>1, <1>3, MemberEnds DEF Ending
<1>. QED BY <1>2, <1>3

(* A handshake of the via that has written its rows keeps going until it   *)
(* registers or is refused.                                                *)
LEMMA CrossingStays ==
  ASSUME LanTypes, [LanNext]_lanVars, Crossing(Via)
  PROVE  \/ Crossing(Via)' \/ "refused" \in lanSlips' \/ "restart" \in lanSlips'
         \/ \E c \in LanConns : Owner[c] = Via /\ RegisterLan(c)
<1>1. PICK d \in LanConns : Owner[d] = Via /\ Midway(lanHs[d])
  BY DEF Crossing, Midway
<1>2. ASSUME Midway(lanHs'[d]) PROVE Crossing(Via)'
  BY <1>1, <1>2 DEF Crossing, Midway
<1>3. lanHs[d].pc # "online" /\ lanHs[d].pc # "new"
  BY <1>1 DEF Midway
<1>4. ASSUME NEW c \in LanConns, HsSteps(c) PROVE Midway(lanHs'[d]) \/ "refused" \in lanSlips'
  <2>1. CASE c = d
    BY <1>1, <1>3, <1>4, <2>1, HsStepIs
  <2>2. CASE c # d
    BY <1>1, <1>4, <2>2, HsStepIs
  <2>. QED BY <2>1, <2>2
<1>5. ASSUME NEW c \in LanConns, RegisterLan(c), Owner[c] # Via PROVE Midway(lanHs'[d])
  BY <1>1, <1>3, <1>5, RegisterIs
<1>6. ASSUME (\E c \in LanConns : LeftSteps(c)) \/ SyncRows PROVE Midway(lanHs'[d])
  BY <1>1, <1>6 DEF LeftSteps, StatDown, ClearRows, SyncRows
<1>7. ASSUME NEW u \in {Via, Member}, Ending(u) PROVE Midway(lanHs'[d])
  BY <1>1, <1>3, <1>7, EndingIs
<1>8. ASSUME SyncSteps PROVE Midway(lanHs'[d])
  BY <1>1, <1>8, SyncIs
<1>9. ASSUME LanRestart PROVE "restart" \in lanSlips'
  BY <1>9 DEF LanRestart
<1>10. ASSUME UNCHANGED lanVars PROVE Midway(lanHs'[d])
  BY <1>1, <1>10 DEF lanVars
<1>. QED BY <1>2, <1>4, <1>5, <1>6, <1>7, <1>8, <1>9, <1>10, LanNextIs

LEMMA ReportIs ==
  ASSUME LanTypes, NEW c \in LanConns, Report(c), Owner[c] = Via
  PROVE  Crossing(Via)'
<1>1. lanHs'[c] = [lanHs[c] EXCEPT !.pc = "rows"] /\ lanHs[c] \in LanHs
  BY DEF LanTypes, Report, HsGoes
<1>2. lanHs'[c].pc = "rows"
  BY <1>1, PcIs DEF Stations
<1>. QED BY <1>2 DEF Crossing

LEMMA ExitStep == LanInv /\ [LanNext]_lanVars => ExitLansRegistered'
<1>. SUFFICES ASSUME LanTypes, ExitLansRegistered, [LanNext]_lanVars,
                     Online(Via)', lanSync'.pc \notin {"reload", "set"}, ~Crossing(Via)',
                     "late" \notin lanSlips', "refused" \notin lanSlips', "crossed" \notin lanSlips'
              PROVE  lanSess'[Via].lans = lanRows'
  BY DEF LanInv, ExitLansRegistered
<1>1. lanSlips \subseteq lanSlips'
  BY SlipsStay
<1>2. ASSUME Online(Via), lanSync.pc \notin {"reload", "set"}, ~Crossing(Via) PROVE lanSess[Via].lans = lanRows
  BY <1>1, <1>2 DEF ExitLansRegistered
<1>3. ASSUME lanSess'[Via] = lanSess[Via], lanRows' = lanRows, lanSync.pc \notin {"reload", "set"}, ~Crossing(Via)
      PROVE  lanSess'[Via].lans = lanRows'
  BY <1>2, <1>3 DEF Online
<1>4. CASE LanRestart
  BY <1>4 DEF LanRestart, Online
<1>5. CASE \E c \in LanConns : Owner[c] = Via /\ RegisterLan(c)
  BY <1>5, RegisterIs
<1>6. ASSUME NEW c \in LanConns, Report(c), Owner[c] = Via PROVE FALSE
  BY <1>6, ReportIs
<1>7. ASSUME NEW c \in LanConns, HsSteps(c) PROVE lanSess'[Via].lans = lanRows'
  <2>1. lanSess' = lanSess /\ lanSync' = lanSync /\ lanRows' = lanRows
    BY <1>6, <1>7, HsStepIs
  <2>2. ~Crossing(Via)
    <3>1. SUFFICES ASSUME NEW d \in LanConns, Owner[d] = Via, Midway(lanHs[d]) PROVE Midway(lanHs'[d])
      BY DEF Crossing, Midway
    <3>2. CASE d = c
      <4>1. lanHs[c].pc # "new" /\ lanHs[c].pc # "online"
        BY <3>1, <3>2 DEF Midway
      <4>. QED BY <1>7, <3>1, <3>2, <4>1, HsStepIs
    <3>3. CASE d # c
      BY <1>7, <3>1, <3>3, HsStepIs
    <3>. QED BY <3>2, <3>3
  <2>. QED BY <1>3, <2>1, <2>2
<1>8. ASSUME NEW c \in LanConns, RegisterLan(c), Owner[c] # Via PROVE lanSess'[Via].lans = lanRows'
  <2>1. lanSess'[Via] = lanSess[Via] /\ lanSync' = lanSync /\ lanRows' = lanRows
    BY <1>8, RegisterIs
  <2>2. ~Crossing(Via)
    <3>1. SUFFICES ASSUME NEW d \in LanConns, Owner[d] = Via, Midway(lanHs[d]) PROVE Midway(lanHs'[d])
      BY DEF Crossing, Midway
    <3>2. lanHs[d].pc # "online"
      BY <3>1 DEF Midway
    <3>. QED BY <1>8, <3>1, <3>2, RegisterIs
  <2>. QED BY <1>3, <2>1, <2>2
<1>9. ASSUME UNCHANGED <<lanSess, lanHs, lanSync, lanRows>> PROVE lanSess'[Via].lans = lanRows'
  BY <1>3, <1>9 DEF Crossing
<1>10. ASSUME NEW c \in LanConns, LeftSteps(c) PROVE lanSess'[Via].lans = lanRows'
  <2>1. CASE StatDown(c)
    BY <1>9, <2>1 DEF StatDown
  <2>2. CASE ClearRows(c)
    BY <2>2 DEF ClearRows, Online
  <2>. QED BY <1>10, <2>1, <2>2 DEF LeftSteps
<1>11. ASSUME NEW u \in {Via, Member}, Ending(u) PROVE lanSess'[Via].lans = lanRows'
  <2>1. lanSess'[Via] = lanSess[Via] /\ lanRows' = lanRows /\ lanSync.pc \notin {"reload", "set"}
    BY <1>11, EndingIs
  <2>2. ~Crossing(Via)
    <3>1. SUFFICES ASSUME NEW d \in LanConns, Owner[d] = Via, Midway(lanHs[d]) PROVE Midway(lanHs'[d])
      BY DEF Crossing, Midway
    <3>2. lanHs[d].pc # "online"
      BY <3>1 DEF Midway
    <3>. QED BY <1>11, <3>1, <3>2, EndingIs
  <2>. QED BY <1>3, <2>1, <2>2
<1>12. ASSUME SyncSteps PROVE lanSess'[Via].lans = lanRows'
  <2>1. UNCHANGED <<lanRows, lanHs>> /\ Online(Via)
        /\ (lanSess'[Via] = lanSess[Via] \/ lanSess'[Via].lans = lanRows)
        /\ (lanSync.pc \in {"reload", "set"} => lanSess'[Via].lans = lanRows)
    BY <1>12, SyncIs
  <2>2. ~Crossing(Via)
    BY <2>1 DEF Crossing
  <2>. QED BY <1>3, <2>1, <2>2
<1>13. ASSUME UNCHANGED lanVars PROVE lanSess'[Via].lans = lanRows'
  BY <1>9, <1>13 DEF lanVars
<1>14. ~SyncRows
  BY DEF SyncRows, SyncGoes
<1>. QED BY <1>4, <1>5, <1>7, <1>8, <1>10, <1>11, <1>12, <1>13, <1>14, LanNextIs

LEMMA HeldStep == LanInv /\ [LanNext]_lanVars => RowsHeld'
<1>. SUFFICES ASSUME LanTypes, RowsHeld, [LanNext]_lanVars,
                     lanRows' # {}, "refused" \notin lanSlips', "restart" \notin lanSlips',
                     "lateSync" \notin lanSlips',
                     ~Crossing(Via)', \A c \in LanConns : lanLeft'[c] = "none"
              PROVE  Online(Via)'
  BY DEF LanInv, RowsHeld, Held
<1>0. lanSlips \subseteq lanSlips' /\ lanLeft \in [LanConns -> {"none", "stat", "rows"}]
  BY SlipsStay DEF LanTypes
<1>1. CASE \E c \in LanConns : Owner[c] = Via /\ RegisterLan(c)
  BY <1>1, RegisterIs DEF Online
<1>2. CASE ~ \E c \in LanConns : Owner[c] = Via /\ RegisterLan(c)
  <2>1. ~Crossing(Via)
    BY <1>2, CrossingStays
  <2>2. ASSUME lanRows' = lanRows, \A c \in LanConns : lanLeft[c] = "none" PROVE Online(Via)
    BY <1>0, <2>1, <2>2 DEF RowsHeld, Held
  <2>3. ASSUME NEW c \in LanConns, HsSteps(c) PROVE Online(Via)'
    <3>1. ~Report(c) \/ Owner[c] # Via
      BY <2>3, ReportIs
    <3>2. lanSess' = lanSess /\ lanLeft' = lanLeft /\ lanRows' = lanRows
      BY <2>3, <3>1, HsStepIs
    <3>. QED BY <2>2, <3>2 DEF Online
  <2>4. ASSUME NEW c \in LanConns, RegisterLan(c) PROVE Online(Via)'
    BY <1>2, <2>2, <2>4, RegisterIs DEF Online
  <2>5. ASSUME NEW c \in LanConns, LeftSteps(c) PROVE Online(Via)'
    BY <1>0, <2>5 DEF LeftSteps, StatDown, ClearRows
  <2>6. ASSUME SyncRows PROVE Online(Via)'
    BY <2>1, <2>6 DEF SyncRows, Held, Online
  <2>7. ASSUME NEW u \in {Via, Member}, Ending(u) PROVE Online(Via)'
    <3>1. lanRows' = lanRows /\ lanSess'[Via] = lanSess[Via] /\ \A c \in LanConns : lanLeft'[c] = lanLeft[c]
      BY <2>7, EndingIs
    <3>. QED BY <2>2, <3>1 DEF Online
  <2>8. ASSUME SyncSteps PROVE Online(Via)'
    BY <2>2, <2>8, SyncIs
  <2>9. ~LanRestart
    BY DEF LanRestart
  <2>10. ASSUME UNCHANGED lanVars PROVE Online(Via)'
    BY <2>2, <2>10 DEF lanVars, Online
  <2>. QED BY <2>3, <2>4, <2>5, <2>6, <2>7, <2>8, <2>9, <2>10, LanNextIs
<1>. QED BY <1>1, <1>2

LEMMA RoutesStep == LanInv /\ [LanNext]_lanVars => RoutesLive'
<1>. SUFFICES ASSUME LanTypes, RowsHeld, RoutesLive, [LanNext]_lanVars, "ghost" \in lanSlips'
              PROVE  lanSlips' \cap {"refused", "restart", "late", "lateSync"} # {}
  BY DEF LanInv, RoutesLive
<1>1. lanSlips \subseteq lanSlips'
  BY SlipsStay
<1>2. CASE "ghost" \in lanSlips
  BY <1>1, <1>2 DEF RoutesLive
<1>3. CASE \E c \in LanConns : Resolve(c)
  BY <1>1, <1>2, <1>3 DEF Resolve, RowsHeld, Held
<1>4. ASSUME NEW c \in LanConns, HsSteps(c), ~Resolve(c) PROVE "ghost" \in lanSlips
  BY <1>4 DEF HsSteps, Report, LoadExitLANs, Refused, StatUp, Inbound, StatRx
<1>5. ASSUME (\E c \in LanConns : RegisterLan(c) \/ LeftSteps(c)) \/ SyncRows PROVE "ghost" \in lanSlips
  <2>1. ASSUME NEW c \in LanConns, RegisterLan(c) PROVE "ghost" \in lanSlips
    <3>1. lanSlips' \in {lanSlips, lanSlips \cup {"crossed"}}
      BY <2>1 DEF RegisterLan
    <3>. QED BY <3>1
  <2>2. ASSUME NEW c \in LanConns, LeftSteps(c) PROVE "ghost" \in lanSlips
    BY <2>2 DEF LeftSteps, StatDown, ClearRows
  <2>3. CASE SyncRows
    BY <2>3 DEF SyncRows
  <2>. QED BY <1>5, <2>1, <2>2, <2>3
<1>6. ASSUME NEW u \in {Via, Member}, Ending(u) PROVE "ghost" \in lanSlips
  BY <1>6 DEF Ending
<1>7. ASSUME SyncSteps PROVE "ghost" \in lanSlips
  BY <1>7, SyncIs
<1>8. ASSUME LanRestart \/ UNCHANGED lanVars PROVE "ghost" \in lanSlips
  BY <1>8 DEF LanRestart, lanVars
<1>. QED BY <1>2, <1>3, <1>4, <1>5, <1>6, <1>7, <1>8, LanNextIs

LEMMA UpStep == LanInv /\ [LanNext]_lanVars => UpIsOnline'
<1>. SUFFICES ASSUME LanTypes, UpIsOnline, [LanNext]_lanVars, lanStat' = "up", ~Online(Via)',
                     "lateStat" \notin lanSlips', "restart" \notin lanSlips'
              PROVE  \E c \in LanConns : lanLeft'[c] = "stat"
  BY DEF LanInv, UpIsOnline
<1>1. lanSlips \subseteq lanSlips' /\ lanLeft \in [LanConns -> {"none", "stat", "rows"}]
  BY SlipsStay DEF LanTypes
<1>2. ASSUME lanStat = "up", ~Online(Via) PROVE \E c \in LanConns : lanLeft[c] = "stat"
  BY <1>1, <1>2 DEF UpIsOnline
<1>3. ASSUME UNCHANGED <<lanStat, lanLeft, lanSess>> PROVE \E c \in LanConns : lanLeft'[c] = "stat"
  BY <1>2, <1>3 DEF Online
<1>4. ASSUME NEW c \in LanConns, HsSteps(c) PROVE \E d \in LanConns : lanLeft'[d] = "stat"
  <2>1. CASE StatUp(c)
    <3>1. CASE Owner[c] = Via
      <4>1. lanSess[Via].conn = c /\ lanSess' = lanSess
        BY <2>1, <3>1 DEF StatUp
      <4>2. Online(Via)
        BY <4>1, LanAssumption, OnlineIs
      <4>. QED BY <4>1, <4>2 DEF Online
    <3>2. CASE Owner[c] # Via
      BY <1>3, <2>1, <3>2 DEF StatUp
    <3>. QED BY <3>1, <3>2
  <2>2. CASE StatRx(c)
    BY <2>2 DEF StatRx, Online
  <2>3. CASE ~StatUp(c) /\ ~StatRx(c)
    BY <1>3, <1>4, <2>3, HsStepIs
  <2>. QED BY <2>1, <2>2, <2>3
<1>5. ASSUME NEW c \in LanConns, RegisterLan(c) PROVE \E d \in LanConns : lanLeft'[d] = "stat"
  BY <1>2, <1>5, RegisterIs DEF Online
<1>6. ASSUME NEW c \in LanConns, LeftSteps(c) PROVE \E d \in LanConns : lanLeft'[d] = "stat"
  <2>1. ClearRows(c)
    BY <1>6 DEF LeftSteps, StatDown
  <2>2. PICK d \in LanConns : lanLeft[d] = "stat"
    BY <1>2, <2>1 DEF ClearRows, Online
  <2>3. lanLeft'[d] = "stat"
    BY <1>1, <2>1, <2>2 DEF ClearRows
  <2>. QED BY <2>3
<1>7. ASSUME SyncRows PROVE \E d \in LanConns : lanLeft'[d] = "stat"
  BY <1>3, <1>7 DEF SyncRows
<1>8. ASSUME NEW u \in {Via, Member}, Ending(u) PROVE \E d \in LanConns : lanLeft'[d] = "stat"
  <2>1. lanStat' = lanStat
    BY <1>8, EndingIs
  <2>2. ASSUME lanSess'[Via] = lanSess[Via], \A c \in LanConns : lanLeft'[c] = lanLeft[c] PROVE \E d \in LanConns : lanLeft'[d] = "stat"
    BY <1>2, <2>1, <2>2 DEF Online
  <2>. QED BY <1>8, <2>2, EndingIs
<1>9. ASSUME SyncSteps PROVE \E d \in LanConns : lanLeft'[d] = "stat"
  BY <1>2, <1>9, SyncIs
<1>10. ~LanRestart
  BY DEF LanRestart
<1>11. ASSUME UNCHANGED lanVars PROVE \E d \in LanConns : lanLeft'[d] = "stat"
  BY <1>3, <1>11 DEF lanVars
<1>. QED BY <1>4, <1>5, <1>6, <1>7, <1>8, <1>9, <1>10, <1>11, LanNextIs

LEMMA OnlineStep == LanInv /\ [LanNext]_lanVars => OnlineIsUp'
<1>. SUFFICES ASSUME LanTypes, OnlineIsUp, [LanNext]_lanVars, Online(Via)', lanStat' # "up",
                     "lateStat" \notin lanSlips', "restart" \notin lanSlips'
              PROVE  \E c \in LanConns : Owner[c] = Via /\ lanHs'[c].pc = "stat"
  BY DEF LanInv, OnlineIsUp
<1>1. lanSlips \subseteq lanSlips'
  BY SlipsStay
<1>2. ASSUME Online(Via), lanStat # "up" PROVE \E c \in LanConns : Owner[c] = Via /\ lanHs[c].pc = "stat"
  BY <1>1, <1>2 DEF OnlineIsUp
<1>3. ASSUME UNCHANGED <<lanStat, lanHs, lanSess>> PROVE \E c \in LanConns : Owner[c] = Via /\ lanHs'[c].pc = "stat"
  BY <1>2, <1>3 DEF Online
<1>4. ASSUME NEW c \in LanConns, HsSteps(c) PROVE \E d \in LanConns : Owner[d] = Via /\ lanHs'[d].pc = "stat"
  <2>1. ~StatRx(c) /\ (StatUp(c) => Owner[c] # Via /\ lanStat' = lanStat)
    BY DEF StatRx, StatUp
  <2>2. lanSess' = lanSess /\ lanStat' = lanStat /\ \A d \in LanConns : d # c => lanHs'[d] = lanHs[d]
    BY <1>4, <2>1, HsStepIs
  <2>3. PICK d \in LanConns : Owner[d] = Via /\ lanHs[d].pc = "stat"
    BY <1>2, <2>2 DEF Online
  <2>4. d # c
    BY <1>4, <2>1, <2>3, HsStepIs DEF Midway
  <2>. QED BY <2>2, <2>3, <2>4
<1>5. ASSUME NEW c \in LanConns, RegisterLan(c) PROVE \E d \in LanConns : Owner[d] = Via /\ lanHs'[d].pc = "stat"
  <2>1. CASE Owner[c] = Via
    BY <1>5, <2>1, RegisterIs
  <2>2. CASE Owner[c] # Via
    <3>1. lanSess'[Via] = lanSess[Via] /\ lanStat' = lanStat
      BY <1>5, <2>2, RegisterIs
    <3>2. PICK d \in LanConns : Owner[d] = Via /\ lanHs[d].pc = "stat"
      BY <1>2, <3>1 DEF Online
    <3>. QED BY <1>5, <2>2, <3>2, RegisterIs
  <2>. QED BY <2>1, <2>2
<1>6. ASSUME NEW c \in LanConns, LeftSteps(c) PROVE \E d \in LanConns : Owner[d] = Via /\ lanHs'[d].pc = "stat"
  <2>1. ~StatDown(c)
    BY DEF StatDown, Online
  <2>. QED BY <1>3, <1>6, <2>1 DEF LeftSteps, ClearRows
<1>7. ASSUME SyncRows PROVE \E d \in LanConns : Owner[d] = Via /\ lanHs'[d].pc = "stat"
  BY <1>3, <1>7 DEF SyncRows
<1>8. ASSUME NEW u \in {Via, Member}, Ending(u) PROVE \E d \in LanConns : Owner[d] = Via /\ lanHs'[d].pc = "stat"
  <2>1. lanStat' = lanStat /\ lanSess'[Via] = lanSess[Via]
    BY <1>8, EndingIs
  <2>2. PICK d \in LanConns : Owner[d] = Via /\ lanHs[d].pc = "stat"
    BY <1>2, <2>1 DEF Online
  <2>. QED BY <1>8, <2>2, EndingIs
<1>9. ASSUME SyncSteps
      PROVE  \E d \in LanConns : Owner[d] = Via /\ lanHs'[d].pc = "stat"
  BY <1>2, <1>9, SyncIs
<1>10. ~LanRestart
  BY DEF LanRestart
<1>11. ASSUME UNCHANGED lanVars PROVE \E d \in LanConns : Owner[d] = Via /\ lanHs'[d].pc = "stat"
  BY <1>3, <1>11 DEF lanVars
<1>. QED BY <1>4, <1>5, <1>6, <1>7, <1>8, <1>9, <1>10, <1>11, LanNextIs

LEMMA LanInitHolds == LanInit => LanInv
<1>. SUFFICES ASSUME LanInit PROVE LanInv
  OBVIOUS
<1>1. ~Online(Via) /\ lanStat = "none" /\ lanRows = {} /\ lanSlips = {}
  BY DEF LanInit, Online
<1>2. LanTypes
  BY OfflineIs DEF LanInit, LanTypes, SessionsHeld, FlushesOfVia, HandlersOfVia, NoSync
<1>. QED BY <1>1, <1>2 DEF LanInv, ExitLansRegistered, RowsHeld, RoutesLive, UpIsOnline, OnlineIsUp

LEMMA LanInvAgrees == LanInv => LanRowsAgree
<1>. SUFFICES ASSUME LanInv PROVE StatsFollow
  BY DEF LanInv, LanRowsAgree
<1>. QED BY DEF LanInv, StatsFollow, UpIsOnline, OnlineIsUp

(***************************************************************************)
(* The rows, the session and session_stats of a via agree, whoever comes   *)
(* and goes, whatever is reported, and whatever crosses what: what the     *)
(* server lets a via send from is what the others' routes go by            *)
(* (ExitLANs, client_lan_registry), a route leads through a via that is    *)
(* there, and session_stats says who is; the exceptions are those that the *)
(* parts of the property name.                                             *)
(***************************************************************************)
THEOREM LanRowsKept == LanSpec => []LanRowsAgree
<1>1. LanInv /\ [LanNext]_lanVars => LanInv'
  <2>. SUFFICES ASSUME LanInv, [LanNext]_lanVars PROVE LanInv'
    OBVIOUS
  <2>1. LanTypes'
    BY LanTypesStep DEF LanInv
  <2>2. ExitLansRegistered' /\ RowsHeld' /\ RoutesLive'
    BY ExitStep, HeldStep, RoutesStep
  <2>3. UpIsOnline' /\ OnlineIsUp'
    BY UpStep, OnlineStep
  <2>. QED BY <2>1, <2>2, <2>3 DEF LanInv
<1>2. LanSpec => []LanInv
  BY <1>1, LanInitHolds, PTL DEF LanSpec
<1>. QED BY <1>2, LanInvAgrees, PTL
-----------------------------------------------------------------------------
(***************************************************************************)
(* For any accounts, addresses, edits and number of rows: the tables of    *)
(* the policy agree (TablesAgree).  What an edit writes was checked        *)
(* against the tables of an earlier transaction: what it names was an      *)
(* account then, and is one still or was deleted under it (Named); ids are *)
(* not used twice, so the row it is about is the same, or gone (EditsFit); *)
(* an edit of peer access that is half way has its first half (AccessOK).  *)
(***************************************************************************)
(* Rows and edits have the shape the handlers give them. *)
Members == SUBSET (VpnUsers \cup {Everyone})
Dests   == Spellings \cup {Trim[s] : s \in Spellings} \cup {""}
PtRows   == [ip : Ips \cup {""}, source : {"none", "config", "manual"}, members : Members, excludes : SUBSET VpnUsers]
PtRoutes == [dest : Dests, via : VpnUsers \cup {""}, members : Members]
PtOps    == {"none", "newDns", "members", "excludes", "newRoute", "route", "first", "second", "checked"}
PtEdits  == [op : PtOps, id : Ids \cup {0}, key : Ips \cup Dests \cup VpnUsers, via : VpnUsers \cup {""},
             members : Members, excludes : SUBSET VpnUsers]

(* What is asked of the tables. *)
EditOK(d) ==
    /\ d.op \in {"newDns", "members"} => d.members \in MemberLists
    /\ d.op = "newDns" => d.key \in Ips /\ (d.members # {Everyone} => d.excludes = {})
    /\ d.op \in {"members", "excludes", "route"} => d.id \in Ids
    /\ d.op = "newRoute" => d.via \in VpnUsers /\ d.key \in Dests
    /\ d.op \in {"first", "second", "checked"} => d.key \in VpnUsers /\ d.via \in VpnUsers
EditsOK == ptEdits \in [Editors -> PtEdits] /\ \A e \in Editors : EditOK(ptEdits[e])

OldOK ==
    /\ \E n \in Nat : ptOld \in [1..n -> [user : VpnUsers \cup {Everyone}, dest : Spellings, via : VpnUsers]]
    /\ ptOld # <<>> => ptTopic = "route"
    /\ ~Booted => ptUsers = VpnUsers /\ ptNext = 1 /\ \A e \in Editors : ptEdits[e] = NoEdit

UsersOK == ptUsers \subseteq VpnUsers /\ ptYaml \subseteq Ips /\ ptNext \in 1..(MaxIds + 1)
RowOK(r) == (r.source # "none" => r.ip # "") /\ (r.source = "none" => r = NoRow)
DnsOK ==
    /\ ptDns \in [Ids -> PtRows]
    /\ \A i \in Ids : RowOK(ptDns[i])
    /\ \A i \in Ids : i >= ptNext => ptDns[i] = NoRow
RoutesOK == ptRoutes \in [Ids -> PtRoutes]

LEMMA Bounded == MaxIds \in Nat
BY PolicyTablesAssumption

(* Requests and the transactions they end in. *)
Asking(e) == AskCreateDNS(e) \/ AskDNSMembers(e) \/ AskDNSExcludes(e) \/ AskCreateRoute(e) \/ AskRouteMembers(e) \/ AskAccess(e)
Saving(e) == CreateDNSServer(e) \/ ReplaceDNSServerMembers(e) \/ ReplaceDNSServerExcludes(e) \/ InsertPeerRoute(e) \/ ReplacePeerRouteMembers(e)

LEMMA PtNextIs ==
  PtNext <=> \/ \E e \in Editors : Asking(e) \/ Saving(e) \/ AddPeerAccess(e) \/ AskSecond(e)
             \/ Migrate \/ StopHalfWay \/ \E yaml \in SUBSET Ips : Boot(yaml)
             \/ \E i \in Ids : DeleteDNSServer(i) \/ DeletePeerRoute(i)
             \/ \E u, v \in VpnUsers : RemovePeerAccessPair(u, v)
             \/ \E u \in VpnUsers : DeleteUser(u)
BY DEF PtNext, Asking, Saving

LEMMA NoEditOK == NoEdit \in PtEdits /\ EditOK(NoEdit) /\ NoEdit.op = "none" /\ NoEdit.members = {} /\ NoEdit.excludes = {}
BY DEF NoEdit, PtEdits, EditOK, PtOps, Members, Dests

LEMMA MemberListsIn == MemberLists \subseteq Members /\ {} \notin MemberLists /\ {Everyone} \in MemberLists
BY DEF MemberLists, Members

(* What an edit that is asked for is. *)
LEMMA AskedIs ==
  ASSUME UsersOK, NEW e \in Editors, Asking(e)
  PROVE  /\ Booted /\ ptEdits[e] = NoEdit
         /\ UNCHANGED <<ptTopic, ptUsers, ptYaml, ptDns, ptRoutes, ptOld, ptAccess, ptNext, ptFk, ptSlips>>
         /\ \E d \in PtEdits :
               /\ EditOK(d) /\ ptEdits' = [ptEdits EXCEPT ![e] = d]
               /\ d.members \cup d.excludes \subseteq ptUsers \cup {Everyone}
               /\ d.op = "newRoute" => d.via \in ptUsers
               /\ d.op = "members" => ptDns[d.id].source = "manual"
               /\ d.op \in {"first", "second", "checked"} => d.op = "first" /\ ptTopic = "access"
<1>. USE DEF UsersOK, Valid, Asks
<1>1. \A us \in MemberLists : us \in Members
  BY MemberListsIn
<1>2. CASE AskCreateDNS(e)
  <2>1. PICK ip \in Ips, us \in MemberLists, ex \in SUBSET VpnUsers :
           /\ us # {Everyone} => ex = {}
           /\ Valid(us) /\ Valid(ex)
           /\ Asks(e, [NoEdit EXCEPT !.op = "newDns", !.key = ip, !.members = us, !.excludes = ex])
    BY <1>2 DEF AskCreateDNS
  <2>. DEFINE d == [NoEdit EXCEPT !.op = "newDns", !.key = ip, !.members = us, !.excludes = ex]
  <2>2. d \in PtEdits /\ d.op = "newDns" /\ d.members = us /\ d.excludes = ex /\ d.key = ip
    BY <1>1 DEF NoEdit, PtEdits, PtOps, Members
  <2>3. EditOK(d)
    BY <2>1, <2>2 DEF EditOK
  <2>4. us \cup ex \subseteq ptUsers \cup {Everyone}
    BY <2>1
  <2>. QED BY <1>2, <2>1, <2>2, <2>3, <2>4 DEF AskCreateDNS, KeepTables
<1>3. CASE AskDNSMembers(e)
  <2>1. PICK i \in Ids, us \in MemberLists :
           /\ ptDns[i].source = "manual" /\ Valid(us)
           /\ Asks(e, [NoEdit EXCEPT !.op = "members", !.id = i, !.members = us])
    BY <1>3 DEF AskDNSMembers
  <2>. DEFINE d == [NoEdit EXCEPT !.op = "members", !.id = i, !.members = us]
  <2>2. d \in PtEdits /\ d.op = "members" /\ d.members = us /\ d.excludes = {} /\ d.id = i
    BY <1>1 DEF NoEdit, PtEdits, PtOps, Members, Dests
  <2>3. EditOK(d)
    BY <2>1, <2>2 DEF EditOK
  <2>. QED BY <1>3, <2>1, <2>2, <2>3 DEF AskDNSMembers, KeepTables
<1>4. CASE AskDNSExcludes(e)
  <2>1. PICK i \in Ids, us \in SUBSET VpnUsers : Valid(us) /\ Asks(e, [NoEdit EXCEPT !.op = "excludes", !.id = i, !.excludes = us])
    BY <1>4 DEF AskDNSExcludes
  <2>. DEFINE d == [NoEdit EXCEPT !.op = "excludes", !.id = i, !.excludes = us]
  <2>2. d \in PtEdits /\ d.op = "excludes" /\ d.members = {} /\ d.excludes = us /\ d.id = i
    BY DEF NoEdit, PtEdits, PtOps, Members, Dests
  <2>3. EditOK(d)
    BY <2>1, <2>2 DEF EditOK
  <2>. QED BY <1>4, <2>1, <2>2, <2>3 DEF AskDNSExcludes, KeepTables
<1>5. CASE AskCreateRoute(e)
  <2>1. PICK s \in Spellings, via \in ptUsers, us \in MemberLists :
           Valid(us) /\ Asks(e, [NoEdit EXCEPT !.op = "newRoute", !.key = s, !.via = via, !.members = us])
    BY <1>5 DEF AskCreateRoute
  <2>. DEFINE d == [NoEdit EXCEPT !.op = "newRoute", !.key = s, !.via = via, !.members = us]
  <2>2. d \in PtEdits /\ d.op = "newRoute" /\ d.members = us /\ d.excludes = {} /\ d.via = via /\ d.key = s
    BY <1>1 DEF NoEdit, PtEdits, PtOps, Members, Dests
  <2>3. EditOK(d)
    BY <2>1, <2>2 DEF EditOK, Dests
  <2>. QED BY <1>5, <2>1, <2>2, <2>3 DEF AskCreateRoute, KeepTables
<1>6. CASE AskRouteMembers(e)
  <2>1. PICK i \in Ids, us \in MemberLists : Valid(us) /\ Asks(e, [NoEdit EXCEPT !.op = "route", !.id = i, !.members = us])
    BY <1>6 DEF AskRouteMembers
  <2>. DEFINE d == [NoEdit EXCEPT !.op = "route", !.id = i, !.members = us]
  <2>2. d \in PtEdits /\ d.op = "route" /\ d.members = us /\ d.excludes = {} /\ d.id = i
    BY <1>1 DEF NoEdit, PtEdits, PtOps, Members, Dests
  <2>3. EditOK(d)
    BY <2>1, <2>2 DEF EditOK
  <2>. QED BY <1>6, <2>1, <2>2, <2>3 DEF AskRouteMembers, KeepTables
<1>7. CASE AskAccess(e)
  <2>1. PICK u, v \in VpnUsers : Asks(e, [NoEdit EXCEPT !.op = "first", !.key = u, !.via = v])
    BY <1>7 DEF AskAccess
  <2>. DEFINE d == [NoEdit EXCEPT !.op = "first", !.key = u, !.via = v]
  <2>2. d \in PtEdits /\ d.op = "first" /\ d.members = {} /\ d.excludes = {} /\ d.key = u /\ d.via = v
    BY DEF NoEdit, PtEdits, PtOps, Members, Dests
  <2>3. EditOK(d)
    BY <2>1, <2>2 DEF EditOK
  <2>. QED BY <1>7, <2>1, <2>2, <2>3 DEF AskAccess, KeepTables
<1>. QED BY <1>2, <1>3, <1>4, <1>5, <1>6, <1>7 DEF Asking

LEMMA EditsStep == EditsOK /\ UsersOK /\ [PtNext]_ptVars => EditsOK'
<1>. SUFFICES ASSUME EditsOK, UsersOK, [PtNext]_ptVars PROVE EditsOK'
  OBVIOUS
<1>1. CASE UNCHANGED ptEdits
  BY <1>1 DEF EditsOK
<1>2. ASSUME NEW e \in Editors, NEW d \in PtEdits, EditOK(d), ptEdits' = [ptEdits EXCEPT ![e] = d] PROVE EditsOK'
  BY <1>2 DEF EditsOK
<1>3. ASSUME NEW e \in Editors, Asking(e) PROVE EditsOK'
  BY <1>2, <1>3, AskedIs
<1>4. ASSUME NEW e \in Editors, Saving(e) PROVE EditsOK'
  <2>1. Over(e)
    BY <1>4 DEF Saving, CreateDNSServer, ReplaceDNSServerMembers, ReplaceDNSServerExcludes, InsertPeerRoute, ReplacePeerRouteMembers
  <2>. QED BY <1>2, <2>1, NoEditOK DEF Over
<1>5. ASSUME NEW e \in Editors, AddPeerAccess(e) PROVE EditsOK'
  <2>. DEFINE d == [ptEdits[e] EXCEPT !.op = "second", !.key = ptEdits[e].via, !.via = ptEdits[e].key]
  <2>1. ptEdits[e] \in PtEdits /\ ptEdits[e].key \in VpnUsers /\ ptEdits[e].via \in VpnUsers
    BY <1>5 DEF AddPeerAccess, EditsOK, EditOK
  <2>2. d \in PtEdits /\ EditOK(d)
    BY <2>1 DEF PtEdits, EditOK, PtOps
  <2>3. ptEdits' = [ptEdits EXCEPT ![e] = d] \/ ptEdits' = [ptEdits EXCEPT ![e] = NoEdit]
    BY <1>5 DEF AddPeerAccess
  <2>. QED BY <1>2, <2>2, <2>3, NoEditOK
<1>6. ASSUME NEW e \in Editors, AskSecond(e) PROVE EditsOK'
  <2>. DEFINE d == [ptEdits[e] EXCEPT !.op = "checked"]
  <2>1. ptEdits[e] \in PtEdits /\ EditOK(ptEdits[e]) /\ ptEdits[e].op = "second"
    BY <1>6 DEF AskSecond, EditsOK
  <2>2. d \in PtEdits /\ EditOK(d)
    BY <2>1 DEF PtEdits, EditOK, PtOps
  <2>3. ptEdits' = [ptEdits EXCEPT ![e] = IF Valid({ptEdits[e].key, ptEdits[e].via}) THEN d ELSE NoEdit]
    BY <1>6 DEF AskSecond
  <2>. QED BY <1>2, <2>2, <2>3, NoEditOK
<1>7. CASE StopHalfWay \/ \E yaml \in SUBSET Ips : Boot(yaml)
  BY <1>7, NoEditOK DEF StopHalfWay, Boot, EditsOK
<1>8. CASE Migrate \/ (\E i \in Ids : DeleteDNSServer(i) \/ DeletePeerRoute(i)) \/ UNCHANGED ptVars
  BY <1>1, <1>8 DEF Migrate, DeleteDNSServer, DeletePeerRoute, ptVars
<1>9. CASE (\E u, v \in VpnUsers : RemovePeerAccessPair(u, v)) \/ \E u \in VpnUsers : DeleteUser(u)
  BY <1>1, <1>9 DEF RemovePeerAccessPair, DeleteUser
<1>. QED BY <1>3, <1>4, <1>5, <1>6, <1>7, <1>8, <1>9, PtNextIs

(* The transactions of CreateDNSServer and of Boot, from the new ids. *)
LEMMA NewIds ==
  ASSUME NEW n \in Nat, NEW S, NEW new \in [1..n -> S]
  PROVE  Len(new) = n
<1>1. new \in Seq(S)
  BY SeqDef
<1>2. DOMAIN new = 1..n /\ DOMAIN new = 1..Len(new) /\ Len(new) \in Nat
  BY <1>1, LenProperties
<1>. QED BY <1>2

LEMMA UsersStep == UsersOK /\ EditsOK /\ OldOK /\ [PtNext]_ptVars => UsersOK' /\ OldOK' /\ (ptNext' >= ptNext)
<1>. SUFFICES ASSUME UsersOK, EditsOK, OldOK, [PtNext]_ptVars PROVE UsersOK' /\ OldOK' /\ ptNext' >= ptNext
  OBVIOUS
<1>0. MaxIds \in Nat /\ ptNext \in Nat /\ ptNext \in 1..(MaxIds + 1)
  BY Bounded DEF UsersOK
<1>1. ASSUME UNCHANGED <<ptTopic, ptUsers, ptYaml, ptOld, ptNext>>, ptSlips \subseteq ptSlips', Booted \/ UNCHANGED ptEdits
      PROVE  UsersOK' /\ OldOK' /\ ptNext' >= ptNext
  BY <1>0, <1>1 DEF OldOK, Booted, UsersOK
<1>2. ASSUME UNCHANGED <<ptTopic, ptOld>>, Booted', ptUsers' \subseteq ptUsers, ptYaml' \subseteq Ips,
             ptNext' \in 1..(MaxIds + 1), ptNext' >= ptNext
      PROVE  UsersOK' /\ OldOK' /\ ptNext' >= ptNext
  BY <1>0, <1>2 DEF OldOK, UsersOK
<1>3. ASSUME NEW e \in Editors, ptEdits[e] # NoEdit PROVE Booted
  BY <1>3 DEF OldOK
<1>4. ASSUME NEW e \in Editors, Asking(e) PROVE UsersOK' /\ OldOK' /\ ptNext' >= ptNext
  BY <1>1, <1>4, AskedIs
<1>5. ASSUME NEW e \in Editors, Saving(e) \/ AddPeerAccess(e) \/ AskSecond(e)
      PROVE  /\ Booted /\ Booted'
             /\ UNCHANGED <<ptTopic, ptOld, ptUsers, ptYaml>>
             /\ ptNext' = ptNext \/ (ptNext <= MaxIds /\ ptNext' = ptNext + 1)
  <2>1. ptEdits[e].op # "none"
    BY <1>5 DEF Saving, CreateDNSServer, ReplaceDNSServerMembers, ReplaceDNSServerExcludes, InsertPeerRoute, ReplacePeerRouteMembers,
       AddPeerAccess, AskSecond
  <2>2. Booted
    BY <1>3, <2>1, NoEditOK
  <2>3. ptSlips \subseteq ptSlips' /\ UNCHANGED <<ptTopic, ptOld, ptUsers, ptYaml>>
    BY <1>5 DEF Saving, CreateDNSServer, ReplaceDNSServerMembers, ReplaceDNSServerExcludes, InsertPeerRoute, ReplacePeerRouteMembers,
       AddPeerAccess, AskSecond, KeepTables
  <2>4. ptNext' = ptNext \/ (ptNext <= MaxIds /\ ptNext' = ptNext + 1)
    BY <1>5 DEF Saving, CreateDNSServer, ReplaceDNSServerMembers, ReplaceDNSServerExcludes, InsertPeerRoute, ReplacePeerRouteMembers,
       AddPeerAccess, AskSecond, KeepTables
  <2>. QED BY <2>2, <2>3, <2>4 DEF Booted
<1>6. ASSUME NEW e \in Editors, Saving(e) \/ AddPeerAccess(e) \/ AskSecond(e) PROVE UsersOK' /\ OldOK' /\ ptNext' >= ptNext
  BY <1>0, <1>2, <1>5, <1>6 DEF UsersOK
<1>7. CASE Migrate
  <2>1. /\ UNCHANGED <<ptTopic, ptOld, ptUsers, ptYaml>> /\ ptNext' \in 1..(MaxIds + 1) /\ ptNext' >= 1 /\ Booted'
    BY <1>0, <1>7 DEF Migrate, Ids, Booted
  <2>2. ptNext = 1
    BY <1>7 DEF Migrate, OldOK, Booted
  <2>. QED BY <1>2, <2>1, <2>2 DEF UsersOK
<1>8. ASSUME NEW yaml \in SUBSET Ips, Boot(yaml) PROVE UsersOK' /\ OldOK' /\ ptNext' >= ptNext
  <2>1. PICK n \in 0..(MaxIds + 1 - ptNext) : \E new \in [1..n -> Added(yaml)] : SyncConfigDNSServers(yaml, new)
    BY <1>8 DEF Boot
  <2>2. PICK new \in [1..n -> Added(yaml)] : SyncConfigDNSServers(yaml, new)
    BY <2>1
  <2>3. n \in Nat /\ Len(new) = n
    <3>1. n \in Nat
      BY <1>0, <2>1
    <3>. QED BY <3>1, NewIds
  <2>4. ptNext' = ptNext + n
    BY <2>2, <2>3 DEF SyncConfigDNSServers
  <2>5. ptNext' \in 1..(MaxIds + 1) /\ ptNext' >= ptNext
    BY <1>0, <2>1, <2>3, <2>4
  <2>6. ptOld = <<>> /\ UNCHANGED <<ptTopic, ptOld, ptUsers>> /\ ptYaml' = yaml
    BY <1>8 DEF Boot, OldOK
  <2>. QED BY <1>2, <2>5, <2>6 DEF Booted
<1>9. CASE (\E i \in Ids : DeleteDNSServer(i) \/ DeletePeerRoute(i)) \/ (\E u, v \in VpnUsers : RemovePeerAccessPair(u, v))
           \/ UNCHANGED ptVars
  BY <1>1, <1>9 DEF DeleteDNSServer, DeletePeerRoute, RemovePeerAccessPair, ptVars
<1>10. CASE StopHalfWay
  <2>1. PICK e \in Editors : ptEdits[e].op # "none"
    BY <1>10 DEF StopHalfWay, Half
  <2>. QED BY <1>1, <1>3, <1>10, <2>1, NoEditOK DEF StopHalfWay
<1>11. ASSUME NEW u \in VpnUsers, DeleteUser(u) PROVE UsersOK' /\ OldOK' /\ ptNext' >= ptNext
  <2>1. Booted /\ Booted'
    BY <1>11 DEF DeleteUser, Booted
  <2>. QED BY <1>0, <1>2, <1>11, <2>1 DEF DeleteUser, UsersOK
<1>. QED BY <1>4, <1>6, <1>7, <1>8, <1>9, <1>10, <1>11, PtNextIs

(* Rows of dns_servers, set, dropped and entered. *)
ConfigRow(ip) == [NoRow EXCEPT !.ip = ip, !.source = "config", !.members = {Everyone}]

LEMMA EmptyRow ==
  NoRow \in PtRows /\ NoRow.ip = "" /\ NoRow.source = "none" /\ NoRow.members = {} /\ NoRow.excludes = {} /\ RowOK(NoRow)
BY DEF NoRow, PtRows, Members, RowOK

With(r, ms, ex) == [r EXCEPT !.members = ms, !.excludes = ex]

LEMMA WithIs ==
  ASSUME NEW r \in PtRows, NEW ms \in Members, NEW ex \in SUBSET VpnUsers
  PROVE  /\ With(r, ms, ex) \in PtRows /\ With(r, ms, ex).ip = r.ip /\ With(r, ms, ex).source = r.source
         /\ With(r, ms, ex).members = ms /\ With(r, ms, ex).excludes = ex
BY DEF PtRows, With

LEMMA SetOne ==
  ASSUME NEW r \in PtRows, NEW ms \in Members, NEW ex \in SUBSET VpnUsers
  PROVE  /\ [r EXCEPT !.members = ms] = With(r, ms, r.excludes)
         /\ [r EXCEPT !.excludes = ex] = With(r, r.members, ex)
         /\ r.members \in Members /\ r.excludes \in SUBSET VpnUsers
BY DEF PtRows, With

LEMMA ConfigRowIs ==
  ASSUME NEW ip \in Ips
  PROVE  LET n == ConfigRow(ip) IN
         n \in PtRows /\ n.ip = ip /\ n.source = "config" /\ n.members = {Everyone} /\ n.excludes = {} /\ RowOK(n)
<1>1. ip # ""
  BY PolicyTablesAssumption
<1>. QED BY <1>1 DEF ConfigRow, NoRow, PtRows, Members, RowOK

(* What a boot makes of dns_servers: new rows from the next id on, the     *)
(* rows of the file kept or dropped, the others as they were.              *)
BootRows(yaml, n, new) ==
    /\ ptNext + n <= MaxIds + 1 /\ ptNext' = ptNext + n /\ ptYaml' = yaml
    /\ \A i, j \in 1..n : i # j => new[i] # new[j]
    /\ \A ip \in Added(yaml) : \E i \in 1..n : new[i] = ip
    /\ DOMAIN ptDns' = Ids
    /\ \A i \in Ids : ptDns'[i] = IF i >= ptNext /\ i < ptNext + n THEN ConfigRow(new[i - ptNext + 1]) ELSE Synced(ptDns[i], yaml)

LEMMA BootIs ==
  ASSUME UsersOK, NEW yaml \in SUBSET Ips, Boot(yaml)
  PROVE  /\ UNCHANGED <<ptTopic, ptUsers, ptRoutes, ptOld, ptAccess, ptFk>> /\ ptTopic = "dns"
         /\ ptSlips' = ptSlips \ {"unserved"} /\ ptEdits' = [e \in Editors |-> NoEdit]
         /\ \E n \in Nat : \E new \in [1..n -> Added(yaml)] : BootRows(yaml, n, new)
<1>0. MaxIds \in Nat /\ ptNext \in Nat /\ ptNext \in 1..(MaxIds + 1)
  BY Bounded DEF UsersOK
<1>1. PICK n \in 0..(MaxIds + 1 - ptNext) : \E new \in [1..n -> Added(yaml)] :
          (\A i, j \in 1..n : i # j => new[i] # new[j]) /\ SyncConfigDNSServers(yaml, new)
  BY DEF Boot
<1>2. n \in Nat /\ ptNext + n <= MaxIds + 1
  BY <1>0, <1>1
<1>3. PICK new \in [1..n -> Added(yaml)] : (\A i, j \in 1..n : i # j => new[i] # new[j]) /\ SyncConfigDNSServers(yaml, new)
  BY <1>1
<1>4. Len(new) = n
  BY <1>2, NewIds
<1>5. BootRows(yaml, n, new)
  BY <1>2, <1>3, <1>4 DEF BootRows, SyncConfigDNSServers, ConfigRow, Boot
<1>. QED BY <1>2, <1>5 DEF Boot

LEMMA SyncedIs ==
  ASSUME NEW r \in PtRows, NEW yaml \in SUBSET Ips
  PROVE  /\ Synced(r, yaml) \in PtRows
         /\ \/ r.source # "config" /\ Synced(r, yaml) = r
            \/ r.source = "config" /\ r.ip \notin yaml /\ Synced(r, yaml) = NoRow
            \/ /\ r.source = "config" /\ r.ip \in yaml /\ Synced(r, yaml).ip = r.ip /\ Synced(r, yaml).source = "config"
               /\ Synced(r, yaml).members = {Everyone} /\ Synced(r, yaml).excludes = r.excludes
<1>1. {Everyone} \in Members
  BY DEF Members
<1>2. CASE r.source # "config"
  BY <1>2 DEF Synced
<1>3. CASE r.source = "config" /\ r.ip \notin yaml
  BY <1>3, EmptyRow DEF Synced
<1>4. CASE r.source = "config" /\ r.ip \in yaml
  <2>1. Synced(r, yaml) = [r EXCEPT !.members = {Everyone}]
    BY <1>4 DEF Synced
  <2>2. PICK ms \in Members, ex \in SUBSET VpnUsers : ms = {Everyone} /\ ex = r.excludes
    BY <1>1 DEF PtRows
  <2>3. Synced(r, yaml) = With(r, ms, ex)
    BY <2>1, <2>2, SetOne
  <2>4. /\ With(r, ms, ex) \in PtRows /\ With(r, ms, ex).ip = r.ip /\ With(r, ms, ex).source = r.source
        /\ With(r, ms, ex).members = ms /\ With(r, ms, ex).excludes = ex
    BY WithIs
  <2>. QED BY <1>4, <2>2, <2>3, <2>4
<1>. QED BY <1>2, <1>3, <1>4

LEMMA DroppedIs ==
  ASSUME NEW r \in PtRows, NEW u \in VpnUsers
  PROVE  /\ Dropped(r, u) \in PtRows
         /\ \/ r.source = "manual" /\ r.members \subseteq {u} /\ Dropped(r, u) = NoRow
            \/ /\ Dropped(r, u).ip = r.ip /\ Dropped(r, u).source = r.source
               /\ Dropped(r, u).members = r.members \ {u} /\ Dropped(r, u).excludes = r.excludes \ {u}
               /\ r.source = "manual" => r.members \ {u} # {}
<1>1. PICK ms \in Members, ex \in SUBSET VpnUsers : ms = r.members \ {u} /\ ex = r.excludes \ {u}
  BY DEF PtRows, Members
<1>2. LET l == With(r, ms, ex) IN Dropped(r, u) = IF r.source = "manual" /\ l.members = {} THEN NoRow ELSE l
  BY <1>1 DEF Dropped, With
<1>3. /\ With(r, ms, ex) \in PtRows /\ With(r, ms, ex).ip = r.ip /\ With(r, ms, ex).source = r.source
      /\ With(r, ms, ex).members = ms /\ With(r, ms, ex).excludes = ex
  BY WithIs
<1>4. CASE r.source = "manual" /\ ms = {}
  BY <1>1, <1>2, <1>3, <1>4, EmptyRow
<1>5. CASE ~(r.source = "manual" /\ ms = {})
  BY <1>1, <1>2, <1>3, <1>5
<1>. QED BY <1>4, <1>5

LEMMA EmptySynced == ASSUME NEW yaml PROVE Synced(NoRow, yaml) = NoRow
BY EmptyRow DEF Synced

LEMMA EmptyDropped == ASSUME NEW u \in VpnUsers PROVE Dropped(NoRow, u) = NoRow
BY DEF Dropped, NoRow

LEMMA DnsStep == UsersOK /\ EditsOK /\ OldOK /\ DnsOK /\ [PtNext]_ptVars => DnsOK'
<1>. SUFFICES ASSUME UsersOK, EditsOK, OldOK, DnsOK, [PtNext]_ptVars PROVE DnsOK'
  OBVIOUS
<1>0. /\ MaxIds \in Nat /\ ptNext \in Nat /\ ptNext' \in Nat /\ ptNext' >= ptNext
      /\ \A i \in Ids : i \in Nat
  BY Bounded, UsersStep DEF UsersOK, Ids
<1>01. /\ ptDns \in [Ids -> PtRows]
       /\ \A i \in Ids : RowOK(ptDns[i])
       /\ \A i \in Ids : i >= ptNext => ptDns[i] = NoRow
  BY DEF DnsOK
<1>02. \A i \in Ids : i >= ptNext' => ptDns[i] = NoRow
  BY <1>0, <1>01
<1>1. CASE UNCHANGED ptDns
  BY <1>1, <1>01, <1>02 DEF DnsOK
<1>2. ASSUME NEW i, NEW r \in PtRows, ptDns' = [ptDns EXCEPT ![i] = r], i < ptNext' \/ r = NoRow, RowOK(r)
      PROVE  DnsOK'
  <2>1. ptDns' \in [Ids -> PtRows] /\ \A j \in Ids : RowOK(ptDns'[j])
    BY <1>01, <1>2
  <2>2. ASSUME NEW j \in Ids, j >= ptNext' PROVE ptDns'[j] = NoRow
    <3>1. CASE j # i
      BY <1>01, <1>02, <1>2, <2>2, <3>1
    <3>2. CASE j = i
      BY <1>0, <1>01, <1>2, <2>2, <3>2
    <3>. QED BY <3>1, <3>2
  <2>. QED BY <2>1, <2>2 DEF DnsOK
<1>3. ASSUME NEW e \in Editors, CreateDNSServer(e) PROVE DnsOK'
  <2>. DEFINE d == ptEdits[e]
              r == [ip |-> d.key, source |-> "manual", members |-> d.members, excludes |-> d.excludes]
  <2>1. d \in PtEdits /\ d.key \in Ips
    BY <1>3 DEF CreateDNSServer, EditsOK, EditOK
  <2>2. r \in PtRows /\ RowOK(r)
    <3>1. "" \notin Ips
      BY PolicyTablesAssumption
    <3>. QED BY <2>1, <3>1 DEF PtEdits, PtRows, RowOK
  <2>3. UNCHANGED ptDns \/ (ptDns' = [ptDns EXCEPT ![ptNext] = r] /\ ptNext' = ptNext + 1)
    BY <1>3 DEF CreateDNSServer
  <2>4. ptNext < ptNext + 1
    BY <1>0
  <2>. HIDE DEF r
  <2>. QED BY <1>1, <1>2, <2>2, <2>3, <2>4
<1>4. ASSUME NEW e \in Editors, ReplaceDNSServerMembers(e) \/ ReplaceDNSServerExcludes(e) PROVE DnsOK'
  <2>. DEFINE d == ptEdits[e]  row == ptDns[d.id]
  <2>1. d.id \in Ids /\ row \in PtRows /\ d.members \in Members /\ d.excludes \in SUBSET VpnUsers
        /\ row.excludes \in SUBSET VpnUsers /\ {} \in SUBSET VpnUsers
    BY <1>4 DEF ReplaceDNSServerMembers, ReplaceDNSServerExcludes, EditsOK, EditOK, DnsOK, PtEdits, PtRows
  <2>2. CASE row = NoRow
    <3>1. ptDns' = [ptDns EXCEPT ![d.id] = NoRow]
      BY <1>4, <2>2 DEF ReplaceDNSServerMembers, ReplaceDNSServerExcludes
    <3>. QED BY <1>2, <3>1, EmptyRow
  <2>3. CASE row # NoRow
    <3>1. d.id < ptNext' /\ RowOK(row)
      BY <1>0, <1>01, <1>02, <2>1, <2>3
    <3>2. PICK r \in PtRows : ptDns' = [ptDns EXCEPT ![d.id] = r] /\ r.source = row.source /\ r.ip = row.ip
      <4>0. PICK i \in Ids, q \in PtRows, ms \in Members, xs \in SUBSET VpnUsers :
               i = d.id /\ q = row /\ ms = d.members /\ xs = d.excludes
        BY <2>1
      <4>1. CASE ReplaceDNSServerMembers(e)
        <5>1. PICK ex \in SUBSET VpnUsers : ex = IF ms = {Everyone} THEN q.excludes ELSE {}
          BY <2>1, <4>0
        <5>0. ptDns' = [ptDns EXCEPT ![d.id] = IF row = NoRow THEN row
                ELSE [row EXCEPT !.members = d.members, !.excludes = IF d.members = {Everyone} THEN row.excludes ELSE {}]]
          BY <4>1 DEF ReplaceDNSServerMembers
        <5>2. ptDns' = [ptDns EXCEPT ![i] = With(q, ms, ex)]
          <6>. HIDE DEF d, row
          <6>1. ptDns' = [ptDns EXCEPT ![i] = [q EXCEPT !.members = ms, !.excludes = IF ms = {Everyone} THEN q.excludes ELSE {}]]
            BY <2>3, <4>0, <5>0, Zenon
          <6>. QED BY <5>1, <6>1 DEF With
        <5>3. With(q, ms, ex) \in PtRows /\ With(q, ms, ex).ip = q.ip /\ With(q, ms, ex).source = q.source
          BY WithIs
        <5>. QED BY <4>0, <5>2, <5>3
      <4>2. CASE ReplaceDNSServerExcludes(e)
        <5>1. ptDns' = [ptDns EXCEPT ![i] = [q EXCEPT !.excludes = xs]]
          BY <2>3, <4>0, <4>2 DEF ReplaceDNSServerExcludes
        <5>2. [q EXCEPT !.excludes = xs] = With(q, q.members, xs) /\ q.members \in Members
          BY SetOne
        <5>3. With(q, q.members, xs) \in PtRows /\ With(q, q.members, xs).ip = q.ip /\ With(q, q.members, xs).source = q.source
          BY <5>2, WithIs
        <5>. QED BY <4>0, <5>1, <5>2, <5>3
      <4>. QED BY <1>4, <4>1, <4>2
    <3>3. row.source # "none" /\ row.ip # ""
      BY <2>3, <3>1 DEF RowOK
    <3>4. RowOK(r)
      BY <3>2, <3>3 DEF RowOK
    <3>. QED BY <1>2, <3>1, <3>2, <3>4
  <2>. QED BY <2>2, <2>3
<1>5. ASSUME NEW i \in Ids, DeleteDNSServer(i) PROVE DnsOK'
  BY <1>2, <1>5, EmptyRow DEF DeleteDNSServer
<1>6. ASSUME NEW yaml \in SUBSET Ips, Boot(yaml) PROVE DnsOK'
  <2>0. PICK n \in Nat : \E new \in [1..n -> Added(yaml)] : BootRows(yaml, n, new)
    BY <1>6, BootIs
  <2>1. PICK new \in [1..n -> Added(yaml)] : BootRows(yaml, n, new)
    BY <2>0
  <2>2. ptNext' = ptNext + n
    BY <2>1 DEF BootRows
  <2>3. ASSUME NEW i \in Ids
        PROVE  ptDns'[i] \in PtRows /\ RowOK(ptDns'[i]) /\ (i >= ptNext' => ptDns'[i] = NoRow)
    <3>1. CASE i >= ptNext /\ i < ptNext + n
      <4>1. i - ptNext + 1 \in 1..n /\ ~(i >= ptNext')
        BY <1>0, <2>2, <3>1
      <4>2. new[i - ptNext + 1] \in Ips
        BY <4>1 DEF Added
      <4>3. ptDns'[i] = ConfigRow(new[i - ptNext + 1])
        BY <2>1, <3>1 DEF BootRows
      <4>. QED BY <4>1, <4>2, <4>3, ConfigRowIs
    <3>2. CASE ~(i >= ptNext /\ i < ptNext + n)
      <4>1. ptDns'[i] = Synced(ptDns[i], yaml) /\ ptDns[i] \in PtRows /\ RowOK(ptDns[i])
        BY <1>01, <2>1, <3>2 DEF BootRows
      <4>2. i >= ptNext' => ptDns'[i] = NoRow
        BY <1>02, <4>1, EmptySynced
      <4>3. /\ Synced(ptDns[i], yaml) \in PtRows
            /\ \/ Synced(ptDns[i], yaml) \in {ptDns[i], NoRow}
               \/ /\ ptDns[i].source = "config" /\ Synced(ptDns[i], yaml).ip = ptDns[i].ip
                  /\ Synced(ptDns[i], yaml).source = "config"
        BY <4>1, SyncedIs
      <4>4. RowOK(Synced(ptDns[i], yaml))
        BY <4>1, <4>3, EmptyRow DEF RowOK
      <4>. QED BY <4>1, <4>2, <4>3, <4>4
    <3>. QED BY <3>1, <3>2
  <2>4. ptDns' \in [Ids -> PtRows]
    <3>1. ptDns' = [i \in Ids |-> ptDns'[i]]
      BY <1>6 DEF Boot, SyncConfigDNSServers
    <3>. QED BY <2>3, <3>1
  <2>. QED BY <2>3, <2>4 DEF DnsOK
<1>7. ASSUME NEW u \in VpnUsers, DeleteUser(u) PROVE DnsOK'
  <2>1. ptDns' = [i \in Ids |-> Dropped(ptDns[i], u)]
    BY <1>7 DEF DeleteUser
  <2>2. ASSUME NEW i \in Ids PROVE Dropped(ptDns[i], u) \in PtRows /\ RowOK(Dropped(ptDns[i], u))
    <3>1. CASE ptDns[i] = NoRow
      BY <3>1, EmptyDropped, EmptyRow
    <3>2. CASE ptDns[i] # NoRow
      <4>1. ptDns[i].source # "none" /\ ptDns[i].ip # "" /\ ptDns[i] \in PtRows
        BY <1>01, <3>2 DEF RowOK
      <4>2. /\ Dropped(ptDns[i], u) \in PtRows
            /\ \/ Dropped(ptDns[i], u) = NoRow
               \/ Dropped(ptDns[i], u).ip = ptDns[i].ip /\ Dropped(ptDns[i], u).source = ptDns[i].source
        BY <4>1, DroppedIs
      <4>. QED BY <4>1, <4>2, EmptyRow DEF RowOK
    <3>. QED BY <3>1, <3>2
  <2>3. ASSUME NEW i \in Ids, i >= ptNext' PROVE Dropped(ptDns[i], u) = NoRow
    BY <1>02, <2>3, EmptyDropped
  <2>. QED BY <2>1, <2>2, <2>3 DEF DnsOK
<1>8. CASE Migrate \/ StopHalfWay \/ (\E i \in Ids : DeletePeerRoute(i)) \/ (\E u, v \in VpnUsers : RemovePeerAccessPair(u, v))
           \/ UNCHANGED ptVars
  BY <1>1, <1>8 DEF Migrate, StopHalfWay, DeletePeerRoute, RemovePeerAccessPair, ptVars
<1>9. ASSUME NEW e \in Editors, Asking(e) \/ InsertPeerRoute(e) \/ ReplacePeerRouteMembers(e) \/ AddPeerAccess(e) \/ AskSecond(e)
      PROVE  DnsOK'
  BY <1>1, <1>9, AskedIs DEF InsertPeerRoute, ReplacePeerRouteMembers, AddPeerAccess, AskSecond, KeepTables
<1>. QED BY <1>3, <1>4, <1>5, <1>6, <1>7, <1>8, <1>9, PtNextIs DEF Saving

(* A row of peer_routes that comes from rows of the old database.          *)
LEMMA EmptyRoute == NoRoute \in PtRoutes /\ NoRoute.via = "" /\ NoRoute.dest = "" /\ NoRoute.members = {}
BY DEF NoRoute, PtRoutes, Dests, Members

LEMMA OldRows ==
  ASSUME OldOK, NEW i \in DOMAIN ptOld
  PROVE  /\ i \in Nat /\ i >= 1 /\ ptOld[i].dest \in Spellings /\ ptOld[i].via \in VpnUsers
         /\ ptOld[i].user \in VpnUsers \cup {Everyone}
BY DEF OldOK

LEMMA MigratedIs ==
  ASSUME OldOK, NEW i \in DOMAIN ptOld
  PROVE  /\ MigratedFrom(i) \in PtRoutes /\ MigratedFrom(i).via \in VpnUsers
         /\ MigratedFrom(i).dest = Trim[ptOld[i].dest] /\ MigratedFrom(i).via = ptOld[i].via
         /\ MigratedFrom(i).members =
               {ptOld[j].user : j \in {k \in DOMAIN ptOld : Trim[ptOld[k].dest] = Trim[ptOld[i].dest] /\ ptOld[k].via = ptOld[i].via}}
<1>1. ptOld[i].dest \in Spellings /\ ptOld[i].via \in VpnUsers
  BY OldRows
<1>2. PICK d \in Dests, v \in VpnUsers, ms \in Members :
        /\ d = Trim[ptOld[i].dest] /\ v = ptOld[i].via
        /\ ms = {ptOld[j].user : j \in {k \in DOMAIN ptOld : Trim[ptOld[k].dest] = Trim[ptOld[i].dest] /\ ptOld[k].via = ptOld[i].via}}
  <2>1. \A j \in DOMAIN ptOld : ptOld[j].user \in VpnUsers \cup {Everyone}
    BY OldRows
  <2>. QED BY <1>1, <2>1 DEF Dests, Members
<1>3. MigratedFrom(i) = [dest |-> d, via |-> v, members |-> ms]
  BY <1>2 DEF MigratedFrom, MembersOf
<1>4. [dest |-> d, via |-> v, members |-> ms] \in PtRoutes
  BY DEF PtRoutes
<1>. QED BY <1>2, <1>3, <1>4

LEMMA TableRoutesStep == UsersOK /\ EditsOK /\ OldOK /\ RoutesOK /\ [PtNext]_ptVars => RoutesOK'
<1>. SUFFICES ASSUME UsersOK, EditsOK, OldOK, RoutesOK, [PtNext]_ptVars PROVE RoutesOK'
  OBVIOUS
<1>1. CASE UNCHANGED ptRoutes
  BY <1>1 DEF RoutesOK
<1>2. ASSUME NEW i, NEW r \in PtRoutes, ptRoutes' = [ptRoutes EXCEPT ![i] = r] PROVE RoutesOK'
  BY <1>2 DEF RoutesOK
<1>3. CASE Migrate
  <2>1. PICK n \in Ids : \E order \in [1..n -> Firsts] : ptRoutes' = [i \in Ids |-> IF i <= n THEN MigratedFrom(order[i]) ELSE NoRoute]
    BY <1>3 DEF Migrate
  <2>2. PICK order \in [1..n -> Firsts] : ptRoutes' = [i \in Ids |-> IF i <= n THEN MigratedFrom(order[i]) ELSE NoRoute]
    BY <2>1
  <2>3. ASSUME NEW i \in Ids, i <= n PROVE MigratedFrom(order[i]) \in PtRoutes
    <3>1. i \in 1..n
      BY <2>3, Bounded DEF Ids
    <3>2. order[i] \in DOMAIN ptOld
      BY <3>1 DEF Firsts
    <3>. QED BY <3>2, MigratedIs
  <2>. QED BY <2>2, <2>3, EmptyRoute DEF RoutesOK
<1>4. ASSUME NEW e \in Editors, InsertPeerRoute(e) PROVE RoutesOK'
  <2>. DEFINE d == ptEdits[e]
              r == [dest |-> d.key, via |-> d.via, members |-> d.members]
  <2>1. d \in PtEdits /\ d.via \in VpnUsers /\ d.key \in Dests
    BY <1>4 DEF InsertPeerRoute, EditsOK, EditOK
  <2>2. r \in PtRoutes
    BY <2>1 DEF PtEdits, PtRoutes
  <2>3. UNCHANGED ptRoutes \/ ptRoutes' = [ptRoutes EXCEPT ![ptNext] = r]
    BY <1>4 DEF InsertPeerRoute
  <2>. QED BY <1>1, <1>2, <2>2, <2>3
<1>5. ASSUME NEW e \in Editors, ReplacePeerRouteMembers(e) PROVE RoutesOK'
  <2>. DEFINE d == ptEdits[e]
  <2>1. d.members \in Members /\ d.id \in Ids /\ ptRoutes[d.id] \in PtRoutes
    BY <1>5 DEF EditsOK, PtEdits, EditOK, ReplacePeerRouteMembers, RoutesOK
  <2>2. [ptRoutes[d.id] EXCEPT !.members = d.members] \in PtRoutes
    BY <2>1 DEF PtRoutes
  <2>3. \/ ptRoutes' = [ptRoutes EXCEPT ![d.id] = [ptRoutes[d.id] EXCEPT !.members = d.members]]
        \/ ptRoutes' = [ptRoutes EXCEPT ![d.id] = ptRoutes[d.id]]
    BY <1>5 DEF ReplacePeerRouteMembers
  <2>. QED BY <1>2, <2>1, <2>2, <2>3
<1>6. ASSUME NEW i \in Ids, DeletePeerRoute(i) PROVE RoutesOK'
  BY <1>2, <1>6, EmptyRoute DEF DeletePeerRoute
<1>7. ASSUME NEW u \in VpnUsers, DeleteUser(u) PROVE RoutesOK'
  <2>1. ptRoutes' = [i \in Ids |-> IF ptRoutes[i].via = u THEN NoRoute ELSE [ptRoutes[i] EXCEPT !.members = @ \ {u}]]
    BY <1>7 DEF DeleteUser
  <2>2. ASSUME NEW i \in Ids PROVE [ptRoutes[i] EXCEPT !.members = @ \ {u}] \in PtRoutes
    BY DEF RoutesOK, PtRoutes, Members
  <2>. QED BY <2>1, <2>2, EmptyRoute DEF RoutesOK
<1>8. CASE StopHalfWay \/ (\E i \in Ids : DeleteDNSServer(i)) \/ (\E u, v \in VpnUsers : RemovePeerAccessPair(u, v))
           \/ (\E yaml \in SUBSET Ips : Boot(yaml)) \/ UNCHANGED ptVars
  BY <1>1, <1>8 DEF StopHalfWay, DeleteDNSServer, RemovePeerAccessPair, Boot, ptVars
<1>9. ASSUME NEW e \in Editors, Asking(e) \/ CreateDNSServer(e) \/ ReplaceDNSServerMembers(e) \/ ReplaceDNSServerExcludes(e)
                                \/ AddPeerAccess(e) \/ AskSecond(e)
      PROVE  RoutesOK'
  BY <1>1, <1>9, AskedIs DEF CreateDNSServer, ReplaceDNSServerMembers, ReplaceDNSServerExcludes, AddPeerAccess, AskSecond, KeepTables
<1>. QED BY <1>3, <1>4, <1>5, <1>6, <1>7, <1>8, <1>9, PtNextIs DEF Saving

(* The invariant of the tables, in parts. *)
TableTypes == UsersOK /\ EditsOK /\ OldOK /\ DnsOK /\ RoutesOK

LEMMA TypesStep == TableTypes /\ [PtNext]_ptVars => TableTypes'
BY EditsStep, UsersStep, DnsStep, TableRoutesStep DEF TableTypes

Known == ptUsers \cup {Everyone} \cup ptSlips

(* Ids are not used twice: the row of an edit of members is manual still.  *)
EditsFit ==
    /\ \A e \in Editors : ptEdits[e].op = "members" =>
          ptEdits[e].id < ptNext /\ ptDns[ptEdits[e].id].source \in {"manual", "none"}
    /\ \A e \in Editors : ptEdits[e].op \in {"first", "second", "checked"} => ptTopic = "access"

Named ==
    /\ \A i \in Ids : ptDns[i].members \cup ptDns[i].excludes \subseteq Known
    /\ \A i \in Ids : ptRoutes[i].members \subseteq Known /\ (ptRoutes[i].via # "" => ptRoutes[i].via \in Known)
    /\ \A e \in Editors : /\ ptEdits[e].members \cup ptEdits[e].excludes \subseteq Known
                          /\ ptEdits[e].op = "newRoute" => ptEdits[e].via \in Known

(* A step that is not a deletion keeps the accounts that are known.        *)
LEMMA KnownKept ==
  ASSUME TableTypes, [PtNext]_ptVars, \A u \in VpnUsers : ~DeleteUser(u)
  PROVE  \A x \in VpnUsers \cup {Everyone} : x \in Known => x \in Known'
<1>1. CASE ptUsers' = ptUsers /\ ptSlips \subseteq ptSlips'
  BY <1>1 DEF Known
<1>2. CASE \E yaml \in SUBSET Ips : Boot(yaml)
  <2>1. ptUsers' = ptUsers /\ ptSlips' = ptSlips \ {"unserved"}
    BY <1>2, BootIs DEF TableTypes
  <2>2. "unserved" \notin VpnUsers
    BY PolicyTablesAssumption
  <2>. QED BY <2>1, <2>2 DEF Known
<1>3. CASE \E e \in Editors : Asking(e)
  BY <1>1, <1>3, AskedIs DEF TableTypes
<1>4. CASE \E e \in Editors : Saving(e)
  BY <1>1, <1>4 DEF Saving, CreateDNSServer, ReplaceDNSServerMembers, ReplaceDNSServerExcludes, InsertPeerRoute, ReplacePeerRouteMembers
<1>5. CASE (\E e \in Editors : AddPeerAccess(e) \/ AskSecond(e)) \/ Migrate \/ StopHalfWay \/ UNCHANGED ptVars
           \/ (\E u, v \in VpnUsers : RemovePeerAccessPair(u, v))
  BY <1>1, <1>5 DEF AddPeerAccess, AskSecond, KeepTables, Migrate, StopHalfWay, RemovePeerAccessPair, ptVars
<1>6. CASE \E i \in Ids : DeleteDNSServer(i) \/ DeletePeerRoute(i)
  BY <1>1, <1>6 DEF DeleteDNSServer, DeletePeerRoute
<1>. QED BY <1>2, <1>3, <1>4, <1>5, <1>6, PtNextIs

(* What a step makes of a row of dns_servers: it stays, goes, is entered   *)
(* in an empty place, or is written anew for its address.                  *)
Sweeping == (\E yaml \in SUBSET Ips : Boot(yaml)) \/ (\E i \in Ids : DeleteDNSServer(i)) \/ \E u \in VpnUsers : DeleteUser(u)

LEMMA RowStep ==
  ASSUME TableTypes, [PtNext]_ptVars, NEW i \in Ids
  PROVE  \/ ptDns'[i] = ptDns[i]
         \/ ptDns'[i] = NoRow /\ Sweeping
         \/ /\ ptDns[i] = NoRow /\ i >= ptNext
            /\ \/ \E yaml \in SUBSET Ips : Boot(yaml) /\ \E ip \in yaml : ptDns'[i] = ConfigRow(ip)
               \/ \E e \in Editors : /\ CreateDNSServer(e) /\ ptDns'[i].ip = ptEdits[e].key /\ ptDns'[i].source = "manual"
                                     /\ ptDns'[i].members = ptEdits[e].members /\ ptDns'[i].excludes = ptEdits[e].excludes
         \/ /\ ptDns[i] # NoRow /\ ptDns'[i].ip = ptDns[i].ip /\ ptDns'[i].source = ptDns[i].source
            /\ \/ \E e \in Editors :
                     /\ ReplaceDNSServerMembers(e) /\ i = ptEdits[e].id /\ ptDns'[i].members = ptEdits[e].members
                     /\ ptDns'[i].excludes = IF ptEdits[e].members = {Everyone} THEN ptDns[i].excludes ELSE {}
               \/ \E e \in Editors :
                     /\ ReplaceDNSServerExcludes(e) /\ i = ptEdits[e].id /\ ptDns'[i].members = ptDns[i].members
                     /\ ptDns'[i].excludes = ptEdits[e].excludes
               \/ \E yaml \in SUBSET Ips : /\ Boot(yaml) /\ ptDns[i].source = "config" /\ ptDns[i].ip \in yaml
                                           /\ ptDns'[i].members = {Everyone} /\ ptDns'[i].excludes = ptDns[i].excludes
               \/ \E u \in VpnUsers :
                     /\ DeleteUser(u) /\ ptDns'[i].members = ptDns[i].members \ {u} /\ ptDns'[i].excludes = ptDns[i].excludes \ {u}
                     /\ ptDns[i].source = "manual" => ptDns'[i].members # {}
<1>. USE DEF TableTypes
<1>0. /\ MaxIds \in Nat /\ ptNext \in Nat /\ i \in Nat
      /\ ptDns \in [Ids -> PtRows] /\ ptDns[i] \in PtRows /\ RowOK(ptDns[i])
      /\ i >= ptNext => ptDns[i] = NoRow
  BY Bounded DEF UsersOK, Ids, DnsOK
<1>1. CASE UNCHANGED ptDns
  BY <1>1
<1>2. ASSUME NEW e \in Editors, CreateDNSServer(e), ptDns'[i] # ptDns[i]
      PROVE  /\ ptDns[i] = NoRow /\ i >= ptNext /\ ptDns'[i].ip = ptEdits[e].key /\ ptDns'[i].source = "manual"
             /\ ptDns'[i].members = ptEdits[e].members /\ ptDns'[i].excludes = ptEdits[e].excludes
  <2>1. ptDns' = [ptDns EXCEPT ![ptNext] =
             [ip |-> ptEdits[e].key, source |-> "manual", members |-> ptEdits[e].members, excludes |-> ptEdits[e].excludes]]
    BY <1>2 DEF CreateDNSServer
  <2>2. i = ptNext
    BY <1>0, <1>2, <2>1
  <2>3. ptDns'[i] = [ip |-> ptEdits[e].key, source |-> "manual", members |-> ptEdits[e].members, excludes |-> ptEdits[e].excludes]
    BY <1>0, <2>1, <2>2
  <2>. QED BY <1>0, <2>2, <2>3
<1>3. ASSUME NEW e \in Editors, ReplaceDNSServerMembers(e), ptDns'[i] # ptDns[i]
      PROVE  /\ ptDns[i] # NoRow /\ ptDns'[i].ip = ptDns[i].ip /\ ptDns'[i].source = ptDns[i].source
             /\ i = ptEdits[e].id /\ ptDns'[i].members = ptEdits[e].members
             /\ ptDns'[i].excludes = IF ptEdits[e].members = {Everyone} THEN ptDns[i].excludes ELSE {}
  <2>1. i = ptEdits[e].id /\ ptDns[i] # NoRow
    BY <1>0, <1>3 DEF ReplaceDNSServerMembers
  <2>2. PICK q \in PtRows, ms \in Members, ex \in SUBSET VpnUsers :
           q = ptDns[i] /\ ms = ptEdits[e].members /\ ex = IF ms = {Everyone} THEN q.excludes ELSE {}
    BY <1>0 DEF EditsOK, PtEdits, PtRows
  <2>3. ptDns'[i] = [ptDns[i] EXCEPT !.members = ptEdits[e].members,
                       !.excludes = IF ptEdits[e].members = {Everyone} THEN ptDns[i].excludes ELSE {}]
    BY <1>0, <1>3, <2>1 DEF ReplaceDNSServerMembers
  <2>4. ptDns'[i] = With(q, ms, ex)
    BY <2>2, <2>3 DEF With
  <2>. QED BY <2>1, <2>2, <2>4, WithIs
<1>4. ASSUME NEW e \in Editors, ReplaceDNSServerExcludes(e), ptDns'[i] # ptDns[i]
      PROVE  /\ ptDns[i] # NoRow /\ ptDns'[i].ip = ptDns[i].ip /\ ptDns'[i].source = ptDns[i].source
             /\ i = ptEdits[e].id /\ ptDns'[i].members = ptDns[i].members /\ ptDns'[i].excludes = ptEdits[e].excludes
  <2>1. i = ptEdits[e].id /\ ptDns[i] # NoRow
    BY <1>0, <1>4 DEF ReplaceDNSServerExcludes
  <2>2. PICK q \in PtRows, ms \in Members, ex \in SUBSET VpnUsers : q = ptDns[i] /\ ms = q.members /\ ex = ptEdits[e].excludes
    BY <1>0 DEF EditsOK, PtEdits, PtRows
  <2>3. ptDns'[i] = [ptDns[i] EXCEPT !.excludes = ptEdits[e].excludes]
    BY <1>0, <1>4, <2>1 DEF ReplaceDNSServerExcludes
  <2>4. ptDns'[i] = With(q, ms, ex)
    BY <2>2, <2>3, SetOne
  <2>. QED BY <2>1, <2>2, <2>4, WithIs
<1>5. ASSUME NEW yaml \in SUBSET Ips, Boot(yaml)
      PROVE  \/ ptDns'[i] = ptDns[i]
             \/ ptDns'[i] = NoRow
             \/ ptDns[i] = NoRow /\ i >= ptNext /\ \E ip \in yaml : ptDns'[i] = ConfigRow(ip)
             \/ /\ ptDns[i] # NoRow /\ ptDns'[i].ip = ptDns[i].ip /\ ptDns'[i].source = ptDns[i].source
                /\ ptDns[i].source = "config" /\ ptDns[i].ip \in yaml
                /\ ptDns'[i].members = {Everyone} /\ ptDns'[i].excludes = ptDns[i].excludes
  <2>0. PICK n \in Nat : \E new \in [1..n -> Added(yaml)] : BootRows(yaml, n, new)
    BY <1>5, BootIs
  <2>1. PICK new \in [1..n -> Added(yaml)] : BootRows(yaml, n, new)
    BY <2>0
  <2>2. CASE i >= ptNext /\ i < ptNext + n
    <3>1. i - ptNext + 1 \in 1..n
      BY <1>0, <2>2
    <3>2. new[i - ptNext + 1] \in yaml
      BY <3>1 DEF Added
    <3>3. ptDns'[i] = ConfigRow(new[i - ptNext + 1])
      BY <2>1, <2>2 DEF BootRows
    <3>. QED BY <1>0, <2>2, <3>2, <3>3
  <2>3. CASE ~(i >= ptNext /\ i < ptNext + n)
    <3>1. ptDns'[i] = Synced(ptDns[i], yaml)
      BY <2>1, <2>3 DEF BootRows
    <3>2. PICK r \in PtRows : r = ptDns[i]
      BY <1>0
    <3>3. \/ Synced(r, yaml) \in {r, NoRow}
          \/ /\ r.source = "config" /\ r.ip \in yaml /\ Synced(r, yaml).ip = r.ip /\ Synced(r, yaml).source = "config"
             /\ Synced(r, yaml).members = {Everyone} /\ Synced(r, yaml).excludes = r.excludes
      BY SyncedIs, Zenon
    <3>4. r.source = "config" => r # NoRow
      BY EmptyRow
    <3>. QED BY <3>1, <3>2, <3>3, <3>4
  <2>. QED BY <2>2, <2>3
<1>6. ASSUME NEW u \in VpnUsers, DeleteUser(u)
      PROVE  \/ ptDns'[i] = NoRow
             \/ /\ ptDns[i] # NoRow /\ ptDns'[i].ip = ptDns[i].ip /\ ptDns'[i].source = ptDns[i].source
                /\ ptDns'[i].members = ptDns[i].members \ {u} /\ ptDns'[i].excludes = ptDns[i].excludes \ {u}
                /\ ptDns[i].source = "manual" => ptDns'[i].members # {}
  <2>1. ptDns'[i] = Dropped(ptDns[i], u)
    BY <1>6 DEF DeleteUser
  <2>2. ptDns[i] = NoRow => ptDns'[i] = NoRow
    BY <2>1, EmptyDropped
  <2>. QED BY <1>0, <2>1, <2>2, DroppedIs
<1>7. CASE Migrate \/ StopHalfWay \/ (\E j \in Ids : DeletePeerRoute(j)) \/ (\E u, v \in VpnUsers : RemovePeerAccessPair(u, v))
           \/ UNCHANGED ptVars
  BY <1>1, <1>7 DEF Migrate, StopHalfWay, DeletePeerRoute, RemovePeerAccessPair, ptVars
<1>8. CASE \E e \in Editors : Asking(e) \/ InsertPeerRoute(e) \/ ReplacePeerRouteMembers(e) \/ AddPeerAccess(e) \/ AskSecond(e)
  BY <1>1, <1>8, AskedIs DEF InsertPeerRoute, ReplacePeerRouteMembers, AddPeerAccess, AskSecond, KeepTables
<1>9. CASE \E j \in Ids : DeleteDNSServer(j)
  <2>1. ptDns'[i] = ptDns[i] \/ ptDns'[i] = NoRow
    BY <1>0, <1>9 DEF DeleteDNSServer
  <2>. QED BY <1>9, <2>1 DEF Sweeping
<1>10. CASE \E e \in Editors : CreateDNSServer(e)
  BY <1>2, <1>10
<1>11. CASE \E e \in Editors : ReplaceDNSServerMembers(e)
  BY <1>3, <1>11
<1>12. CASE \E e \in Editors : ReplaceDNSServerExcludes(e)
  BY <1>4, <1>12
<1>13. CASE \E yaml \in SUBSET Ips : Boot(yaml)
  BY <1>5, <1>13 DEF Sweeping
<1>14. CASE \E u \in VpnUsers : DeleteUser(u)
  BY <1>6, <1>14 DEF Sweeping
<1>. QED BY <1>7, <1>8, <1>9, <1>10, <1>11, <1>12, <1>13, <1>14, PtNextIs DEF Saving

(* What a step makes of an edit under way. *)
LEMMA EditStep ==
  ASSUME TableTypes, [PtNext]_ptVars, NEW e \in Editors
  PROVE  \/ ptEdits'[e] = ptEdits[e]
         \/ ptEdits'[e] = NoEdit
         \/ /\ Asking(e) /\ EditOK(ptEdits'[e]) /\ ptEdits[e] = NoEdit
            /\ ptEdits'[e].members \cup ptEdits'[e].excludes \subseteq ptUsers \cup {Everyone}
            /\ ptEdits'[e].op = "newRoute" => ptEdits'[e].via \in ptUsers
            /\ ptEdits'[e].op = "members" => ptDns[ptEdits'[e].id].source = "manual"
            /\ ptEdits'[e].op \in {"first", "second", "checked"} => ptEdits'[e].op = "first" /\ ptTopic = "access"
         \/ /\ AddPeerAccess(e) /\ ptEdits[e].op = "first" /\ Valid({ptEdits[e].key, ptEdits[e].via})
            /\ ptEdits'[e].op = "second" /\ ptEdits'[e].key = ptEdits[e].via /\ ptEdits'[e].via = ptEdits[e].key
            /\ ptEdits'[e].members = ptEdits[e].members /\ ptEdits'[e].excludes = ptEdits[e].excludes
         \/ /\ AskSecond(e) /\ ptEdits[e].op = "second" /\ ptEdits'[e].op = "checked"
            /\ ptEdits'[e].key = ptEdits[e].key /\ ptEdits'[e].via = ptEdits[e].via
            /\ ptEdits'[e].members = ptEdits[e].members /\ ptEdits'[e].excludes = ptEdits[e].excludes
<1>. USE DEF TableTypes
<1>0. ptEdits \in [Editors -> PtEdits] /\ ptEdits[e] \in PtEdits
  BY DEF EditsOK
<1>1. CASE UNCHANGED ptEdits
  BY <1>1
<1>2. ASSUME NEW f \in Editors, Asking(f), f # e PROVE ptEdits'[e] = ptEdits[e]
  <2>1. PICK d \in PtEdits : ptEdits' = [ptEdits EXCEPT ![f] = d]
    BY <1>2, AskedIs
  <2>. QED BY <1>0, <1>2, <2>1
<1>3. CASE Asking(e)
  <2>1. ptEdits[e] = NoEdit
    BY <1>3, AskedIs
  <2>2. PICK d \in PtEdits :
               /\ EditOK(d) /\ ptEdits' = [ptEdits EXCEPT ![e] = d]
               /\ d.members \cup d.excludes \subseteq ptUsers \cup {Everyone}
               /\ d.op = "newRoute" => d.via \in ptUsers
               /\ d.op = "members" => ptDns[d.id].source = "manual"
               /\ d.op \in {"first", "second", "checked"} => d.op = "first" /\ ptTopic = "access"
    BY <1>3, AskedIs
  <2>3. ptEdits'[e] = d
    BY <1>0, <2>2
  <2>. QED BY <1>3, <2>1, <2>2, <2>3
<1>4. ASSUME NEW f \in Editors, Saving(f) PROVE ptEdits'[e] \in {ptEdits[e], NoEdit}
  <2>1. Over(f)
    BY <1>4 DEF Saving, CreateDNSServer, ReplaceDNSServerMembers, ReplaceDNSServerExcludes, InsertPeerRoute, ReplacePeerRouteMembers
  <2>. QED BY <1>0, <2>1 DEF Over
<1>5. ASSUME NEW f \in Editors, AddPeerAccess(f) \/ AskSecond(f), f # e PROVE ptEdits'[e] = ptEdits[e]
  BY <1>0, <1>5 DEF AddPeerAccess, AskSecond
<1>6. CASE AddPeerAccess(e)
  <2>1. CASE ptEdits[e].op = "first" /\ Valid({ptEdits[e].key, ptEdits[e].via})
    <3>1. ptEdits'[e] = [ptEdits[e] EXCEPT !.op = "second", !.key = ptEdits[e].via, !.via = ptEdits[e].key]
      BY <1>0, <1>6, <2>1 DEF AddPeerAccess
    <3>2. /\ ptEdits'[e].op = "second" /\ ptEdits'[e].key = ptEdits[e].via /\ ptEdits'[e].via = ptEdits[e].key
          /\ ptEdits'[e].members = ptEdits[e].members /\ ptEdits'[e].excludes = ptEdits[e].excludes
      BY <1>0, <3>1 DEF PtEdits
    <3>. QED BY <1>6, <2>1, <3>2
  <2>2. CASE ~(ptEdits[e].op = "first" /\ Valid({ptEdits[e].key, ptEdits[e].via}))
    BY <1>0, <1>6, <2>2 DEF AddPeerAccess
  <2>. QED BY <2>1, <2>2
<1>7. CASE AskSecond(e)
  <2>1. CASE Valid({ptEdits[e].key, ptEdits[e].via})
    <3>1. ptEdits'[e] = [ptEdits[e] EXCEPT !.op = "checked"]
      BY <1>0, <1>7, <2>1 DEF AskSecond
    <3>2. /\ ptEdits'[e].op = "checked" /\ ptEdits'[e].key = ptEdits[e].key /\ ptEdits'[e].via = ptEdits[e].via
          /\ ptEdits'[e].members = ptEdits[e].members /\ ptEdits'[e].excludes = ptEdits[e].excludes
      BY <1>0, <3>1 DEF PtEdits
    <3>. QED BY <1>7, <3>2 DEF AskSecond
  <2>2. CASE ~Valid({ptEdits[e].key, ptEdits[e].via})
    BY <1>0, <1>7, <2>2 DEF AskSecond
  <2>. QED BY <2>1, <2>2
<1>8. CASE StopHalfWay \/ \E yaml \in SUBSET Ips : Boot(yaml)
  BY <1>8 DEF StopHalfWay, Boot
<1>9. CASE Migrate \/ (\E i \in Ids : DeleteDNSServer(i) \/ DeletePeerRoute(i)) \/ UNCHANGED ptVars
           \/ (\E u, v \in VpnUsers : RemovePeerAccessPair(u, v)) \/ \E u \in VpnUsers : DeleteUser(u)
  BY <1>1, <1>9 DEF Migrate, DeleteDNSServer, DeletePeerRoute, RemovePeerAccessPair, DeleteUser, ptVars
<1>10. CASE \E f \in Editors : Asking(f)
  BY <1>2, <1>3, <1>10
<1>11. CASE \E f \in Editors : Saving(f)
  BY <1>4, <1>11
<1>12. CASE \E f \in Editors : AddPeerAccess(f)
  BY <1>5, <1>6, <1>12
<1>13. CASE \E f \in Editors : AskSecond(f)
  BY <1>5, <1>7, <1>13
<1>. QED BY <1>8, <1>9, <1>10, <1>11, <1>12, <1>13, PtNextIs

LEMMA EditsFitStep == TableTypes /\ EditsFit /\ [PtNext]_ptVars => EditsFit'
<1>. SUFFICES ASSUME TableTypes, EditsFit, [PtNext]_ptVars PROVE EditsFit'
  OBVIOUS
<1>0. /\ MaxIds \in Nat /\ ptNext \in Nat /\ ptNext' \in Nat /\ ptNext' >= ptNext /\ ptTopic' = ptTopic
      /\ \A i \in Ids : i \in Nat
      /\ \A i \in Ids : i >= ptNext => ptDns[i] = NoRow
      /\ EditsOK'
  <2>1. ptTopic' = ptTopic
    BY PtNextIs, AskedIs DEF TableTypes, Saving, CreateDNSServer, ReplaceDNSServerMembers, ReplaceDNSServerExcludes, InsertPeerRoute,
       ReplacePeerRouteMembers, AddPeerAccess, AskSecond, KeepTables, StopHalfWay, Boot, Migrate, DeleteDNSServer, DeletePeerRoute,
       ptVars, RemovePeerAccessPair, DeleteUser
  <2>. QED BY <2>1, Bounded, UsersStep, EditsStep DEF TableTypes, UsersOK, DnsOK, Ids
<1>1. ASSUME NEW e \in Editors, ptEdits'[e].op = "members"
      PROVE  ptEdits'[e].id < ptNext' /\ ptDns'[ptEdits'[e].id].source \in {"manual", "none"}
  <2>1. PICK i \in Ids : i = ptEdits'[e].id
    BY <1>0, <1>1 DEF EditsOK, EditOK
  <2>2. i < ptNext /\ ptDns[i].source \in {"manual", "none"}
    <3>1. CASE ptEdits'[e] = ptEdits[e]
      BY <1>1, <2>1, <3>1 DEF EditsFit
    <3>2. CASE ptDns[i].source = "manual"
      <4>1. ptDns[i] # NoRow
        BY <3>2, EmptyRow
      <4>2. i < ptNext
        BY <1>0, <4>1
      <4>. QED BY <3>2, <4>2
    <3>3. ptEdits'[e] # NoEdit
      BY <1>1, NoEditOK
    <3>. QED BY <1>1, <2>1, <3>1, <3>2, <3>3, EditStep
  <2>3. \/ ptDns'[i] = ptDns[i] \/ ptDns'[i] = NoRow
        \/ i >= ptNext
        \/ ptDns'[i].source = ptDns[i].source
    BY RowStep
  <2>4. ptDns'[i].source \in {"manual", "none"} /\ i < ptNext'
    <3>1. i \in Nat /\ i < ptNext' /\ ~(i >= ptNext)
      BY <1>0, <2>2
    <3>2. NoRow.source = "none"
      BY EmptyRow
    <3>. QED BY <2>2, <2>3, <3>1, <3>2
  <2>. QED BY <2>1, <2>4
<1>2. ASSUME NEW e \in Editors, ptEdits'[e].op \in {"first", "second", "checked"} PROVE ptTopic' = "access"
  <2>1. ptEdits'[e] # NoEdit
    BY <1>2, NoEditOK
  <2>2. CASE ptEdits'[e] = ptEdits[e] \/ ptEdits[e].op \in {"first", "second"}
    BY <1>0, <1>2, <2>2 DEF EditsFit
  <2>3. CASE Asking(e) /\ (ptEdits'[e].op \in {"first", "second", "checked"} => ptTopic = "access")
    BY <1>0, <1>2, <2>3
  <2>. QED BY <2>1, <2>2, <2>3, EditStep
<1>. QED BY <1>1, <1>2 DEF EditsFit

LEMMA KnownStays ==
  ASSUME TableTypes, [PtNext]_ptVars, NEW x \in (VpnUsers \cup {Everyone}) \cap Known, ~DeleteUser(x)
  PROVE  x \in Known'
<1>1. CASE \A u \in VpnUsers : ~DeleteUser(u)
  BY <1>1, KnownKept
<1>2. ASSUME NEW u \in VpnUsers, DeleteUser(u) PROVE x \in Known'
  <2>1. x # u
    BY <1>2
  <2>2. ptUsers' = ptUsers \ {u} /\ ptSlips \subseteq ptSlips'
    BY <1>2 DEF DeleteUser
  <2>. QED BY <2>1, <2>2 DEF Known
<1>. QED BY <1>1, <1>2

LEMMA NamedDns == TableTypes /\ Named /\ [PtNext]_ptVars => \A i \in Ids : (ptDns'[i].members \cup ptDns'[i].excludes) \subseteq Known'
<1>. SUFFICES ASSUME TableTypes, Named, [PtNext]_ptVars, NEW i \in Ids, NEW x \in ptDns'[i].members \cup ptDns'[i].excludes
              PROVE  x \in Known'
  OBVIOUS
<1>1. x \in VpnUsers \cup {Everyone}
  <2>1. ptDns'[i] \in PtRows
    BY TypesStep DEF TableTypes, DnsOK
  <2>. QED BY <2>1 DEF PtRows, Members
<1>2. CASE x = Everyone
  BY <1>2 DEF Known
<1>3. ~DeleteUser(x)
  <2>. SUFFICES ASSUME DeleteUser(x) PROVE FALSE
    OBVIOUS
  <2>1. ptDns'[i] = Dropped(ptDns[i], x) /\ x \in VpnUsers /\ ptDns[i] \in PtRows
    BY DEF DeleteUser, TableTypes, UsersOK, DnsOK
  <2>2. ptDns'[i] = NoRow \/ (ptDns'[i].members = ptDns[i].members \ {x} /\ ptDns'[i].excludes = ptDns[i].excludes \ {x})
    BY <2>1, DroppedIs
  <2>. QED BY <2>2, EmptyRow
<1>4. CASE x # Everyone /\ x \in Known
  BY <1>1, <1>3, <1>4, KnownStays
<1>5. CASE x # Everyone /\ x \notin Known
  <2>1. /\ ptDns[i].members \subseteq Known /\ ptDns[i].excludes \subseteq Known
        /\ \A e \in Editors : ptEdits[e].members \subseteq Known /\ ptEdits[e].excludes \subseteq Known
    BY DEF Named
  <2>2. x \notin ptDns[i].members /\ x \notin ptDns[i].excludes
        /\ \A e \in Editors : x \notin ptEdits[e].members /\ x \notin ptEdits[e].excludes
    BY <1>5, <2>1
  <2>3. ptDns'[i] # NoRow /\ ptDns'[i] # ptDns[i]
    BY <2>2, EmptyRow
  <2>4. \/ \E ip \in Ips : ptDns'[i] = ConfigRow(ip)
        \/ \E e \in Editors : ptDns'[i].members = ptEdits[e].members /\ ptDns'[i].excludes = ptEdits[e].excludes
        \/ \E e \in Editors : ptDns'[i].members = ptEdits[e].members
                              /\ ptDns'[i].excludes = IF ptEdits[e].members = {Everyone} THEN ptDns[i].excludes ELSE {}
        \/ \E e \in Editors : ptDns'[i].members = ptDns[i].members /\ ptDns'[i].excludes = ptEdits[e].excludes
        \/ ptDns'[i].members = {Everyone} /\ ptDns'[i].excludes = ptDns[i].excludes
        \/ \E u \in VpnUsers : ptDns'[i].members = ptDns[i].members \ {u} /\ ptDns'[i].excludes = ptDns[i].excludes \ {u}
    BY <2>3, RowStep, Zenon
  <2>5. CASE \E ip \in Ips : ptDns'[i] = ConfigRow(ip)
    BY <1>5, <2>5, ConfigRowIs
  <2>. QED BY <1>5, <2>2, <2>4, <2>5
<1>. QED BY <1>2, <1>4, <1>5

LEMMA NamedRoutes == TableTypes /\ Named /\ [PtNext]_ptVars =>
    \A i \in Ids : ptRoutes'[i].members \subseteq Known' /\ (ptRoutes'[i].via # "" => ptRoutes'[i].via \in Known')
<1>. SUFFICES ASSUME TableTypes, Named, [PtNext]_ptVars, NEW i \in Ids
              PROVE  ptRoutes'[i].members \subseteq Known' /\ (ptRoutes'[i].via # "" => ptRoutes'[i].via \in Known')
  OBVIOUS
<1>. USE DEF TableTypes
<1>0. /\ ptRoutes \in [Ids -> PtRoutes] /\ ptRoutes[i] \in PtRoutes /\ ptRoutes'[i] \in PtRoutes
      /\ ptRoutes[i].members \subseteq Known /\ (ptRoutes[i].via # "" => ptRoutes[i].via \in Known)
      /\ ptRoutes'[i].members \subseteq VpnUsers \cup {Everyone} /\ ptRoutes'[i].via \in VpnUsers \cup {""}
  <2>1. ptRoutes'[i] \in PtRoutes
    BY TypesStep DEF RoutesOK
  <2>2. ptRoutes'[i].members \subseteq VpnUsers \cup {Everyone} /\ ptRoutes'[i].via \in VpnUsers \cup {""}
    BY <2>1 DEF PtRoutes, Members
  <2>. QED BY <2>1, <2>2 DEF RoutesOK, Named
<1>1. ASSUME NEW u \in VpnUsers, DeleteUser(u)
      PROVE  ptRoutes'[i].members \subseteq Known' /\ (ptRoutes'[i].via # "" => ptRoutes'[i].via \in Known')
  <2>1. ptRoutes'[i] = IF ptRoutes[i].via = u THEN NoRoute ELSE [ptRoutes[i] EXCEPT !.members = ptRoutes[i].members \ {u}]
    BY <1>1 DEF DeleteUser
  <2>2. \A y \in Known : y # u => y \in Known'
    BY <1>1 DEF DeleteUser, Known
  <2>3. CASE ptRoutes[i].via = u
    BY <2>1, <2>3, EmptyRoute
  <2>4. CASE ptRoutes[i].via # u
    <3>1. ptRoutes'[i].via = ptRoutes[i].via /\ ptRoutes'[i].members = ptRoutes[i].members \ {u}
      BY <1>0, <2>1, <2>4 DEF PtRoutes
    <3>. QED BY <1>0, <2>2, <2>4, <3>1
  <2>. QED BY <2>3, <2>4
<1>2. CASE \A u \in VpnUsers : ~DeleteUser(u)
  <2>1. \A x \in VpnUsers \cup {Everyone} : x \in Known => x \in Known'
    BY <1>2, KnownKept
  <2>2. SUFFICES ptRoutes'[i].members \subseteq Known /\ (ptRoutes'[i].via # "" => ptRoutes'[i].via \in Known)
    BY <1>0, <2>1
  <2>3. CASE UNCHANGED ptRoutes
    BY <1>0, <2>3
  <2>4. CASE Migrate
    <3>1. ptUsers = VpnUsers
      BY <2>4 DEF Migrate, OldOK, Booted
    <3>. QED BY <1>0, <3>1 DEF Known
  <2>5. ASSUME NEW e \in Editors, InsertPeerRoute(e)
        PROVE  ptRoutes'[i].members \subseteq Known /\ (ptRoutes'[i].via # "" => ptRoutes'[i].via \in Known)
    <3>1. \/ ptRoutes' = ptRoutes
          \/ ptRoutes' = [ptRoutes EXCEPT ![ptNext] = [dest |-> ptEdits[e].key, via |-> ptEdits[e].via, members |-> ptEdits[e].members]]
      BY <2>5 DEF InsertPeerRoute
    <3>2. \/ ptRoutes'[i] = ptRoutes[i]
          \/ ptRoutes'[i] = [dest |-> ptEdits[e].key, via |-> ptEdits[e].via, members |-> ptEdits[e].members]
      BY <1>0, <3>1
    <3>3. ptEdits[e].members \subseteq Known /\ ptEdits[e].via \in Known
      BY <2>5 DEF Named, InsertPeerRoute
    <3>4. CASE ptRoutes'[i] = ptRoutes[i]
      BY <1>0, <3>4
    <3>5. CASE ptRoutes'[i] = [dest |-> ptEdits[e].key, via |-> ptEdits[e].via, members |-> ptEdits[e].members]
      <4>1. ptRoutes'[i].via = ptEdits[e].via /\ ptRoutes'[i].members = ptEdits[e].members
        BY <3>5
      <4>. QED BY <3>3, <4>1, Zenon
    <3>. QED BY <3>2, <3>4, <3>5
  <2>6. ASSUME NEW e \in Editors, ReplacePeerRouteMembers(e)
        PROVE  ptRoutes'[i].members \subseteq Known /\ (ptRoutes'[i].via # "" => ptRoutes'[i].via \in Known)
    <3>1. ptRoutes'[i] = ptRoutes[i] \/ ptRoutes'[i] = [ptRoutes[i] EXCEPT !.members = ptEdits[e].members]
      BY <1>0, <2>6 DEF ReplacePeerRouteMembers
    <3>2. ptEdits[e].members \subseteq Known
      BY DEF Named
    <3>3. ptRoutes'[i] = ptRoutes[i] \/ (ptRoutes'[i].via = ptRoutes[i].via /\ ptRoutes'[i].members = ptEdits[e].members)
      BY <1>0, <3>1 DEF PtRoutes
    <3>4. ptRoutes'[i].via = ptRoutes[i].via /\ ptRoutes'[i].members \subseteq Known
      BY <1>0, <3>2, <3>3
    <3>. QED BY <1>0, <3>4, Zenon
  <2>7. CASE \E j \in Ids : DeletePeerRoute(j)
    <3>1. ptRoutes'[i] = ptRoutes[i] \/ ptRoutes'[i] = NoRoute
      BY <1>0, <2>7 DEF DeletePeerRoute
    <3>. QED BY <1>0, <3>1, EmptyRoute
  <2>8. CASE StopHalfWay \/ (\E j \in Ids : DeleteDNSServer(j)) \/ (\E u, v \in VpnUsers : RemovePeerAccessPair(u, v))
             \/ (\E yaml \in SUBSET Ips : Boot(yaml)) \/ UNCHANGED ptVars
    BY <2>3, <2>8 DEF StopHalfWay, DeleteDNSServer, RemovePeerAccessPair, Boot, ptVars
  <2>9. CASE \E e \in Editors : Asking(e) \/ CreateDNSServer(e) \/ ReplaceDNSServerMembers(e) \/ ReplaceDNSServerExcludes(e)
                                \/ AddPeerAccess(e) \/ AskSecond(e)
    BY <2>3, <2>9, AskedIs DEF CreateDNSServer, ReplaceDNSServerMembers, ReplaceDNSServerExcludes, AddPeerAccess, AskSecond, KeepTables
  <2>. QED BY <1>2, <2>4, <2>5, <2>6, <2>7, <2>8, <2>9, PtNextIs DEF Saving
<1>. QED BY <1>1, <1>2

LEMMA NamedEdits == TableTypes /\ Named /\ [PtNext]_ptVars =>
    \A e \in Editors : /\ (ptEdits'[e].members \cup ptEdits'[e].excludes) \subseteq Known'
                       /\ ptEdits'[e].op = "newRoute" => ptEdits'[e].via \in Known'
<1>. SUFFICES ASSUME TableTypes, Named, [PtNext]_ptVars, NEW e \in Editors
              PROVE  /\ (ptEdits'[e].members \cup ptEdits'[e].excludes) \subseteq Known'
                     /\ ptEdits'[e].op = "newRoute" => ptEdits'[e].via \in Known'
  OBVIOUS
<1>. DEFINE d == ptEdits[e]
<1>0. /\ d.members \cup d.excludes \subseteq VpnUsers \cup {Everyone} /\ (d.op = "newRoute" => d.via \in VpnUsers)
      /\ d.members \cup d.excludes \subseteq Known /\ (d.op = "newRoute" => d.via \in Known)
  BY DEF TableTypes, EditsOK, EditOK, PtEdits, Members, Named
<1>1. ASSUME NEW x \in (VpnUsers \cup {Everyone}) \cap Known, x \in d.members \cup d.excludes \cup {d.via} PROVE x \in Known'
  <2>1. CASE DeleteUser(x)
    <3>1. x \in Names(d)
      BY <1>1 DEF Names
    <3>2. x \in ptSlips'
      BY <2>1, <3>1 DEF DeleteUser
    <3>. QED BY <3>2 DEF Known
  <2>2. CASE ~DeleteUser(x)
    BY <2>2, KnownStays
  <2>. QED BY <2>1, <2>2
<1>2. d.members \cup d.excludes \subseteq Known' /\ (d.op = "newRoute" => d.via \in Known')
  BY <1>0, <1>1
<1>3. CASE ptEdits'[e] = ptEdits[e] \/ ptEdits'[e] = NoEdit
  BY <1>2, <1>3, NoEditOK
<1>4. CASE /\ Asking(e) /\ (ptEdits'[e].members \cup ptEdits'[e].excludes) \subseteq ptUsers \cup {Everyone}
           /\ ptEdits'[e].op = "newRoute" => ptEdits'[e].via \in ptUsers
  <2>1. ptUsers' = ptUsers
    BY <1>4, AskedIs DEF TableTypes
  <2>. QED BY <1>4, <2>1 DEF Known
<1>5. CASE /\ ptEdits'[e].op \in {"second", "checked"}
           /\ ptEdits'[e].members = ptEdits[e].members /\ ptEdits'[e].excludes = ptEdits[e].excludes
  BY <1>2, <1>5
<1>. QED BY <1>3, <1>4, <1>5, EditStep, Zenon

LEMMA NamedStep == TableTypes /\ Named /\ [PtNext]_ptVars => Named'
BY NamedDns, NamedRoutes, NamedEdits DEF Named

LEMMA WithoutBoot ==
  ASSUME TableTypes, [PtNext]_ptVars, ~(\E yaml \in SUBSET Ips : Boot(yaml))
  PROVE  ptYaml' = ptYaml /\ ptSlips \subseteq ptSlips'
<1>1. CASE \E e \in Editors : Asking(e)
  BY <1>1, AskedIs DEF TableTypes
<1>2. CASE \E e \in Editors : Saving(e)
  BY <1>2 DEF Saving, CreateDNSServer, ReplaceDNSServerMembers, ReplaceDNSServerExcludes, InsertPeerRoute, ReplacePeerRouteMembers
<1>3. CASE (\E e \in Editors : AddPeerAccess(e) \/ AskSecond(e)) \/ Migrate \/ StopHalfWay \/ UNCHANGED ptVars
           \/ (\E u, v \in VpnUsers : RemovePeerAccessPair(u, v))
  BY <1>3 DEF AddPeerAccess, AskSecond, KeepTables, Migrate, StopHalfWay, RemovePeerAccessPair, ptVars
<1>4. CASE (\E i \in Ids : DeleteDNSServer(i) \/ DeletePeerRoute(i)) \/ \E u \in VpnUsers : DeleteUser(u)
  BY <1>4 DEF DeleteDNSServer, DeletePeerRoute, DeleteUser
<1>. QED BY <1>1, <1>2, <1>3, <1>4, PtNextIs

(* The parts of DnsFollowsFile. *)
ConfigRows == \A i \in Ids : ptDns[i].source = "config" => ptDns[i].ip \in ptYaml /\ ptDns[i].members = {Everyone}
FileServed == \A ip \in ptYaml : (\A i \in Ids : ptDns[i].ip # ip) => "unserved" \in ptSlips
OneRow     == \A i, j \in Ids : ptDns[i].ip = ptDns[j].ip /\ ptDns[i] # NoRow => i = j

LEMMA BootRow ==
  ASSUME TableTypes, NEW yaml \in SUBSET Ips, Boot(yaml)
  PROVE  /\ ptYaml' = yaml
         /\ \A i \in Ids : i < ptNext => ptDns'[i] = Synced(ptDns[i], yaml)
         /\ \A i \in Ids : i >= ptNext /\ ptDns'[i] # NoRow => \E ip \in Added(yaml) : ptDns'[i] = ConfigRow(ip)
         /\ \A i, j \in Ids : i >= ptNext /\ j >= ptNext /\ ptDns'[i] # NoRow /\ ptDns'[i].ip = ptDns'[j].ip => i = j
         /\ \A ip \in Added(yaml) : \E i \in Ids : ptDns'[i].ip = ip
<1>. USE DEF TableTypes
<1>0. /\ MaxIds \in Nat /\ ptNext \in Nat /\ ptNext >= 1 /\ \A i \in Ids : i \in Nat
      /\ \A i \in Ids : i >= ptNext => ptDns[i] = NoRow
  BY Bounded DEF UsersOK, Ids, DnsOK
<1>1. PICK n \in Nat : \E new \in [1..n -> Added(yaml)] : BootRows(yaml, n, new)
  BY BootIs
<1>2. PICK new \in [1..n -> Added(yaml)] : BootRows(yaml, n, new)
  BY <1>1
<1>3. ASSUME NEW i \in Ids, i >= ptNext, ptDns'[i] # NoRow
      PROVE  /\ i - ptNext + 1 \in 1..n /\ ptDns'[i] = ConfigRow(new[i - ptNext + 1])
             /\ new[i - ptNext + 1] \in Added(yaml) /\ ptDns'[i].ip = new[i - ptNext + 1]
  <2>1. i < ptNext + n
    <3>1. ptDns[i] = NoRow
      BY <1>0, <1>3
    <3>2. Synced(ptDns[i], yaml) = NoRow
      BY <3>1, EmptySynced
    <3>. QED BY <1>2, <1>3, <3>2 DEF BootRows
  <2>2. i - ptNext + 1 \in 1..n
    BY <1>0, <1>3, <2>1
  <2>3. ptDns'[i] = ConfigRow(new[i - ptNext + 1])
    BY <1>2, <1>3, <2>1 DEF BootRows
  <2>4. new[i - ptNext + 1] \in Added(yaml) /\ new[i - ptNext + 1] \in Ips
    BY <2>2 DEF Added
  <2>. QED BY <2>2, <2>3, <2>4, ConfigRowIs
<1>4. ASSUME NEW i \in Ids, i < ptNext PROVE ptDns'[i] = Synced(ptDns[i], yaml)
  BY <1>0, <1>2, <1>4 DEF BootRows
<1>5. ASSUME NEW i \in Ids, NEW j \in Ids, i >= ptNext, j >= ptNext, ptDns'[i] # NoRow, ptDns'[i].ip = ptDns'[j].ip PROVE i = j
  <2>1. ptDns'[j] # NoRow
    <3>1. new[i - ptNext + 1] \in Ips /\ ptDns'[i].ip = new[i - ptNext + 1]
      BY <1>3, <1>5 DEF Added
    <3>2. "" \notin Ips
      BY PolicyTablesAssumption
    <3>. QED BY <1>5, <3>1, <3>2, EmptyRow
  <2>2. new[i - ptNext + 1] = new[j - ptNext + 1] /\ i - ptNext + 1 \in 1..n /\ j - ptNext + 1 \in 1..n
    BY <1>3, <1>5, <2>1
  <2>3. i - ptNext + 1 = j - ptNext + 1
    BY <1>2, <2>2 DEF BootRows
  <2>. QED BY <1>0, <2>3
<1>6. ASSUME NEW ip \in Added(yaml) PROVE \E i \in Ids : ptDns'[i].ip = ip
  <2>1. PICK k \in 1..n : new[k] = ip
    BY <1>2 DEF BootRows
  <2>2. ptNext + k - 1 \in Ids /\ ptNext + k - 1 >= ptNext /\ ptNext + k - 1 < ptNext + n /\ (ptNext + k - 1) - ptNext + 1 = k
    BY <1>0, <1>2, <2>1 DEF BootRows, Ids
  <2>3. ptDns'[ptNext + k - 1] = ConfigRow(new[(ptNext + k - 1) - ptNext + 1])
    BY <1>2, <2>2 DEF BootRows
  <2>4. ip \in Ips
    BY DEF Added
  <2>. QED BY <2>1, <2>2, <2>3, <2>4, ConfigRowIs
<1>7. ptYaml' = yaml
  BY <1>2 DEF BootRows
<1>. QED BY <1>3, <1>4, <1>5, <1>6, <1>7

LEMMA ConfigStep == TableTypes /\ EditsFit /\ ConfigRows /\ [PtNext]_ptVars => ConfigRows'
<1>. SUFFICES ASSUME TableTypes, EditsFit, ConfigRows, [PtNext]_ptVars, NEW i \in Ids, ptDns'[i].source = "config"
              PROVE  ptDns'[i].ip \in ptYaml' /\ ptDns'[i].members = {Everyone}
  BY DEF ConfigRows
<1>0. /\ ptNext \in Nat /\ i \in Nat /\ ptDns[i] \in PtRows
      /\ NoRow.source = "none" /\ ptDns'[i] # NoRow
  <2>1. ptNext \in Nat /\ i \in Nat /\ ptDns[i] \in PtRows
    BY Bounded DEF TableTypes, UsersOK, Ids, DnsOK
  <2>. QED BY <2>1, EmptyRow
<1>1. ASSUME NEW yaml \in SUBSET Ips, Boot(yaml) PROVE ptDns'[i].ip \in ptYaml' /\ ptDns'[i].members = {Everyone}
  <2>1. CASE i < ptNext
    <3>1. ptDns'[i] = Synced(ptDns[i], yaml) /\ ptYaml' = yaml
      BY <1>1, <2>1, BootRow
    <3>. QED BY <1>0, <3>1, SyncedIs
  <2>2. CASE ~(i < ptNext)
    <3>1. PICK ip \in Added(yaml) : ptDns'[i] = ConfigRow(ip)
      BY <1>0, <1>1, <2>2, BootRow
    <3>2. ip \in yaml /\ ip \in Ips /\ ptYaml' = yaml
      BY <1>1, BootRow DEF Added
    <3>. QED BY <3>1, <3>2, ConfigRowIs
  <2>. QED BY <2>1, <2>2
<1>2. CASE ~(\E yaml \in SUBSET Ips : Boot(yaml))
  <2>1. ptYaml' = ptYaml
    BY <1>2, WithoutBoot
  <2>2. ptDns[i].source = "config" => ptDns[i].ip \in ptYaml /\ ptDns[i].members = {Everyone}
    BY DEF ConfigRows
  <2>3. ASSUME NEW e \in Editors, ReplaceDNSServerMembers(e), i = ptEdits[e].id PROVE ptDns[i].source # "config"
    BY <2>3 DEF ReplaceDNSServerMembers, EditsFit
  <2>4. \A u \in VpnUsers : {Everyone} \ {u} = {Everyone}
    BY PolicyTablesAssumption
  <2>5. \/ ptDns'[i] = ptDns[i]
        \/ /\ ptDns'[i].ip = ptDns[i].ip /\ ptDns'[i].source = ptDns[i].source
           /\ \/ \E e \in Editors : ReplaceDNSServerMembers(e) /\ i = ptEdits[e].id
              \/ ptDns'[i].members = ptDns[i].members
              \/ \E u \in VpnUsers : ptDns'[i].members = ptDns[i].members \ {u}
    BY <1>0, <1>2, RowStep
  <2>6. CASE ptDns'[i] = ptDns[i]
    BY <2>1, <2>2, <2>6
  <2>7. CASE /\ ptDns'[i].ip = ptDns[i].ip /\ ptDns'[i].source = ptDns[i].source
             /\ \/ \E e \in Editors : ReplaceDNSServerMembers(e) /\ i = ptEdits[e].id
                \/ ptDns'[i].members = ptDns[i].members
                \/ \E u \in VpnUsers : ptDns'[i].members = ptDns[i].members \ {u}
    BY <2>1, <2>2, <2>3, <2>4, <2>7
  <2>. QED BY <2>5, <2>6, <2>7
<1>. QED BY <1>1, <1>2

LEMMA ServedStep == TableTypes /\ FileServed /\ [PtNext]_ptVars => FileServed'
<1>. SUFFICES ASSUME TableTypes, FileServed, [PtNext]_ptVars, NEW ip \in ptYaml', \A i \in Ids : ptDns'[i].ip # ip
              PROVE  "unserved" \in ptSlips'
  BY DEF FileServed
<1>0. /\ ptNext \in Nat /\ \A i \in Ids : i \in Nat /\ ptDns[i] \in PtRows /\ (i >= ptNext => ptDns[i] = NoRow)
  BY Bounded DEF TableTypes, UsersOK, Ids, DnsOK
<1>00. "" \notin Ips /\ ip \in Ips
  BY TypesStep, PolicyTablesAssumption DEF TableTypes, UsersOK
<1>1. ASSUME NEW yaml \in SUBSET Ips, Boot(yaml) PROVE FALSE
  <2>1. ip \in yaml /\ ip \notin Added(yaml)
    BY <1>1, BootRow
  <2>2. PICK j \in Ids : ptDns[j].ip = ip
    BY <2>1 DEF Added
  <2>3. ptDns[j] # NoRow
    BY <1>00, <2>2, EmptyRow
  <2>4. j < ptNext
    BY <1>0, <2>3
  <2>5. ptDns'[j] = Synced(ptDns[j], yaml)
    BY <1>1, <2>4, BootRow
  <2>6. ptDns'[j].ip = ip
    BY <1>0, <2>1, <2>2, <2>5, SyncedIs
  <2>. QED BY <2>6
<1>2. CASE ~(\E yaml \in SUBSET Ips : Boot(yaml))
  <2>1. ptYaml' = ptYaml /\ ptSlips \subseteq ptSlips'
    BY <1>2, WithoutBoot
  <2>2. CASE (\E i \in Ids : DeleteDNSServer(i)) \/ \E u \in VpnUsers : DeleteUser(u)
    <3>1. Unserved \subseteq ptSlips'
      BY <2>2 DEF DeleteDNSServer, DeleteUser
    <3>2. "unserved" \in Unserved
      BY <2>1 DEF Unserved
    <3>. QED BY <3>1, <3>2
  <2>3. CASE ~((\E i \in Ids : DeleteDNSServer(i)) \/ \E u \in VpnUsers : DeleteUser(u))
    <3>1. ~Sweeping
      BY <1>2, <2>3 DEF Sweeping
    <3>2. ASSUME NEW i \in Ids PROVE ptDns[i].ip # ip
      <4>1. ptDns'[i].ip = ptDns[i].ip \/ ptDns[i] = NoRow
        BY <3>1, RowStep
      <4>. QED BY <1>00, <4>1, EmptyRow
    <3>. QED BY <2>1, <3>2 DEF FileServed
  <2>. QED BY <2>2, <2>3
<1>. QED BY <1>1, <1>2

LEMMA OneRowStep == TableTypes /\ OneRow /\ [PtNext]_ptVars => OneRow'
<1>. SUFFICES ASSUME TableTypes, OneRow, [PtNext]_ptVars,
                     NEW i \in Ids, NEW j \in Ids, ptDns'[i].ip = ptDns'[j].ip, ptDns'[i] # NoRow
              PROVE  i = j
  BY DEF OneRow
<1>0. /\ ptNext \in Nat /\ i \in Nat /\ j \in Nat /\ ptDns[i] \in PtRows /\ ptDns[j] \in PtRows
  BY Bounded DEF TableTypes, UsersOK, Ids, DnsOK
<1>01. ptDns'[i].ip # "" /\ ptDns'[j] # NoRow
  <2>1. RowOK(ptDns'[i])
    BY TypesStep DEF TableTypes, DnsOK
  <2>. QED BY <2>1, EmptyRow DEF RowOK
<1>1. ASSUME ptDns[i].ip = ptDns'[i].ip, ptDns[j].ip = ptDns'[j].ip PROVE i = j
  <2>1. ptDns[i] # NoRow
    BY <1>01, <1>1, EmptyRow
  <2>. QED BY <1>1, <2>1 DEF OneRow
<1>2. ASSUME NEW yaml \in SUBSET Ips, Boot(yaml) PROVE i = j
  <2>1. ASSUME NEW k \in Ids, k < ptNext, ptDns[k] \in PtRows, ptDns'[k] # NoRow PROVE ptDns[k].ip = ptDns'[k].ip
    <3>1. ptDns'[k] = Synced(ptDns[k], yaml)
      BY <1>2, <2>1, BootRow
    <3>2. \/ Synced(ptDns[k], yaml) \in {ptDns[k], NoRow}
          \/ Synced(ptDns[k], yaml).ip = ptDns[k].ip
      BY <2>1, SyncedIs
    <3>. QED BY <2>1, <3>1, <3>2
  <2>2. ASSUME NEW k \in Ids, k >= ptNext, ptDns'[k] # NoRow PROVE \A m \in Ids : ptDns[m].ip # ptDns'[k].ip
    <3>1. PICK ip \in Added(yaml) : ptDns'[k] = ConfigRow(ip)
      BY <1>2, <2>2, BootRow
    <3>2. ptDns'[k].ip = ip
      BY <3>1, ConfigRowIs DEF Added
    <3>. QED BY <3>1, <3>2 DEF Added
  <2>3. CASE i < ptNext /\ j < ptNext
    BY <1>0, <1>01, <1>1, <2>1, <2>3
  <2>4. CASE i >= ptNext /\ j >= ptNext
    <3>1. \A k, m \in Ids : k >= ptNext /\ m >= ptNext /\ ptDns'[k] # NoRow /\ ptDns'[k].ip = ptDns'[m].ip => k = m
      BY <1>2, BootRow
    <3>. QED BY <2>4, <3>1
  <2>5. CASE i < ptNext /\ j >= ptNext
    BY <1>0, <1>01, <2>1, <2>2, <2>5
  <2>6. CASE i >= ptNext /\ j < ptNext
    BY <1>0, <1>01, <2>1, <2>2, <2>6
  <2>. QED BY <1>0, <2>3, <2>4, <2>5, <2>6
<1>3. ASSUME NEW e \in Editors, CreateDNSServer(e) PROVE i = j
  <2>. DEFINE r == [ip |-> ptEdits[e].key, source |-> "manual", members |-> ptEdits[e].members, excludes |-> ptEdits[e].excludes]
  <2>1. CASE UNCHANGED ptDns
    BY <1>1, <2>1
  <2>2. CASE /\ ptDns' = [ptDns EXCEPT ![ptNext] = r]
             /\ \A m \in Ids : ptDns[m].ip # ptEdits[e].key
    <3>1. \A k \in Ids : k = ptNext => ptDns'[k].ip = ptEdits[e].key
      BY <2>2 DEF TableTypes, DnsOK
    <3>2. \A k \in Ids : k # ptNext => ptDns'[k] = ptDns[k]
      BY <2>2 DEF TableTypes, DnsOK
    <3>. HIDE DEF r
    <3>3. CASE i # ptNext /\ j # ptNext
      BY <1>1, <3>2, <3>3
    <3>4. CASE i = ptNext /\ j # ptNext
      BY <2>2, <3>1, <3>2, <3>4
    <3>5. CASE i # ptNext /\ j = ptNext
      BY <2>2, <3>1, <3>2, <3>5
    <3>. QED BY <3>3, <3>4, <3>5
  <2>. QED BY <1>3, <2>1, <2>2 DEF CreateDNSServer
<1>4. CASE ~(\E yaml \in SUBSET Ips : Boot(yaml)) /\ ~(\E e \in Editors : CreateDNSServer(e))
  <2>1. ptDns[i].ip = ptDns'[i].ip
    BY <1>01, <1>4, RowStep
  <2>2. ptDns[j].ip = ptDns'[j].ip
    BY <1>01, <1>4, RowStep
  <2>. QED BY <1>1, <2>1, <2>2
<1>. QED BY <1>2, <1>3, <1>4

LEMMA HiddenKept == TableTypes /\ [PtNext]_ptVars /\ "hidden" \in ptSlips => "hidden" \in ptSlips'
<1>. SUFFICES ASSUME TableTypes, [PtNext]_ptVars, "hidden" \in ptSlips PROVE "hidden" \in ptSlips'
  OBVIOUS
<1>1. ASSUME NEW yaml \in SUBSET Ips, Boot(yaml) PROVE "hidden" \in ptSlips'
  BY <1>1 DEF Boot
<1>. QED BY <1>1, WithoutBoot

(* The parts of DnsForSomebody. *)
ForSomebody == \A i \in Ids : ptDns[i].source = "manual" => ptDns[i].members # {}
NoneHidden  == \A i \in Ids : ptDns[i].members # {Everyone} => ptDns[i].excludes = {} \/ "hidden" \in ptSlips

LEMMA SomebodyStep == TableTypes /\ ForSomebody /\ [PtNext]_ptVars => ForSomebody'
<1>. SUFFICES ASSUME TableTypes, ForSomebody, [PtNext]_ptVars, NEW i \in Ids, ptDns'[i].source = "manual", ptDns'[i].members = {}
              PROVE  FALSE
  BY DEF ForSomebody
<1>1. ptDns[i].source = "manual" => ptDns[i].members # {}
  BY DEF ForSomebody
<1>2. ASSUME NEW e \in Editors, CreateDNSServer(e) \/ ReplaceDNSServerMembers(e) PROVE ptEdits[e].members # {}
  BY <1>2, MemberListsIn DEF TableTypes, EditsOK, EditOK, CreateDNSServer, ReplaceDNSServerMembers
<1>3. ptDns'[i] # NoRow /\ ptDns'[i] # ptDns[i]
  BY <1>1, EmptyRow
<1>4. \A ip \in Ips : ptDns'[i] # ConfigRow(ip)
  BY ConfigRowIs
<1>. QED BY <1>1, <1>2, <1>3, <1>4, RowStep

LEMMA HiddenStep == TableTypes /\ ConfigRows /\ ForSomebody /\ NoneHidden /\ [PtNext]_ptVars => NoneHidden'
<1>. SUFFICES ASSUME TableTypes, ConfigRows, ForSomebody, NoneHidden, [PtNext]_ptVars,
                     NEW i \in Ids, ptDns'[i].members # {Everyone}, ptDns'[i].excludes # {}
              PROVE  "hidden" \in ptSlips'
  BY DEF NoneHidden
<1>1. ptDns[i].members # {Everyone} /\ ptDns[i].excludes # {} => "hidden" \in ptSlips'
  BY HiddenKept DEF NoneHidden
<1>2. CASE ptDns'[i] = ptDns[i]
  BY <1>1, <1>2
<1>3. CASE ptDns'[i] = NoRow \/ \E ip \in Ips : ptDns'[i] = ConfigRow(ip)
  BY <1>3, EmptyRow, ConfigRowIs
<1>4. ASSUME NEW e \in Editors, CreateDNSServer(e), ptDns'[i].members = ptEdits[e].members, ptDns'[i].excludes = ptEdits[e].excludes
      PROVE  FALSE
  BY <1>4 DEF TableTypes, EditsOK, EditOK, CreateDNSServer
<1>5. ASSUME NEW e \in Editors, ReplaceDNSServerMembers(e), ptDns'[i].members = ptEdits[e].members,
             ptDns'[i].excludes = IF ptEdits[e].members = {Everyone} THEN ptDns[i].excludes ELSE {}
      PROVE  FALSE
  BY <1>5
<1>6. ASSUME NEW e \in Editors, ReplaceDNSServerExcludes(e), i = ptEdits[e].id, ptDns[i] # NoRow, ptDns'[i].members = ptDns[i].members
      PROVE  "hidden" \in ptSlips'
  <2>1. ptDns[i].members # {}
    <3>1. ptDns[i].source # "none" /\ ptDns[i].source \in {"none", "config", "manual"}
      BY <1>6 DEF TableTypes, DnsOK, RowOK, PtRows
    <3>. QED BY <3>1 DEF ConfigRows, ForSomebody
  <2>. QED BY <1>6, <2>1 DEF ReplaceDNSServerExcludes
<1>7. ASSUME NEW u \in VpnUsers, ptDns'[i].members = ptDns[i].members \ {u}, ptDns'[i].excludes = ptDns[i].excludes \ {u}
      PROVE  "hidden" \in ptSlips'
  <2>1. {Everyone} \ {u} = {Everyone}
    BY PolicyTablesAssumption
  <2>. QED BY <1>1, <1>7, <2>1
<1>. QED BY <1>2, <1>3, <1>4, <1>5, <1>6, <1>7, RowStep

(* Peer access: the pair of an edit that is half way has its first half.   *)
AccessOK ==
    /\ \A p \in ptAccess : p = <<p[1], p[2]>> /\ p[1] \in ptUsers /\ p[2] \in ptUsers
    /\ ptTopic # "access" => ptAccess = {}
    /\ \A e \in Editors : ptEdits[e].op \in {"second", "checked"} /\ ptEdits[e].key \in ptUsers /\ ptEdits[e].via \in ptUsers =>
          <<ptEdits[e].via, ptEdits[e].key>> \in ptAccess \/ "half" \in ptSlips
    /\ AccessMutual

LEMMA ValidPair ==
  ASSUME NEW u \in VpnUsers, NEW v \in VpnUsers
  PROVE  Valid({u, v}) <=> u \in ptUsers /\ v \in ptUsers
<1>1. Everyone \notin VpnUsers
  BY PolicyTablesAssumption
<1>. QED BY <1>1 DEF Valid

LEMMA AccessKeptBy ==
  ASSUME TableTypes, AccessOK, UNCHANGED <<ptTopic, ptUsers, ptAccess>>, "half" \in ptSlips => "half" \in ptSlips',
         \A e \in Editors : \/ ptEdits'[e] = ptEdits[e]
                            \/ ptEdits[e].op \notin {"second", "checked"} /\ ptEdits'[e].op \notin {"second", "checked"}
  PROVE  AccessOK'
<1>1. /\ \A p \in ptAccess' : p = <<p[1], p[2]>> /\ p[1] \in ptUsers' /\ p[2] \in ptUsers'
      /\ ptTopic' # "access" => ptAccess' = {}
  BY DEF AccessOK
<1>2. ASSUME NEW e \in Editors, ptEdits'[e].op \in {"second", "checked"}, ptEdits'[e].key \in ptUsers', ptEdits'[e].via \in ptUsers'
      PROVE  <<ptEdits'[e].via, ptEdits'[e].key>> \in ptAccess' \/ "half" \in ptSlips'
  <2>1. ptEdits'[e] = ptEdits[e]
    BY <1>2
  <2>. QED BY <1>2, <2>1 DEF AccessOK
<1>3. ASSUME NEW p \in ptAccess' PROVE <<p[2], p[1]>> \in ptAccess' \/ Half(p[1], p[2])' \/ "half" \in ptSlips'
  <2>1. CASE Half(p[1], p[2])
    <3>1. PICK e \in Editors : ptEdits[e].op \in {"second", "checked"} /\ {ptEdits[e].key, ptEdits[e].via} = {p[1], p[2]}
      BY <2>1 DEF Half
    <3>2. ptEdits'[e] = ptEdits[e]
      BY <3>1
    <3>. QED BY <3>1, <3>2 DEF Half
  <2>. QED BY <2>1 DEF AccessOK, AccessMutual
<1>. QED BY <1>1, <1>2, <1>3 DEF AccessOK, AccessMutual

LEMMA AccessStep == TableTypes /\ EditsFit /\ AccessOK /\ [PtNext]_ptVars => AccessOK'
<1>. SUFFICES ASSUME TableTypes, EditsFit, AccessOK, [PtNext]_ptVars PROVE AccessOK'
  OBVIOUS
<1>0. /\ ptEdits \in [Editors -> PtEdits]
      /\ \A e \in Editors : ptEdits[e].op \in {"first", "second", "checked"} =>
            ptEdits[e].key \in VpnUsers /\ ptEdits[e].via \in VpnUsers /\ ptTopic = "access"
  BY DEF TableTypes, EditsOK, EditOK, EditsFit
<1>1. ASSUME UNCHANGED <<ptTopic, ptUsers, ptAccess, ptEdits>>, "half" \in ptSlips => "half" \in ptSlips' PROVE AccessOK'
  BY <1>1, AccessKeptBy
<1>2. ASSUME NEW e \in Editors, Asking(e) PROVE AccessOK'
  <2>1. UNCHANGED <<ptTopic, ptUsers, ptAccess, ptSlips>> /\ ptEdits[e] = NoEdit
    BY <1>2, AskedIs DEF TableTypes
  <2>2. PICK d \in PtEdits : /\ ptEdits' = [ptEdits EXCEPT ![e] = d]
                             /\ d.op \in {"first", "second", "checked"} => d.op = "first"
    BY <1>2, AskedIs DEF TableTypes
  <2>3. ptEdits[e].op \notin {"second", "checked"} /\ ptEdits'[e].op \notin {"second", "checked"}
    BY <1>0, <2>1, <2>2, NoEditOK
  <2>4. \A f \in Editors : f # e => ptEdits'[f] = ptEdits[f]
    BY <1>0, <2>2
  <2>. QED BY <2>1, <2>3, <2>4, AccessKeptBy
<1>3. ASSUME NEW e \in Editors, Saving(e) PROVE AccessOK'
  <2>1. /\ ptEdits[e].op \notin {"second", "checked"} /\ Over(e) /\ UNCHANGED <<ptTopic, ptUsers, ptAccess>>
        /\ ptSlips \subseteq ptSlips'
    BY <1>3 DEF Saving, CreateDNSServer, ReplaceDNSServerMembers, ReplaceDNSServerExcludes, InsertPeerRoute, ReplacePeerRouteMembers
  <2>2. \A f \in Editors : f # e => ptEdits'[f] = ptEdits[f]
    BY <1>0, <2>1 DEF Over
  <2>3. ptEdits'[e].op = "none"
    BY <1>0, <2>1, NoEditOK DEF Over
  <2>. QED BY <2>1, <2>2, <2>3, AccessKeptBy
<1>4. CASE Migrate \/ (\E i \in Ids : DeleteDNSServer(i) \/ DeletePeerRoute(i)) \/ UNCHANGED ptVars
  BY <1>1, <1>4 DEF Migrate, DeleteDNSServer, DeletePeerRoute, ptVars
<1>5. ASSUME NEW yaml \in SUBSET Ips, Boot(yaml) PROVE AccessOK'
  <2>1. ptAccess' = {} /\ ptTopic' # "access" /\ \A e \in Editors : ptEdits'[e] = NoEdit
    BY <1>5 DEF Boot, AccessOK
  <2>. QED BY <2>1, NoEditOK DEF AccessOK, AccessMutual
<1>6. CASE StopHalfWay
  <2>1. /\ UNCHANGED <<ptAccess, ptTopic, ptUsers>> /\ "half" \in ptSlips' /\ \A e \in Editors : ptEdits'[e] = NoEdit
    BY <1>6 DEF StopHalfWay
  <2>. QED BY <2>1, NoEditOK DEF AccessOK, AccessMutual
<1>7. ASSUME NEW u \in VpnUsers, NEW v \in VpnUsers, RemovePeerAccessPair(u, v) PROVE AccessOK'
  <2>1. /\ ptAccess' = ptAccess \ {<<u, v>>, <<v, u>>} /\ UNCHANGED <<ptTopic, ptUsers, ptEdits>>
        /\ ptSlips \subseteq ptSlips' /\ (Half(u, v) => "half" \in ptSlips')
    BY <1>7 DEF RemovePeerAccessPair
  <2>2. ASSUME NEW e \in Editors, ptEdits[e].op \in {"second", "checked"}, ptEdits[e].key \in ptUsers, ptEdits[e].via \in ptUsers
        PROVE  <<ptEdits[e].via, ptEdits[e].key>> \in ptAccess' \/ "half" \in ptSlips'
    <3>1. CASE <<ptEdits[e].via, ptEdits[e].key>> \in {<<u, v>>, <<v, u>>}
      BY <2>1, <2>2, <3>1 DEF Half
    <3>. QED BY <2>1, <2>2, <3>1 DEF AccessOK
  <2>3. ASSUME NEW p \in ptAccess' PROVE <<p[2], p[1]>> \in ptAccess' \/ Half(p[1], p[2])' \/ "half" \in ptSlips'
    <3>1. p \in ptAccess /\ p = <<p[1], p[2]>> /\ p # <<u, v>> /\ p # <<v, u>>
      BY <2>1 DEF AccessOK
    <3>2. <<p[2], p[1]>> # <<u, v>> /\ <<p[2], p[1]>> # <<v, u>>
      BY <3>1
    <3>3. Half(p[1], p[2])' <=> Half(p[1], p[2])
      BY <2>1 DEF Half
    <3>. QED BY <2>1, <3>1, <3>2, <3>3 DEF AccessOK, AccessMutual
  <2>. QED BY <2>1, <2>2, <2>3 DEF AccessOK, AccessMutual
<1>8. ASSUME NEW u \in VpnUsers, DeleteUser(u) PROVE AccessOK'
  <2>1. /\ ptAccess' = {p \in ptAccess : u \notin {p[1], p[2]}} /\ ptUsers' = ptUsers \ {u} /\ UNCHANGED <<ptTopic, ptEdits>>
        /\ ptSlips \subseteq ptSlips'
    BY <1>8 DEF DeleteUser
  <2>2. ASSUME NEW e \in Editors, ptEdits[e].op \in {"second", "checked"}, ptEdits[e].key \in ptUsers', ptEdits[e].via \in ptUsers'
        PROVE  <<ptEdits[e].via, ptEdits[e].key>> \in ptAccess' \/ "half" \in ptSlips'
    BY <2>1, <2>2 DEF AccessOK
  <2>3. ASSUME NEW p \in ptAccess' PROVE <<p[2], p[1]>> \in ptAccess' \/ Half(p[1], p[2])' \/ "half" \in ptSlips'
    <3>1. Half(p[1], p[2])' <=> Half(p[1], p[2])
      BY <2>1 DEF Half
    <3>. QED BY <2>1, <3>1 DEF AccessOK, AccessMutual
  <2>. QED BY <2>1, <2>2, <2>3 DEF AccessOK, AccessMutual
<1>9. ASSUME NEW e \in Editors, AddPeerAccess(e) \/ AskSecond(e) PROVE AccessOK'
  <2>. DEFINE k == ptEdits[e].key  v == ptEdits[e].via
  <2>1. /\ ptEdits[e].op \in {"first", "second", "checked"} /\ k \in VpnUsers /\ v \in VpnUsers /\ ptTopic = "access"
        /\ Valid({k, v}) <=> (k \in ptUsers /\ v \in ptUsers)
        /\ UNCHANGED <<ptTopic, ptUsers, ptSlips>>
        /\ \A f \in Editors : f # e => ptEdits'[f] = ptEdits[f]
    BY <1>0, <1>9, ValidPair DEF AddPeerAccess, AskSecond, KeepTables
  <2>2. \/ ~Valid({k, v}) /\ ptAccess' = ptAccess /\ ptEdits'[e].op = "none"
        \/ /\ Valid({k, v}) /\ ptEdits[e].op = "first" /\ ptAccess' = ptAccess \cup {<<k, v>>}
           /\ ptEdits'[e].op = "second" /\ ptEdits'[e].key = v /\ ptEdits'[e].via = k
        \/ /\ Valid({k, v}) /\ ptEdits[e].op = "checked" /\ ptAccess' = ptAccess \cup {<<k, v>>}
           /\ ptEdits'[e].op = "none"
        \/ /\ Valid({k, v}) /\ ptEdits[e].op = "second" /\ ptAccess' = ptAccess
           /\ ptEdits'[e].op = "checked" /\ ptEdits'[e].key = k /\ ptEdits'[e].via = v
    <3>0. ptEdits[e] \in PtEdits
      BY <1>0
    <3>1. CASE AddPeerAccess(e)
      <4>1. CASE ~Valid({k, v})
        BY <1>0, <3>1, <4>1, NoEditOK DEF AddPeerAccess
      <4>2. CASE Valid({k, v}) /\ ptEdits[e].op = "first"
        <5>1. ptEdits'[e] = [ptEdits[e] EXCEPT !.op = "second", !.key = v, !.via = k] /\ ptAccess' = ptAccess \cup {<<k, v>>}
          BY <1>0, <3>1, <4>2 DEF AddPeerAccess
        <5>. QED BY <3>0, <4>2, <5>1 DEF PtEdits
      <4>3. CASE Valid({k, v}) /\ ptEdits[e].op = "checked"
        BY <1>0, <3>1, <4>3, NoEditOK DEF AddPeerAccess
      <4>. QED BY <3>1, <4>1, <4>2, <4>3 DEF AddPeerAccess
    <3>2. CASE AskSecond(e)
      <4>1. CASE ~Valid({k, v})
        BY <1>0, <3>2, <4>1, NoEditOK DEF AskSecond, KeepTables
      <4>2. CASE Valid({k, v})
        <5>1. ptEdits'[e] = [ptEdits[e] EXCEPT !.op = "checked"] /\ ptAccess' = ptAccess /\ ptEdits[e].op = "second"
          BY <1>0, <3>2, <4>2 DEF AskSecond, KeepTables
        <5>. QED BY <3>0, <4>2, <5>1 DEF PtEdits
      <4>. QED BY <4>1, <4>2
    <3>. QED BY <1>9, <3>1, <3>2
  <2>. HIDE DEF k, v
  <2>3. ptAccess \subseteq ptAccess' /\ \A p \in ptAccess' : p \in ptAccess \/ (p = <<k, v>> /\ Valid({k, v}))
    BY <2>2
  <2>4. \A p \in ptAccess' : p = <<p[1], p[2]>> /\ p[1] \in ptUsers' /\ p[2] \in ptUsers'
    <3>1. ASSUME NEW p, p = <<k, v>>, Valid({k, v}) PROVE p = <<p[1], p[2]>> /\ p[1] \in ptUsers' /\ p[2] \in ptUsers'
      BY <2>1, <3>1
    <3>2. ASSUME NEW p \in ptAccess PROVE p = <<p[1], p[2]>> /\ p[1] \in ptUsers' /\ p[2] \in ptUsers'
      BY <2>1, <3>2 DEF AccessOK
    <3>. QED BY <2>3, <3>1, <3>2
  <2>5. ASSUME NEW f \in Editors, ptEdits'[f].op \in {"second", "checked"}, ptEdits'[f].key \in ptUsers', ptEdits'[f].via \in ptUsers'
        PROVE  <<ptEdits'[f].via, ptEdits'[f].key>> \in ptAccess' \/ "half" \in ptSlips'
    <3>1. CASE f # e
      BY <2>1, <2>3, <2>5, <3>1 DEF AccessOK
    <3>2. CASE f = e /\ ptEdits[e].op = "first"
      BY <2>2, <2>5, <3>2
    <3>3. CASE f = e /\ ptEdits[e].op = "second"
      <4>1. ptEdits'[e].key = k /\ ptEdits'[e].via = v /\ k \in ptUsers /\ v \in ptUsers
        BY <2>1, <2>2, <2>5, <3>3
      <4>2. <<v, k>> \in ptAccess \/ "half" \in ptSlips
        BY <3>3, <4>1 DEF AccessOK, k, v
      <4>. QED BY <2>1, <2>3, <3>3, <4>1, <4>2
    <3>. QED BY <2>1, <2>2, <2>5, <3>1, <3>2, <3>3
  <2>6. ASSUME NEW p \in ptAccess, {p[1], p[2]} = {k, v}, ptEdits[e].op \in {"second", "checked"}
        PROVE  <<p[2], p[1]>> \in ptAccess' \/ Half(p[1], p[2])' \/ "half" \in ptSlips'
    <3>1. Valid({k, v}) /\ k \in ptUsers /\ v \in ptUsers /\ p = <<p[1], p[2]>>
      BY <2>1, <2>6 DEF AccessOK
    <3>2. <<v, k>> \in ptAccess \/ "half" \in ptSlips
      BY <2>6, <3>1 DEF AccessOK, k, v
    <3>3. CASE ptEdits[e].op = "checked"
      <4>1. <<k, v>> \in ptAccess'
        BY <2>2, <3>1, <3>3
      <4>. QED BY <2>1, <2>3, <2>6, <3>2, <4>1
    <3>4. CASE ptEdits[e].op = "second"
      <4>1. ptEdits'[e].op = "checked" /\ ptEdits'[e].key = k /\ ptEdits'[e].via = v
        BY <2>2, <3>1, <3>4
      <4>. QED BY <2>6, <4>1 DEF Half
    <3>. QED BY <2>6, <3>3, <3>4
  <2>7. ASSUME NEW p \in ptAccess' PROVE <<p[2], p[1]>> \in ptAccess' \/ Half(p[1], p[2])' \/ "half" \in ptSlips'
    <3>1. CASE p \in ptAccess
      <4>1. CASE <<p[2], p[1]>> \in ptAccess \/ "half" \in ptSlips
        BY <2>1, <2>3, <4>1
      <4>2. CASE Half(p[1], p[2])
        <5>1. PICK f \in Editors : ptEdits[f].op \in {"second", "checked"} /\ {ptEdits[f].key, ptEdits[f].via} = {p[1], p[2]}
          BY <4>2 DEF Half
        <5>2. CASE f # e
          BY <2>1, <5>1, <5>2 DEF Half
        <5>3. CASE f = e
          BY <2>6, <3>1, <5>1, <5>3 DEF k, v
        <5>. QED BY <5>2, <5>3
      <4>. QED BY <3>1, <4>1, <4>2 DEF AccessOK, AccessMutual
    <3>2. CASE p = <<k, v>> /\ Valid({k, v}) /\ p \notin ptAccess
      <4>1. p[1] = k /\ p[2] = v /\ k \in ptUsers /\ v \in ptUsers
        BY <2>1, <3>2
      <4>2. CASE ptEdits[e].op = "first"
        <5>1. ptEdits'[e].op = "second" /\ ptEdits'[e].key = v /\ ptEdits'[e].via = k
          BY <2>2, <3>2, <4>2
        <5>. QED BY <4>1, <5>1 DEF Half
      <4>3. CASE ptEdits[e].op = "checked"
        <5>1. <<v, k>> \in ptAccess \/ "half" \in ptSlips
          BY <4>1, <4>3 DEF AccessOK, k, v
        <5>. QED BY <2>1, <2>3, <4>1, <5>1
      <4>4. CASE ptEdits[e].op = "second"
        BY <2>2, <3>2, <4>4
      <4>. QED BY <2>1, <4>2, <4>3, <4>4
    <3>. QED BY <2>3, <3>1, <3>2
  <2>. QED BY <2>1, <2>4, <2>5, <2>7 DEF AccessOK, AccessMutual
<1>. QED BY <1>2, <1>3, <1>4, <1>5, <1>6, <1>7, <1>8, <1>9, PtNextIs

(* The first row of a key. *)
LessThan == {ss \in Nat \X Nat : ss[1] < ss[2]}

LEMMA LessThanWellFounded == IsWellFoundedOn(LessThan, Nat)
BY NatLessThanWellFounded DEF OpToRel, LessThan

LEMMA FirstOfKey ==
  ASSUME OldOK, NEW k \in DOMAIN ptOld
  PROVE  \E f \in Firsts : Trim[ptOld[f].dest] = Trim[ptOld[k].dest] /\ ptOld[f].via = ptOld[k].via
<1>. DEFINE Same == {i \in DOMAIN ptOld : Trim[ptOld[i].dest] = Trim[ptOld[k].dest] /\ ptOld[i].via = ptOld[k].via}
<1>1. Same \subseteq Nat /\ k \in Same
  BY OldRows
<1>2. PICK f \in Same : \A j \in Same : <<j, f>> \notin LessThan
  BY <1>1, LessThanWellFounded, WFMin, Zenon
<1>3. \A j \in Same : ~(j < f)
  BY <1>1, <1>2 DEF LessThan
<1>4. f \in Nat /\ f \in DOMAIN ptOld
  BY <1>1, <1>2
<1>5. ASSUME NEW j \in 1..(f - 1) PROVE Trim[ptOld[j].dest] # Trim[ptOld[f].dest] \/ ptOld[j].via # ptOld[f].via
  <2>1. j < f /\ j \in DOMAIN ptOld
    <3>1. PICK n \in Nat : DOMAIN ptOld = 1..n
      BY DEF OldOK
    <3>. QED BY <1>4, <3>1
  <2>. QED BY <1>2, <1>3, <2>1
<1>. QED BY <1>2, <1>4, <1>5 DEF Firsts

(* The routes of an account, in the two forms of the table. *)
RoutesOf(u) == {<<ptRoutes[i].dest, ptRoutes[i].via>> : i \in {j \in Ids : ptRoutes[j].members \cap {u, Everyone} # {}}}
OldRoutesOf(u) == {<<Trim[ptOld[i].dest], ptOld[i].via>> : i \in {j \in DOMAIN ptOld : ptOld[j].user \in {u, Everyone}}}

LEMMA MigrateKeeps ==
  ASSUME TableTypes, Migrate, NEW u \in VpnUsers
  PROVE  RoutesOf(u)' = OldRoutesOf(u)
<1>. USE DEF TableTypes
<1>1. PICK n \in Ids : \E order \in [1..n -> Firsts] :
          /\ \A f \in Firsts : \E i \in 1..n : order[i] = f
          /\ ptRoutes' = [i \in Ids |-> IF i <= n THEN MigratedFrom(order[i]) ELSE NoRoute]
  BY DEF Migrate
<1>2. PICK order \in [1..n -> Firsts] :
          /\ \A f \in Firsts : \E i \in 1..n : order[i] = f
          /\ ptRoutes' = [i \in Ids |-> IF i <= n THEN MigratedFrom(order[i]) ELSE NoRoute]
  BY <1>1
<1>3. \A i \in Ids : i \in Nat /\ (i <= n => i \in 1..n) /\ (~(i <= n) => ptRoutes'[i].members = {})
  <2>1. \A i \in Ids : i \in Nat /\ (i <= n => i \in 1..n)
    BY Bounded DEF Ids
  <2>2. \A i \in Ids : ~(i <= n) => ptRoutes'[i] = NoRoute
    BY <1>2
  <2>. QED BY <2>1, <2>2, EmptyRoute
<1>4. \A i \in 1..n : i \in Ids /\ i <= n /\ order[i] \in DOMAIN ptOld /\ ptRoutes'[i] = MigratedFrom(order[i])
  BY <1>2, Bounded DEF Ids, Firsts
<1>5. ASSUME NEW i \in 1..n
      PROVE  /\ ptRoutes'[i].dest = Trim[ptOld[order[i]].dest] /\ ptRoutes'[i].via = ptOld[order[i]].via
             /\ ptRoutes'[i].members = {ptOld[j].user : j \in {k \in DOMAIN ptOld :
                    Trim[ptOld[k].dest] = Trim[ptOld[order[i]].dest] /\ ptOld[k].via = ptOld[order[i]].via}}
  BY <1>4, MigratedIs
<1>6. ASSUME NEW i \in Ids, ptRoutes'[i].members \cap {u, Everyone} # {}
      PROVE  <<ptRoutes'[i].dest, ptRoutes'[i].via>> \in OldRoutesOf(u)
  <2>1. i \in 1..n
    BY <1>3, <1>6
  <2>2. PICK k \in DOMAIN ptOld : /\ ptOld[k].user \in {u, Everyone} /\ Trim[ptOld[k].dest] = Trim[ptOld[order[i]].dest]
                                 /\ ptOld[k].via = ptOld[order[i]].via
    BY <1>5, <1>6, <2>1
  <2>3. <<ptRoutes'[i].dest, ptRoutes'[i].via>> = <<Trim[ptOld[k].dest], ptOld[k].via>>
    BY <1>5, <2>1, <2>2
  <2>. QED BY <2>2, <2>3 DEF OldRoutesOf
<1>7. ASSUME NEW k \in DOMAIN ptOld, ptOld[k].user \in {u, Everyone}
      PROVE  \E i \in Ids : /\ ptRoutes'[i].members \cap {u, Everyone} # {}
                            /\ <<ptRoutes'[i].dest, ptRoutes'[i].via>> = <<Trim[ptOld[k].dest], ptOld[k].via>>
  <2>1. PICK f \in Firsts : Trim[ptOld[f].dest] = Trim[ptOld[k].dest] /\ ptOld[f].via = ptOld[k].via
    BY FirstOfKey
  <2>2. PICK i \in 1..n : order[i] = f
    BY <1>2
  <2>3. ptOld[k].user \in ptRoutes'[i].members
    BY <1>5, <2>1, <2>2
  <2>4. <<ptRoutes'[i].dest, ptRoutes'[i].via>> = <<Trim[ptOld[k].dest], ptOld[k].via>>
    BY <1>5, <2>1, <2>2
  <2>. QED BY <1>4, <1>7, <2>3, <2>4
<1>8. RoutesOf(u)' \subseteq OldRoutesOf(u)
  BY <1>6 DEF RoutesOf
<1>9. OldRoutesOf(u) \subseteq RoutesOf(u)'
  BY <1>7 DEF OldRoutesOf, RoutesOf
<1>. QED BY <1>8, <1>9

LEMMA RoutesKeptStep == TableTypes /\ RoutesKept /\ [PtNext]_ptVars => RoutesKept'
<1>. SUFFICES ASSUME TableTypes, RoutesKept, [PtNext]_ptVars PROVE RoutesKept'
  OBVIOUS
<1>. USE DEF TableTypes
<1>1. CASE "edited" \in ptSlips'
  BY <1>1 DEF RoutesKept
<1>2. ASSUME UNCHANGED <<ptRoutes, ptOld>>, "edited" \in ptSlips => "edited" \in ptSlips', "migrated" \in ptSlips' => "migrated" \in ptSlips
      PROVE  RoutesKept'
  BY <1>2 DEF RoutesKept
<1>3. CASE Migrate
  <2>1. ptOld' = ptOld /\ \A u \in VpnUsers : RoutesOf(u)' = OldRoutesOf(u)
    BY <1>3, MigrateKeeps DEF Migrate
  <2>2. \A u \in VpnUsers : RoutesOf(u)' = OldRoutesOf(u)'
    BY <2>1 DEF OldRoutesOf
  <2>. QED BY <2>2 DEF RoutesKept, RoutesOf, OldRoutesOf
<1>4. CASE \E e \in Editors : Asking(e)
  BY <1>2, <1>4, AskedIs
<1>5. CASE \E e \in Editors : InsertPeerRoute(e) \/ ReplacePeerRouteMembers(e)
  BY <1>1, <1>5 DEF InsertPeerRoute, ReplacePeerRouteMembers
<1>6. CASE \E e \in Editors : CreateDNSServer(e) \/ ReplaceDNSServerMembers(e) \/ ReplaceDNSServerExcludes(e) \/ AddPeerAccess(e) \/ AskSecond(e)
  BY <1>2, <1>6 DEF CreateDNSServer, ReplaceDNSServerMembers, ReplaceDNSServerExcludes, AddPeerAccess, AskSecond, KeepTables
<1>7. CASE (\E i \in Ids : DeletePeerRoute(i)) \/ \E u \in VpnUsers : DeleteUser(u)
  BY <1>1, <1>7 DEF DeletePeerRoute, DeleteUser
<1>8. CASE (\E i \in Ids : DeleteDNSServer(i)) \/ (\E u, v \in VpnUsers : RemovePeerAccessPair(u, v)) \/ StopHalfWay
           \/ (\E yaml \in SUBSET Ips : Boot(yaml)) \/ UNCHANGED ptVars
  BY <1>2, <1>8 DEF DeleteDNSServer, Unserved, RemovePeerAccessPair, StopHalfWay, Boot, ptVars
<1>. QED BY <1>3, <1>4, <1>5, <1>6, <1>7, <1>8, PtNextIs DEF Saving

(* The invariant of the tables: rows and edits as the handlers leave them. *)
PtInv ==
    /\ TableTypes /\ EditsFit /\ Named
    /\ ConfigRows /\ FileServed /\ OneRow /\ ForSomebody /\ NoneHidden
    /\ AccessOK /\ RoutesKept

LEMMA PtInitially == PtInit => PtInv
<1>. SUFFICES ASSUME PtInit PROVE PtInv
  OBVIOUS
<1>1. /\ ptUsers = VpnUsers /\ ptYaml = {} /\ ptDns = [i \in Ids |-> NoRow] /\ ptRoutes = [i \in Ids |-> NoRoute]
      /\ ptAccess = {} /\ ptNext = 1 /\ ptEdits = [e \in Editors |-> NoEdit] /\ ptSlips = {}
  BY DEF PtInit
<1>2. UsersOK
  BY <1>1, Bounded DEF UsersOK
<1>3. EditsOK
  BY <1>1, NoEditOK DEF EditsOK
<1>4. OldOK
  <2>1. PICK n \in 0..MaxOld : ptOld \in [1..n -> [user : VpnUsers \cup {Everyone}, dest : Spellings, via : VpnUsers]]
    BY DEF PtInit
  <2>2. n \in Nat
    BY <2>1
  <2>3. ptOld # <<>> => ptTopic = "route"
    BY DEF PtInit
  <2>. QED BY <1>1, <2>1, <2>2, <2>3 DEF OldOK
<1>5. DnsOK /\ RoutesOK
  BY <1>1, EmptyRow, EmptyRoute DEF DnsOK, RoutesOK
<1>6. EditsFit
  BY <1>1, NoEditOK DEF EditsFit
<1>7. Named
  BY <1>1, NoEditOK, EmptyRow, EmptyRoute DEF Named
<1>8. ConfigRows /\ FileServed /\ OneRow /\ ForSomebody /\ NoneHidden
  BY <1>1, EmptyRow DEF ConfigRows, FileServed, OneRow, ForSomebody, NoneHidden
<1>9. AccessOK /\ RoutesKept
  BY <1>1, NoEditOK DEF AccessOK, AccessMutual, RoutesKept
<1>. QED BY <1>2, <1>3, <1>4, <1>5, <1>6, <1>7, <1>8, <1>9 DEF PtInv, TableTypes

LEMMA PtStep == PtInv /\ [PtNext]_ptVars => PtInv'
BY TypesStep, EditsFitStep, NamedStep, ConfigStep, ServedStep, OneRowStep, SomebodyStep, HiddenStep, AccessStep, RoutesKeptStep DEF PtInv

LEMMA PtInvAgrees == PtInv => TablesAgree
<1>. SUFFICES ASSUME PtInv PROVE TablesAgree
  OBVIOUS
<1>. USE DEF PtInv
<1>1. NoGhosts
  <2>1. \A i \in Ids : /\ ptDns[i].members \subseteq Known /\ ptDns[i].excludes \subseteq Known
                       /\ ptRoutes[i].members \subseteq Known /\ (ptRoutes[i].via # "" => ptRoutes[i].via \in Known)
    BY DEF Named
  <2>2. \A p \in ptAccess : p[1] \in Known /\ p[2] \in Known
    BY DEF AccessOK, Known
  <2>3. UNION {ptDns[i].members \cup ptDns[i].excludes \cup ptRoutes[i].members : i \in Ids} \subseteq Known
    BY <2>1
  <2>4. ({ptRoutes[i].via : i \in Ids} \ {""}) \subseteq Known
    BY <2>1
  <2>5. {p[1] : p \in ptAccess} \subseteq Known /\ {p[2] : p \in ptAccess} \subseteq Known
    BY <2>2
  <2>6. (UNION {ptDns[i].members \cup ptDns[i].excludes \cup ptRoutes[i].members : i \in Ids})
           \cup {p[1] : p \in ptAccess} \cup {p[2] : p \in ptAccess} \cup ({ptRoutes[i].via : i \in Ids} \ {""}) \subseteq Known
    BY <2>3, <2>4, <2>5, Zenon
  <2>. QED BY <2>6 DEF NoGhosts, Known
<1>2. DnsFollowsFile
  BY DEF ConfigRows, FileServed, OneRow, DnsFollowsFile
<1>3. DnsForSomebody
  BY DEF ForSomebody, NoneHidden, DnsForSomebody
<1>4. AccessMutual /\ RoutesKept
  BY DEF AccessOK
<1>. QED BY <1>1, <1>2, <1>3, <1>4 DEF TablesAgree

(* The tables agree with the accounts, with server.yaml and each other,    *)
(* whatever is edited or deleted between the check of an edit and its      *)
(* transaction, but for the exceptions that the slips record               *)
(* (vpnaccount's DNS and route handlers, database's migration).            *)
THEOREM TablesKept == PtSpec => []TablesAgree
<1>1. PtInit => PtInv
  BY PtInitially
<1>2. PtInv /\ [PtNext]_ptVars => PtInv'
  BY PtStep
<1>3. PtInv => TablesAgree
  BY PtInvAgrees
<1>. QED BY <1>1, <1>2, <1>3, PTL DEF PtSpec
=============================================================================
