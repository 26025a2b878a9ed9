-------------------------- MODULE PolicyPushProofs --------------------------
(***************************************************************************)
(* Proofs about PolicyPush: for any accounts and any order of requests.    *)
(***************************************************************************)
EXTENDS PolicyPush, TLAPS

Stale(u) == sess[u] = "stale" \/ hsCopy[u] = "stale"

(* What a running Apply is about to clear is up to date, unless it was marked again, *)
(* a save is about to mark it, or a change to kick it.                     *)
ClearedIsFresh ==
    applier.pc # "idle" => \A u \in applier.clear :
        Stale(u) => u \in applier.late \/ Covers(toMark, u) \/ toKick = u

PolicyInv == PolicyTypeOK /\ StaleIsPending /\ ClearedIsFresh

-----------------------------------------------------------------------------
(* The union of two member lists covers whom either covers. *)
LEMMA UnionCovers ==
  ASSUME NEW a \in Members, NEW b \in Members
  PROVE  /\ Union(a, b) \in Members
         /\ \A u \in Users : Covers(Union(a, b), u) <=> Covers(a, u) \/ Covers(b, u)
  BY PolicyConstants DEF Union, Members, Covers

(* A save that marks everyone whose policy it replaces keeps the invariant. *)
LEMMA SaveKeeps ==
  ASSUME PolicyInv, NEW us, NEW after, Replaced(us, after),
         toMark = {}, toMark' \in Members, \A u \in Users \cap us : Covers(toMark', u),
         subject' = subject, route' \in Members,
         dns' \in [members : Members, excludes : SUBSET Users],
         access' \subseteq Pairs, UNCHANGED <<enabled, hs, ids, all, toKick, applier>>
  PROVE  PolicyInv'
<1>1. PolicyTypeOK'
  BY DEF PolicyInv, PolicyTypeOK, Replaced
<1>2. \A u \in Users : Stale(u)' => Stale(u) \/ Covers(toMark', u)
  BY DEF PolicyInv, PolicyTypeOK, Replaced, Stale
<1>3. \A u \in Users : ~Covers(toMark, u)
  BY DEF Covers
<1>4. StaleIsPending'
  BY <1>2, <1>3 DEF PolicyInv, StaleIsPending, Pending, Stale, Covers
<1>5. ClearedIsFresh'
  BY <1>2, <1>3 DEF PolicyInv, PolicyTypeOK, ClearedIsFresh, Covers
<1> QED BY <1>1, <1>4, <1>5 DEF PolicyInv

(* A step that makes no copy stale and takes no mark away. *)
LEMMA QuietKeeps ==
  ASSUME PolicyInv, PolicyTypeOK', UNCHANGED <<ids, all, toMark, toKick>>,
         \A u \in Users : Stale(u)' => Stale(u),
         \A u \in applier'.clear : u \in Users /\ (Stale(u)' => u \in applier.clear),
         applier.pc # "idle" \/ applier' = applier, applier'.late = applier.late
  PROVE  PolicyInv'
<1>1. StaleIsPending'
  BY DEF PolicyInv, StaleIsPending, Pending, Stale, Covers
<1>2. ClearedIsFresh'
  BY DEF PolicyInv, ClearedIsFresh, Covers
<1> QED BY <1>1, <1>2 DEF PolicyInv

-----------------------------------------------------------------------------
LEMMA InitInv == Init => PolicyInv
<1> SUFFICES ASSUME Init PROVE PolicyInv
  OBVIOUS
<1>1. PolicyTypeOK
  BY DEF Init, PolicyTypeOK, NoDNS, Members, Quiescent
<1>2. \A u \in Users : ~Stale(u)
  BY DEF Init, Stale
<1> QED BY <1>1, <1>2 DEF PolicyInv, StaleIsPending, ClearedIsFresh, Init, Quiescent, Stale

LEMMA ClientInv ==
  ASSUME PolicyInv, NEW u \in Users, Client(u)
  PROVE  PolicyInv'
<1> USE DEF PolicyInv
<1>1. PolicyTypeOK'
  <2>1. CASE Authenticate(u)
    BY <2>1 DEF Authenticate, PolicyTypeOK, db
  <2>2. CASE Resolve(u)
    BY <2>2 DEF Resolve, PolicyTypeOK, db
  <2>3. CASE RegisterVPN(u)
    BY <2>3 DEF RegisterVPN, PolicyTypeOK, db
  <2>4. CASE Rejected(u)
    BY <2>4 DEF Rejected, PolicyTypeOK, db
  <2>5. CASE Disconnect(u)
    BY <2>5 DEF Disconnect, PolicyTypeOK, db
  <2> QED BY <2>1, <2>2, <2>3, <2>4, <2>5 DEF Client
<1>2. UNCHANGED <<ids, all, toMark, toKick, applier>>
  BY DEF Client, Authenticate, Resolve, RegisterVPN, Rejected, Disconnect
<1>3. \A w \in Users : Stale(w)' => Stale(w)
  BY DEF Client, Authenticate, Resolve, RegisterVPN, Rejected, Disconnect, PolicyTypeOK, Stale
<1>4. applier.clear \subseteq Users
  BY DEF PolicyTypeOK
<1> QED BY <1>1, <1>2, <1>3, <1>4, QuietKeeps DEF ClearedIsFresh

LEMMA SaveInv ==
  ASSUME PolicyInv, Save
  PROVE  PolicyInv'
<1> USE DEF PolicyInv
<1>1. ASSUME NEW members \in Members, SaveRoute(members) PROVE PolicyInv'
  <2>1. Union(route, members) \in Members /\ \A u \in Users :
          Covers(Union(route, members), u) <=> Covers(route, u) \/ Covers(members, u)
    BY <1>1, UnionCovers DEF PolicyTypeOK
  <2>2. \A u \in Users : u \in {w \in Users : Covers(members, w) <=> ~Covers(route, w)} =>
          Covers(toMark', u)
    BY <1>1, <2>1 DEF SaveRoute, RouteMarks
  <2> QED BY <1>1, <2>1, <2>2, SaveKeeps DEF SaveRoute, RouteMarks, PolicyTypeOK
<1>2. ASSUME NEW members \in Members, SaveDNSMembers(members) PROVE PolicyInv'
  <2> DEFINE d == [members |-> members,
                   excludes |-> IF Everyone \in members THEN dns.excludes ELSE {}]
  <2>1. Union(dns.members, members) \in Members /\ \A u \in Users :
          Covers(Union(dns.members, members), u) <=> Covers(dns.members, u) \/ Covers(members, u)
    BY <1>2, UnionCovers DEF PolicyTypeOK
  <2>2. d \in [members : Members, excludes : SUBSET Users]
    BY <1>2 DEF PolicyTypeOK
  <2>3. \A u \in Users : (DNSGiven(d, u) <=> ~DNSGiven(dns, u)) =>
          Covers(dns.members, u) \/ Covers(members, u)
    BY DEF DNSGiven, Covers
  <2>4. Replaced({u \in Users : DNSGiven(d, u) <=> ~DNSGiven(dns, u)}, {"dns"})
    BY <1>2 DEF SaveDNSMembers
  <2>5. /\ toMark = {} /\ dns' = d /\ toMark' = Union(dns.members, members)
        /\ UNCHANGED <<subject, route, access, enabled, hs, ids, all, toKick, applier>>
    BY <1>2 DEF SaveDNSMembers
  <2>6. \A u \in Users \cap {w \in Users : DNSGiven(d, w) <=> ~DNSGiven(dns, w)} :
          Covers(toMark', u)
    BY <2>1, <2>3, <2>5
  <2>7. /\ route' \in Members /\ access' \subseteq Pairs /\ toMark' \in Members
        /\ dns' \in [members : Members, excludes : SUBSET Users]
    BY <2>1, <2>2, <2>5 DEF PolicyTypeOK
  <2> HIDE DEF d
  <2> QED BY <2>4, <2>5, <2>6, <2>7, SaveKeeps
<1>3. ASSUME NEW members \in Members, NEW excludes \in SUBSET Users,
             SaveDNS([members |-> members, excludes |-> excludes])
      PROVE PolicyInv'
  <2> DEFINE d == [members |-> members, excludes |-> excludes]
             given == IF dns = NoDNS THEN d ELSE dns
  <2>1. d \in [members : Members, excludes : SUBSET Users]
    OBVIOUS
  <2>2. given \in [members : Members, excludes : SUBSET Users]
    BY <2>1 DEF PolicyTypeOK
  <2>3. toMark' \in Members /\ \A u \in Users : Covers(given.members, u) => Covers(toMark', u)
    BY <1>3, <2>2, PolicyConstants DEF SaveDNS, DNSMarks, Members, Covers
  <2>4. \A u \in Users : (DNSGiven(d, u) <=> ~DNSGiven(dns, u)) => Covers(given.members, u)
    BY <1>3 DEF SaveDNS, DNSGiven, Covers, NoDNS
  <2>5. Replaced({u \in Users : DNSGiven(d, u) <=> ~DNSGiven(dns, u)}, {"dns"})
    BY <1>3 DEF SaveDNS
  <2>6. \A u \in Users \cap {w \in Users : DNSGiven(d, w) <=> ~DNSGiven(dns, w)} :
          Covers(toMark', u)
    BY <2>3, <2>4
  <2>7. /\ toMark = {} /\ dns' = d
        /\ UNCHANGED <<subject, route, access, enabled, hs, ids, all, toKick, applier>>
    BY <1>3 DEF SaveDNS
  <2>8. /\ route' \in Members /\ access' \subseteq Pairs /\ toMark' \in Members
        /\ dns' \in [members : Members, excludes : SUBSET Users]
    BY <2>1, <2>3, <2>7 DEF PolicyTypeOK
  <2> HIDE DEF d, given
  <2> QED BY <2>5, <2>6, <2>7, <2>8, SaveKeeps
<1>4. ASSUME NEW excludes \in SUBSET Users, SaveDNSExcludes(excludes) PROVE PolicyInv'
  <2> DEFINE d == [dns EXCEPT !.excludes = excludes]
  <2>1. d \in [members : Members, excludes : SUBSET Users] /\ d.members = dns.members
        /\ d.excludes = excludes
    BY <1>4 DEF PolicyTypeOK
  <2>2. toMark' \in SUBSET Users
    BY <1>4 DEF SaveDNSExcludes, PolicyTypeOK
  <2>3. \A u \in Users : (DNSGiven(d, u) <=> ~DNSGiven(dns, u)) => Covers(toMark', u)
    BY <1>4, <2>1 DEF SaveDNSExcludes, DNSGiven, Covers
  <2>4. Replaced({u \in Users : DNSGiven(d, u) <=> ~DNSGiven(dns, u)}, {"dns"})
    BY <1>4 DEF SaveDNSExcludes
  <2>5. /\ toMark = {} /\ dns' = d
        /\ UNCHANGED <<subject, route, access, enabled, hs, ids, all, toKick, applier>>
    BY <1>4 DEF SaveDNSExcludes
  <2>6. \A u \in Users \cap {w \in Users : DNSGiven(d, w) <=> ~DNSGiven(dns, w)} :
          Covers(toMark', u)
    BY <2>3
  <2>7. /\ route' \in Members /\ access' \subseteq Pairs /\ toMark' \in Members
        /\ dns' \in [members : Members, excludes : SUBSET Users]
    BY <2>1, <2>2, <2>5 DEF PolicyTypeOK, Members
  <2> HIDE DEF d
  <2> QED BY <2>4, <2>5, <2>6, <2>7, SaveKeeps
<1>5. ASSUME NEW p \in Pairs, NEW allowed \in BOOLEAN, SaveAccess(p, allowed) PROVE PolicyInv'
  <2>1. p \in SUBSET Users
    BY DEF Pairs
  <2>2. access' \subseteq Pairs
    BY <1>5 DEF SaveAccess, PolicyTypeOK
  <2>3. PICK us \in {{}, p} : Replaced(us, {"access", "route", "dns"})
    BY <1>5 DEF SaveAccess
  <2>4. /\ toMark = {} /\ toMark' = p
        /\ UNCHANGED <<subject, route, dns, enabled, hs, ids, all, toKick, applier>>
    BY <1>5 DEF SaveAccess
  <2>5. /\ route' \in Members /\ toMark' \in Members
        /\ dns' \in [members : Members, excludes : SUBSET Users]
    BY <2>1, <2>4 DEF PolicyTypeOK, Members
  <2>6. \A u \in Users \cap us : Covers(toMark', u)
    BY <2>4 DEF Covers
  <2> QED BY <2>2, <2>3, <2>4, <2>5, <2>6, SaveKeeps
<1>6. CASE Mark
  <2>1. \A u \in Users : Covers(toMark, u) => u \in ids' \/ all'
    BY <1>6 DEF Mark, Covers
  <2>2. PolicyTypeOK'
    <3>1. ids' \subseteq Users
      <4>1. ids' = ids \cup (toMark \ {Everyone})
        BY <1>6 DEF Mark
      <4>2. ids \subseteq Users /\ toMark \in Members
        BY DEF PolicyTypeOK
      <4>3. toMark \subseteq Users \/ toMark = {Everyone}
        BY <4>2 DEF Members
      <4> QED BY <4>1, <4>2, <4>3
    <3>2. all' \in BOOLEAN
      <4>1. all' = (all \/ Everyone \in toMark)
        BY <1>6 DEF Mark
      <4> QED BY <4>1
    <3>3. toMark' \in Members
      BY <1>6 DEF Mark, Members
    <3>4. applier' \in [pc : {"idle", "directory", "list", "kick"}, force : BOOLEAN,
                       ids : SUBSET Users, kick : SUBSET Users, clear : SUBSET Users,
                       late : SUBSET Users]
      BY <1>6 DEF Mark, PolicyTypeOK
    <3> QED BY <1>6, <3>1, <3>2, <3>3, <3>4 DEF Mark, PolicyTypeOK, db
  <2>3. \A u \in Users : Stale(u)' <=> Stale(u)
    BY <1>6 DEF Mark, Stale
  <2>4. StaleIsPending'
    BY <1>6, <2>1 DEF Mark, StaleIsPending, Pending, Covers
  <2>5. ClearedIsFresh'
    <3>1. CASE applier.pc = "idle"
      BY <3>1, <1>6 DEF Mark, ClearedIsFresh
    <3>2. CASE applier.pc # "idle"
      <4>1. /\ applier'.clear = applier.clear /\ toKick' = toKick
            /\ applier'.late = applier.late \cup {u \in Users : Covers(toMark, u)}
        BY <3>2, <1>6 DEF Mark, PolicyTypeOK
      <4>2. applier.clear \subseteq Users
        BY DEF PolicyTypeOK
      <4>3. ASSUME NEW u \in applier'.clear, Stale(u)'
            PROVE  u \in applier'.late \/ toKick' = u
        BY <4>1, <4>2, <4>3, <3>2, <2>3 DEF ClearedIsFresh
      <4> QED BY <4>3 DEF ClearedIsFresh
    <3> QED BY <3>1, <3>2
  <2> QED BY <2>2, <2>4, <2>5
<1> QED BY <1>1, <1>2, <1>3, <1>4, <1>5, <1>6 DEF Save

LEMMA KickKeeps ==
  ASSUME PolicyTypeOK, NEW u \in Users, KickUser(u)
  PROVE  /\ sess' \in [Users -> {"off", "fresh", "stale", "lost"}]
         /\ hsCopy' \in [Users -> {"fresh", "stale", "lost"}]
         /\ \A w \in Users : Stale(w)' => Stale(w) /\ w # u
  BY DEF PolicyTypeOK, KickUser, Stale

LEMMA ChangeInv ==
  ASSUME PolicyInv, Change
  PROVE  PolicyInv'
<1> USE DEF PolicyInv
<1>1. ASSUME NEW u \in Users, ChangeAccount(u) PROVE PolicyInv'
  <2>1. /\ toKick = NoUser /\ toKick' = u
        /\ UNCHANGED <<subject, route, dns, access, hs, ids, all, toMark, applier>>
        /\ enabled' \in [Users -> BOOLEAN]
    BY <1>1 DEF ChangeAccount, PolicyTypeOK
  <2>2. \A w \in Users : Stale(w)' => Stale(w) \/ w = u
    BY <1>1 DEF ChangeAccount, Replaced, Stale, PolicyTypeOK
  <2>3. PolicyTypeOK'
    BY <1>1, <2>1 DEF ChangeAccount, Replaced, PolicyTypeOK
  <2>4. StaleIsPending'
    BY <2>1, <2>2, PolicyConstants DEF StaleIsPending, Pending, Stale, Covers
  <2>5. ClearedIsFresh'
    BY <2>1, <2>2, PolicyConstants DEF ClearedIsFresh, Covers, PolicyTypeOK
  <2> QED BY <2>3, <2>4, <2>5
<1>2. ASSUME NEW u \in Users, Enable(u) PROVE PolicyInv'
  <2>1. PolicyTypeOK'
    BY <1>2 DEF Enable, PolicyTypeOK
  <2>2. UNCHANGED <<hsCopy, sess, ids, all, toMark, toKick, applier>>
    BY <1>2 DEF Enable
  <2>3. applier.clear \subseteq Users
    BY DEF PolicyTypeOK
  <2> QED BY <2>1, <2>2, <2>3, QuietKeeps DEF Stale
<1>3. CASE KickChanged
  <2>1. toKick \in Users /\ KickUser(toKick)
    BY <1>3 DEF KickChanged, PolicyTypeOK
  <2>2. toKick' = NoUser /\ UNCHANGED <<db, hs, ids, all, toMark, applier>>
    BY <1>3 DEF KickChanged
  <2>3. PolicyTypeOK'
    BY <2>1, <2>2, KickKeeps DEF PolicyTypeOK, db
  <2>4. \A w \in Users : Stale(w)' => Stale(w) /\ w # toKick
    BY <2>1, KickKeeps
  <2>5. StaleIsPending'
    BY <2>2, <2>4 DEF StaleIsPending, Pending, Stale, Covers
  <2>6. ClearedIsFresh'
    BY <2>2, <2>4 DEF ClearedIsFresh, Covers, PolicyTypeOK
  <2> QED BY <2>3, <2>5, <2>6
<1> QED BY <1>1, <1>2, <1>3 DEF Change

LEMMA ApplyInv ==
  ASSUME PolicyInv, Apply
  PROVE  PolicyInv'
<1> USE DEF PolicyInv
<1>1. ASSUME NEW forceAll \in BOOLEAN, ApplySnapshot(forceAll) PROVE PolicyInv'
  <2>1. /\ applier' \in [pc : {"idle", "directory", "list", "kick"}, force : BOOLEAN,
                         ids : SUBSET Users, kick : SUBSET Users, clear : SUBSET Users,
                         late : SUBSET Users]
        /\ applier'.clear = {}
    <3>1. PICK force \in BOOLEAN :
            applier' = [Quiescent EXCEPT !.pc = IF force THEN "directory" ELSE "list",
                                         !.force = force, !.ids = ids]
      BY <1>1, Zenon DEF ApplySnapshot, PolicyTypeOK
    <3> QED BY <3>1 DEF Quiescent, PolicyTypeOK
  <2>2. UNCHANGED <<db, hs, hsCopy, sess, ids, all, toMark, toKick>>
    BY <1>1 DEF ApplySnapshot
  <2>3. PolicyTypeOK'
    BY <2>1, <2>2 DEF PolicyTypeOK, db
  <2>4. StaleIsPending'
    BY <2>2 DEF StaleIsPending, Pending, Covers
  <2>5. ClearedIsFresh'
    BY <2>1 DEF ClearedIsFresh
  <2> QED BY <2>3, <2>4, <2>5
<1>2. CASE ApplyDirectory
  <2>1. UNCHANGED <<db, hs, hsCopy, sess, ids, all, toMark, toKick>>
    BY <1>2 DEF ApplyDirectory
  <2>2. /\ applier.pc = "directory"
        /\ \/ applier' = [applier EXCEPT !.pc = "list", !.ids = Users]
           \/ applier' = Quiescent
    BY <1>2 DEF ApplyDirectory
  <2>3. /\ applier' \in [pc : {"idle", "directory", "list", "kick"}, force : BOOLEAN,
                         ids : SUBSET Users, kick : SUBSET Users, clear : SUBSET Users,
                         late : SUBSET Users]
        /\ applier'.pc # "idle" => /\ applier'.clear = applier.clear
                                  /\ applier'.late = applier.late
    <3>1. CASE applier' = [applier EXCEPT !.pc = "list", !.ids = Users]
      BY <3>1 DEF PolicyTypeOK
    <3>2. CASE applier' = Quiescent
      BY <3>2 DEF Quiescent
    <3> QED BY <2>2, <3>1, <3>2
  <2>4. PolicyTypeOK'
    BY <2>1, <2>3 DEF PolicyTypeOK, db
  <2>5. StaleIsPending'
    BY <2>1 DEF StaleIsPending, Pending, Covers
  <2>6. ClearedIsFresh'
    BY <2>1, <2>2, <2>3 DEF ClearedIsFresh, Stale, Covers
  <2> QED BY <2>4, <2>5, <2>6
<1>3. CASE ApplyList
  <2> DEFINE offline == {u \in applier.ids : sess[u] = "off"}
  <2>1. UNCHANGED <<db, hs, sess, ids, all, toMark, toKick>>
    BY <1>3 DEF ApplyList
  <2>2. /\ applier.pc = "list" /\ applier' \in [pc : {"kick"}, force : BOOLEAN, ids : SUBSET Users,
                         kick : SUBSET Users, clear : SUBSET Users, late : SUBSET Users]
        /\ applier'.clear = offline /\ applier'.late = applier.late
    BY <1>3 DEF ApplyList, PolicyTypeOK
  <2>3. PolicyTypeOK'
    BY <1>3, <2>1, <2>2 DEF ApplyList, PolicyTypeOK, db
  <2>4. \A u \in Users : Stale(u)' => Stale(u) /\ u \notin offline
    BY <1>3, <2>1 DEF ApplyList, Stale, PolicyTypeOK
  <2> QED BY <2>1, <2>2, <2>3, <2>4, QuietKeeps DEF PolicyTypeOK
<1>4. ASSUME NEW u \in Users, ApplyKick(u) PROVE PolicyInv'
  <2>1. applier.pc = "kick" /\ UNCHANGED <<db, hs, ids, all, toMark, toKick>>
    BY <1>4 DEF ApplyKick
  <2>2. CASE UNCHANGED <<hsCopy, sess>> /\ applier' = [applier EXCEPT !.kick = @ \ {u}]
    <3>1. PolicyTypeOK'
      BY <2>1, <2>2 DEF PolicyTypeOK, db
    <3>2. applier'.clear = applier.clear /\ applier'.late = applier.late
      BY <2>2 DEF PolicyTypeOK
    <3> QED BY <2>1, <2>2, <3>1, <3>2, QuietKeeps DEF PolicyTypeOK, Stale
  <2>3. CASE /\ applier' = [applier EXCEPT !.kick = @ \ {u}, !.clear = @ \cup {u}]
             /\ KickUser(u)
    <3>1. PolicyTypeOK'
      BY <2>1, <2>3, KickKeeps DEF PolicyTypeOK, db
    <3>2. applier'.clear = applier.clear \cup {u} /\ applier'.late = applier.late
      BY <2>3 DEF PolicyTypeOK
    <3>3. \A w \in Users : Stale(w)' => Stale(w) /\ w # u
      BY <2>3, KickKeeps
    <3> QED BY <2>1, <3>1, <3>2, <3>3, QuietKeeps DEF PolicyTypeOK
  <2> QED BY <1>4, <2>2, <2>3 DEF ApplyKick
<1>5. CASE ApplyClear
  <2> DEFINE forgotten == IF all' THEN {} ELSE applier.late \cap applier.clear
  <2>1. /\ applier.pc = "kick" /\ UNCHANGED <<db, hs, toMark, toKick>>
        /\ applier' = Quiescent /\ ids' = ids \ applier.clear
        /\ all' = (all /\ ~(applier.force /\ applier.clear = Users))
    BY <1>5 DEF ApplyClear
  <2>2. /\ hsCopy' = [u \in Users |-> IF hsCopy[u] = "stale" /\ u \in forgotten
                                      THEN "lost" ELSE hsCopy[u]]
        /\ sess' = [u \in Users |-> IF sess[u] = "stale" /\ u \in forgotten
                                    THEN "lost" ELSE sess[u]]
    BY <1>5 DEF ApplyClear
  <2>3. PolicyTypeOK'
    BY <2>1, <2>2 DEF PolicyTypeOK, db, Quiescent
  <2>4. \A u \in Users : Stale(u)' => Stale(u) /\ u \notin forgotten
    BY <2>2 DEF Stale
  <2>5. ASSUME NEW u \in Users, Stale(u)' PROVE Pending(u)'
    <3>1. Stale(u) /\ u \notin forgotten /\ Pending(u)
      BY <2>4, <2>5 DEF StaleIsPending, Stale
    <3>2. CASE u \in applier.clear
      BY <2>1, <3>1, <3>2 DEF ClearedIsFresh, Pending, Covers
    <3>3. CASE u \notin applier.clear
      BY <2>1, <3>1, <3>3 DEF Pending, Covers
    <3> QED BY <3>2, <3>3
  <2>6. ClearedIsFresh'
    BY <2>1 DEF ClearedIsFresh, Quiescent
  <2> QED BY <2>3, <2>5, <2>6 DEF StaleIsPending, Stale
<1> QED BY <1>1, <1>2, <1>3, <1>4, <1>5 DEF Apply

LEMMA RestartInv == PolicyTypeOK /\ Restart => PolicyInv'
<1> SUFFICES ASSUME PolicyTypeOK, Restart PROVE PolicyInv'
  OBVIOUS
<1>1. PolicyTypeOK'
  BY DEF Restart, PolicyTypeOK, db, Members, Quiescent
<1>2. \A u \in Users : ~Stale(u)'
  BY DEF Restart, Stale
<1>3. applier'.clear = {}
  BY DEF Restart, Quiescent
<1> QED BY <1>1, <1>2, <1>3 DEF PolicyInv, StaleIsPending, ClearedIsFresh, Stale

(* The invariant holds in every behaviour. *)
THEOREM Inductive == Spec => []PolicyInv
<1>1. PolicyInv /\ [Next]_vars => PolicyInv'
  <2> SUFFICES ASSUME PolicyInv, [Next]_vars PROVE PolicyInv'
    OBVIOUS
  <2>1. CASE UNCHANGED vars
    BY <2>1 DEF vars, PolicyInv, PolicyTypeOK, StaleIsPending, ClearedIsFresh, Pending, Stale,
                Covers
  <2>2. CASE Next
    BY <2>2, ClientInv, SaveInv, ChangeInv, ApplyInv, RestartInv DEF Next, PolicyInv
  <2> QED BY <2>1, <2>2
<1> QED BY InitInv, <1>1, PTL DEF Spec

(* Every variable keeps its type. *)
THEOREM PolicyTyped == Spec => []PolicyTypeOK
<1>1. PolicyInv => PolicyTypeOK
  BY DEF PolicyInv
<1> QED BY Inductive, <1>1, PTL

(* An account has a policy that is out of date only while it is marked, or *)
(* about to be, or about to be kicked: whatever is saved, in whatever      *)
(* order, while an Apply runs (peer_apply.go, peer_write.go, dns_write.go).*)
THEOREM PolicyPending == Spec => []StaleIsPending
<1>1. PolicyInv => StaleIsPending
  BY DEF PolicyInv
<1> QED BY Inductive, <1>1, PTL
=============================================================================
