----------------------------- MODULE PolicyPush -----------------------------
(***************************************************************************)
(* How a change of policy reaches the accounts that are online. A session  *)
(* keeps the policy its handshake read from the database. Peer access,     *)
(* managed routes and managed DNS are saved and the accounts concerned are *)
(* marked (vpnaccount/peer_write.go, dns_write.go); Apply kicks the marked *)
(* ones that are online, so that they log in again (peer_apply.go). A      *)
(* change of the account itself kicks it at once (patch.go, enable.go).    *)
(*                                                                         *)
(* One managed route and one managed DNS server; a policy is not kept as a *)
(* value: of each copy the model knows whether something it was read from  *)
(* has been replaced since. Bounds: of each kind of request one at a time  *)
(* (a save, a change of an account, an Apply), one handshake per account,  *)
(* no account is deleted, and no database call fails but those of Apply.   *)
(* What a behaviour edits is chosen at the start, so that TLC need not mix *)
(* every kind of policy with every other.                                  *)
(***************************************************************************)
EXTENDS FiniteSets

CONSTANTS
    Users,      \* the VPN accounts
    Everyone,   \* PeerRouteMemberAll, DNSMemberAll
    NoUser,
    Subjects    \* what is edited in a behaviour: route, dns, access, account

ASSUME PolicyConstants == Everyone \notin Users /\ NoUser \notin Users

VARIABLES
    subject,    \* one of Subjects
    route,      \* peer_route_members of the route; {}: there is no route
    dns,        \* dns_server_members and dns_server_excludes
    access,     \* peer_access: pairs of accounts that may reach each other
    enabled,    \* users.enabled
    hs,         \* what the handshake of an account has read so far
    hsCopy,     \* the policy it has read: fresh, stale or lost
    sess,       \* the policy of the account's session, or "off"
    ids, all,   \* PeerPolicyApplier: the marked accounts, or all of them
    toMark,     \* the save under way has still to mark these
    toKick,     \* the account changed last, which is to be kicked
    applier     \* progress of Apply

db   == <<subject, route, dns, access, enabled>>
vars == <<subject, route, dns, access, enabled, hs, hsCopy, sess, ids, all, toMark, toKick,
          applier>>

(* NormalizeMemberUserIDs: everyone, or a list of accounts. *)
Members  == (SUBSET Users) \cup {{Everyone}}
Pairs    == {p \in SUBSET Users : Cardinality(p) = 2}
NoDNS    == [members |-> {}, excludes |-> {}]
Quiescent ==
    [pc |-> "idle", force |-> FALSE, ids |-> {}, kick |-> {}, clear |-> {}, late |-> {}]

PolicyTypeOK ==
    /\ subject \in Subjects
    /\ route \in Members
    /\ dns \in [members : Members, excludes : SUBSET Users]
    /\ access \subseteq Pairs
    /\ enabled \in [Users -> BOOLEAN]
    /\ hs \in [Users -> {"none", "row", "access", "route", "dns"}]
    /\ hsCopy \in [Users -> {"fresh", "stale", "lost"}]
    /\ sess \in [Users -> {"off", "fresh", "stale", "lost"}]
    /\ ids \subseteq Users /\ all \in BOOLEAN
    /\ toMark \in Members
    /\ toKick \in Users \cup {NoUser}
    /\ applier \in [pc : {"idle", "directory", "list", "kick"}, force : BOOLEAN,
                    ids : SUBSET Users, kick : SUBSET Users, clear : SUBSET Users,
                    late : SUBSET Users]

Init ==
    /\ subject \in Subjects
    /\ route = {} /\ dns = NoDNS /\ access = {}
    /\ enabled = [u \in Users |-> TRUE]
    /\ hs = [u \in Users |-> "none"] /\ hsCopy = [u \in Users |-> "fresh"]
    /\ sess = [u \in Users |-> "off"]
    /\ ids = {} /\ all = FALSE
    /\ toMark = {} /\ toKick = NoUser
    /\ applier = Quiescent

-----------------------------------------------------------------------------
(* A handshake reads the account's row (handshakeAuth), its peer access    *)
(* and its routes (ResolveClientPolicy) and its DNS, one query after the   *)
(* other, and then mounts its session (RegisterVPN).                       *)

Authenticate(u) ==
    /\ hs[u] = "none" /\ enabled[u]
    /\ hs' = [hs EXCEPT ![u] = "row"]
    /\ UNCHANGED <<db, hsCopy, sess, ids, all, toMark, toKick, applier>>

Resolve(u) ==
    /\ hs[u] \in {"row", "access", "route"}
    /\ hs' = [hs EXCEPT ![u] = [row |-> "access", access |-> "route", route |-> "dns"][@]]
    /\ UNCHANGED <<db, hsCopy, sess, ids, all, toMark, toKick, applier>>

RegisterVPN(u) ==
    /\ hs[u] = "dns"
    /\ hs' = [hs EXCEPT ![u] = "none"]
    /\ sess' = [sess EXCEPT ![u] = hsCopy[u]]
    /\ hsCopy' = [hsCopy EXCEPT ![u] = "fresh"]
    /\ UNCHANGED <<db, ids, all, toMark, toKick, applier>>

Rejected(u) ==
    /\ hs[u] # "none"
    /\ hs' = [hs EXCEPT ![u] = "none"]
    /\ hsCopy' = [hsCopy EXCEPT ![u] = "fresh"]
    /\ UNCHANGED <<db, sess, ids, all, toMark, toKick, applier>>

Disconnect(u) ==
    /\ sess[u] # "off"
    /\ sess' = [sess EXCEPT ![u] = "off"]
    /\ UNCHANGED <<db, hs, hsCopy, ids, all, toMark, toKick, applier>>

(* The copies of the accounts us are out of date, those of handshakes once *)
(* they have read what was replaced.                                       *)
Replaced(us, after) ==
    /\ hsCopy' = [u \in Users |->
                      IF u \in us /\ hs[u] \in after THEN "stale" ELSE hsCopy[u]]
    /\ sess' = [u \in Users |-> IF u \in us /\ sess[u] # "off" THEN "stale" ELSE sess[u]]

-----------------------------------------------------------------------------
(* Saving. The mark is a second step; nothing is kicked.                   *)

Covers(members, u) == Everyone \in members \/ u \in members

(* DNSAppliesToUser *)
DNSGiven(d, u) == u \in d.members \/ (Everyone \in d.members /\ u \notin d.excludes)

(* UnionMemberUserIDs *)
Union(a, b) == IF Everyone \in a \cup b THEN {Everyone} ELSE a \cup b

(* CreatePeerRoute, DeletePeerRoute and ReplacePeerRouteMembers. *)
RouteMarks(old, new) == Union(old, new)

SaveRoute(members) ==
    /\ "route" \in subject /\ toMark = {}
    /\ route # {} \/ members # {}
    /\ route' = members
    /\ Replaced({u \in Users : Covers(members, u) <=> ~Covers(route, u)},
                {"route", "dns"})
    /\ toMark' = RouteMarks(route, members)
    /\ UNCHANGED <<subject, dns, access, enabled, hs, ids, all, toKick, applier>>

(* markDNSDirtyCreateOrDelete *)
DNSMarks(d) == IF Everyone \in d.members THEN {Everyone} ELSE d.members \cup d.excludes

(* CreateDNSServer and DeleteDNSServer. *)
SaveDNS(d) ==
    LET given == IF dns = NoDNS THEN d ELSE dns IN
    /\ "dns" \in subject /\ toMark = {}
    /\ dns = NoDNS <=> d # NoDNS
    /\ Everyone \in d.members \/ d.excludes = {}
    /\ d = NoDNS \/ d.members # {}
    /\ dns' = d
    /\ Replaced({u \in Users : DNSGiven(d, u) <=> ~DNSGiven(dns, u)}, {"dns"})
    /\ toMark' = DNSMarks(given)
    /\ UNCHANGED <<subject, route, access, enabled, hs, ids, all, toKick, applier>>

(* ReplaceDNSServerMembers: a list of accounts drops the excludes. *)
SaveDNSMembers(members) ==
    LET d == [members |-> members,
              excludes |-> IF Everyone \in members THEN dns.excludes ELSE {}] IN
    /\ "dns" \in subject /\ toMark = {}
    /\ dns # NoDNS /\ members # {}
    /\ dns' = d
    /\ Replaced({u \in Users : DNSGiven(d, u) <=> ~DNSGiven(dns, u)}, {"dns"})
    /\ toMark' = Union(dns.members, members)
    /\ UNCHANGED <<subject, route, access, enabled, hs, ids, all, toKick, applier>>

(* ReplaceDNSServerExcludes marks those who are excluded before or after,  *)
(* but not both.                                                           *)
SaveDNSExcludes(excludes) ==
    LET d == [dns EXCEPT !.excludes = excludes] IN
    /\ "dns" \in subject /\ toMark = {}
    /\ Everyone \in dns.members
    /\ dns' = d
    /\ Replaced({u \in Users : DNSGiven(d, u) <=> ~DNSGiven(dns, u)}, {"dns"})
    /\ toMark' = (dns.excludes \ excludes) \cup (excludes \ dns.excludes)
    /\ UNCHANGED <<subject, route, access, enabled, hs, ids, all, toKick, applier>>

(* AddPeerAccess and RemovePeerAccess, which may change nothing. *)
SaveAccess(p, allowed) ==
    LET new == IF allowed THEN access \cup {p} ELSE access \ {p} IN
    /\ "access" \in subject /\ toMark = {}
    /\ access' = new
    /\ Replaced(IF new = access THEN {} ELSE p, {"access", "route", "dns"})
    /\ toMark' = p
    /\ UNCHANGED <<subject, route, dns, enabled, hs, ids, all, toKick, applier>>

(* MarkUsers and MarkAll. *)
Mark ==
    /\ toMark # {}
    /\ ids' = ids \cup (toMark \ {Everyone})
    /\ all' = (all \/ Everyone \in toMark)
    /\ applier' = IF applier.pc = "idle" THEN applier
                  ELSE [applier EXCEPT !.late = @ \cup {u \in Users : Covers(toMark, u)}]
    /\ toMark' = {}
    /\ UNCHANGED <<db, hs, hsCopy, sess, toKick>>

-----------------------------------------------------------------------------
(* KickUser ends the session. A handshake under way is not stopped: if it  *)
(* has read something that was replaced, its policy is lost, that is, out  *)
(* of date for good.                                                       *)
KickUser(u) ==
    /\ sess' = [sess EXCEPT ![u] = "off"]
    /\ hsCopy' = [hsCopy EXCEPT ![u] = IF @ = "stale" THEN "lost" ELSE @]

(* ApplyVPNPatch and SetAccountEnabled write the row ... *)
ChangeAccount(u) ==
    /\ "account" \in subject /\ toKick = NoUser
    /\ \/ UNCHANGED enabled /\ toKick' = u
       \/ enabled[u] /\ enabled' = [enabled EXCEPT ![u] = FALSE] /\ toKick' = u
    /\ Replaced({u}, {"row", "access", "route", "dns"})
    /\ UNCHANGED <<subject, route, dns, access, hs, ids, all, toMark, applier>>

Enable(u) ==
    /\ toKick = NoUser /\ ~enabled[u]
    /\ enabled' = [enabled EXCEPT ![u] = TRUE]
    /\ UNCHANGED <<subject, route, dns, access, hs, hsCopy, sess, ids, all, toMark, toKick,
                   applier>>

(* ... and kick. *)
KickChanged ==
    /\ toKick # NoUser
    /\ KickUser(toKick)
    /\ toKick' = NoUser
    /\ UNCHANGED <<db, hs, ids, all, toMark, applier>>

-----------------------------------------------------------------------------
(* Apply.                                                                  *)

ApplySnapshot(forceAll) ==
    LET force == forceAll \/ all IN
    /\ applier.pc = "idle"
    /\ force \/ ids # {}
    /\ applier' = [Quiescent EXCEPT !.pc = IF force THEN "directory" ELSE "list",
                                    !.force = force, !.ids = ids]
    /\ UNCHANGED <<db, hs, hsCopy, sess, ids, all, toMark, toKick>>

(* ListUserDirectory *)
ApplyDirectory ==
    /\ applier.pc = "directory"
    /\ \/ applier' = [applier EXCEPT !.pc = "list", !.ids = Users]
       \/ applier' = Quiescent
    /\ UNCHANGED <<db, hs, hsCopy, sess, ids, all, toMark, toKick>>

(* ListOnline; the others are taken to read the new policy when they log   *)
(* in next, also when they are just logging in.                            *)
ApplyList ==
    LET offline == {u \in applier.ids : sess[u] = "off"} IN
    /\ applier.pc = "list"
    /\ applier' = [applier EXCEPT !.pc = "kick", !.ids = {},
                                  !.kick = applier.ids \ offline, !.clear = offline]
    /\ hsCopy' = [u \in Users |-> IF u \in offline /\ hsCopy[u] = "stale" THEN "lost"
                                  ELSE hsCopy[u]]
    /\ UNCHANGED <<db, hs, sess, ids, all, toMark, toKick>>

(* Mutant of ApplyKick: an account that could not be bumped is done. *)
FailedIsDone(u) ==
    /\ applier.pc = "kick" /\ u \in applier.kick
    /\ applier' = [applier EXCEPT !.kick = @ \ {u}, !.clear = @ \cup {u}]
    /\ KickUser(u) \/ UNCHANGED <<hsCopy, sess>>
    /\ UNCHANGED <<db, hs, ids, all, toMark, toKick>>

(* IncrementPolicyVer and Kick, or the first fails. *)
ApplyKick(u) ==
    /\ applier.pc = "kick" /\ u \in applier.kick
    /\ \/ /\ applier' = [applier EXCEPT !.kick = @ \ {u}, !.clear = @ \cup {u}]
          /\ KickUser(u)
       \/ /\ applier' = [applier EXCEPT !.kick = @ \ {u}]
          /\ UNCHANGED <<hsCopy, sess>>
    /\ UNCHANGED <<db, hs, ids, all, toMark, toKick>>

(* clearDone; a forced Apply of which no kick failed has cleared everyone. *)
(* It also deletes a mark that was made since the snapshot: the copies     *)
(* that mark was for are lost.                                             *)
ApplyClear ==
    LET clearAll == applier.force /\ applier.clear = Users
        forgotten == IF all' THEN {} ELSE applier.late \cap applier.clear
        lose(u, copy) == IF copy = "stale" /\ u \in forgotten THEN "lost" ELSE copy
    IN
    /\ applier.pc = "kick" /\ applier.kick = {}
    /\ ids' = ids \ applier.clear
    /\ all' = (all /\ ~clearAll)
    /\ hsCopy' = [u \in Users |-> lose(u, hsCopy[u])]
    /\ sess' = [u \in Users |-> lose(u, sess[u])]
    /\ applier' = Quiescent
    /\ UNCHANGED <<db, hs, toMark, toKick>>

(* The server restarts: the marks are gone, and so are the sessions. *)
Restart ==
    /\ hs' = [u \in Users |-> "none"] /\ hsCopy' = [u \in Users |-> "fresh"]
    /\ sess' = [u \in Users |-> "off"]
    /\ ids' = {} /\ all' = FALSE
    /\ toMark' = {} /\ toKick' = NoUser /\ applier' = Quiescent
    /\ UNCHANGED db

-----------------------------------------------------------------------------
Client(u) ==
    Authenticate(u) \/ Resolve(u) \/ RegisterVPN(u) \/ Rejected(u) \/ Disconnect(u)

Save ==
    \/ \E members \in Members : SaveRoute(members) \/ SaveDNSMembers(members)
    \/ \E members \in Members, excludes \in SUBSET Users :
          SaveDNS([members |-> members, excludes |-> excludes])
    \/ \E excludes \in SUBSET Users : SaveDNSExcludes(excludes)
    \/ \E p \in Pairs, allowed \in BOOLEAN : SaveAccess(p, allowed)
    \/ Mark

Change == (\E u \in Users : ChangeAccount(u) \/ Enable(u)) \/ KickChanged

Apply ==
    \/ \E forceAll \in BOOLEAN : ApplySnapshot(forceAll)
    \/ ApplyDirectory \/ ApplyList \/ ApplyClear
    \/ \E u \in Users : ApplyKick(u)

Next == (\E u \in Users : Client(u)) \/ Save \/ Change \/ Apply \/ Restart

Spec == Init /\ [][Next]_vars

-----------------------------------------------------------------------------
(* Properties.                                                             *)

Pending(u) ==
    u \in ids \/ all \/ toKick = u \/ Covers(toMark, u)

(* An account is online, or about to be, with a policy that is out of date *)
(* only while something is still going to refresh it: it is marked, all    *)
(* are, the save is about to mark it or the change to kick it. Two gaps    *)
(* are excepted, where the copy is lost: a handshake that reads before a   *)
(* change and mounts after the kick (or after Apply took the account for   *)
(* offline), and a mark made during an Apply that its clearDone deletes.   *)
StaleIsPending ==
    \A u \in Users : sess[u] = "stale" \/ hsCopy[u] = "stale" => Pending(u)

(* vpnaccount/peer_apply.go: Apply keeps the marks that are made while it  *)
(* kicks.                                                                  *)
FreshMarkKept ==
    [][ApplyClear => \A u \in applier.late \cap ids :
                        sess[u] = "stale" => u \in ids' \/ all']_vars
=============================================================================
