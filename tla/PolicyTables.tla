---------------------------- MODULE PolicyTables ----------------------------
(***************************************************************************)
(* The tables of the policy: managed DNS, managed routes, peer access.  An *)
(* edit checks what it was given against the tables and writes in a later  *)
(* transaction; other edits and the deletion of an account come between.   *)
(* At boot the routes of an old database are migrated and the DNS servers  *)
(* of server.yaml are entered.  PolicyPush has the marks that edits leave. *)
(***************************************************************************)
EXTENDS Naturals, Sequences

CONSTANTS VpnUsers, Everyone,  \* accounts; the member 0
          Ips,                 \* addresses of DNS servers
          Spellings, Trim,     \* destinations as an old database has them, and TrimSpace of them
          Editors,             \* bound: requests under way
          MaxIds,              \* bound: rows ever inserted in a table
          MaxOld,              \* bound: rows of an old database
          Topics               \* "dns", "route", "access": what a behaviour edits

(* Accounts and addresses are told from what stands for others.            *)
ASSUME PolicyTablesAssumption ==
    /\ Everyone \notin VpnUsers /\ "" \notin Ips /\ MaxIds \in Nat
    /\ VpnUsers \cap {"migrated", "edited", "unserved", "hidden", "half"} = {}

VARIABLES
    ptTopic,   \* one of Topics
    ptUsers,   \* table users
    ptYaml,    \* vpn.dns_servers of the file that was read last
    ptDns,     \* dns_servers with members and excludes, by id
    ptRoutes,  \* peer_routes with members, by id
    ptOld,     \* peer_routes of an old database: one row for each member
    ptAccess,  \* peer_access
    ptNext,    \* the id of the next row
    ptFk,      \* the tables of the routes have their foreign keys
    ptEdits,   \* requests under way
    ptSlips    \* what the exceptions of the properties are about

ptVars == <<ptTopic, ptUsers, ptYaml, ptDns, ptRoutes, ptOld, ptAccess, ptNext, ptFk, ptEdits, ptSlips>>

NoRow == [ip |-> "", source |-> "none", members |-> {}, excludes |-> {}]
NoRoute == [dest |-> "", via |-> "", members |-> {}]
NoEdit == [op |-> "none", id |-> 0, key |-> "", via |-> "", members |-> {}, excludes |-> {}]

(* NormalizeMemberUserIDs and NormalizeExcludeUserIDs                      *)
MemberLists == {us \in SUBSET VpnUsers : us # {}} \cup {{Everyone}}
Ids == 1..MaxIds

(* An old database has one row for each member, NULL for everyone.         *)
PtInit ==
    /\ ptTopic \in Topics
    /\ ptUsers = VpnUsers
    /\ ptYaml = {}
    /\ ptDns = [i \in Ids |-> NoRow]
    /\ ptRoutes = [i \in Ids |-> NoRoute]
    /\ \E n \in 0..MaxOld :
          ptOld \in [1..n -> [user : VpnUsers \cup {Everyone}, dest : Spellings, via : VpnUsers]]
    /\ ptTopic # "route" => ptOld = <<>>
    /\ ptAccess = {}
    /\ ptNext = 1
    /\ ptFk \in BOOLEAN
    /\ ptOld # <<>> => ~ptFk
    /\ ptTopic # "route" => ptFk
    /\ ptEdits = [e \in Editors |-> NoEdit]
    /\ ptSlips = {}

----------------------------------------------------------------------------
(* Boot *)

(* Routes with the same destination and via become one with the members    *)
(* of all of them; the tables that are created have no foreign keys.       *)
MembersOf(key) == {ptOld[i].user : i \in {j \in DOMAIN ptOld : Trim[ptOld[j].dest] = key.dest /\ ptOld[j].via = key.via}}
MigratedFrom(i) == [dest |-> Trim[ptOld[i].dest], via |-> ptOld[i].via,
                    members |-> MembersOf([dest |-> Trim[ptOld[i].dest], via |-> ptOld[i].via])]
(* The first row of each key.                                              *)
Firsts == {i \in DOMAIN ptOld : \A j \in 1..(i - 1) : Trim[ptOld[j].dest] # Trim[ptOld[i].dest] \/ ptOld[j].via # ptOld[i].via}

(* One transaction, or the service does not start; the new rows are in the *)
(* order of the old ones, which are kept here to compare.                  *)
Migrate ==
    /\ ptOld # <<>> /\ "migrated" \notin ptSlips
    /\ \E n \in Ids : \E order \in [1..n -> Firsts] :
          /\ \A i, j \in 1..n : i < j => order[i] < order[j]
          /\ \A f \in Firsts : \E i \in 1..n : order[i] = f
          /\ ptRoutes' = [i \in Ids |-> IF i <= n THEN MigratedFrom(order[i]) ELSE NoRoute]
          /\ ptNext' = n + 1
    /\ ptSlips' = ptSlips \cup {"migrated"}
    /\ UNCHANGED <<ptTopic, ptUsers, ptYaml, ptDns, ptOld, ptAccess, ptFk, ptEdits>>

Booted == ptOld = <<>> \/ "migrated" \in ptSlips

(* The addresses that get a new row: those of the file without a row.  An  *)
(* address with a manual row keeps it.                                     *)
Added(yaml) == {ip \in yaml : \A i \in Ids : ptDns[i].ip # ip}
Synced(row, yaml) ==
    IF row.source # "config" THEN row
    ELSE IF row.ip \in yaml THEN [row EXCEPT !.members = {Everyone}]
    ELSE NoRow

SyncConfigDNSServers(yaml, new) ==
    /\ \A ip \in Added(yaml) : \E i \in 1..Len(new) : new[i] = ip
    /\ ptDns' = [i \in Ids |->
          IF i >= ptNext /\ i < ptNext + Len(new)
          THEN [NoRow EXCEPT !.ip = new[i - ptNext + 1], !.source = "config", !.members = {Everyone}]
          ELSE Synced(ptDns[i], yaml)]
    /\ ptNext' = ptNext + Len(new)

(* A restart, maybe with another file.  Requests under way are gone.       *)
Boot(yaml) ==
    /\ ptTopic = "dns"
    /\ \E n \in 0..(MaxIds + 1 - ptNext) : \E new \in [1..n -> Added(yaml)] :
          /\ \A i, j \in 1..n : i # j => new[i] # new[j]
          /\ SyncConfigDNSServers(yaml, new)
    /\ ptYaml' = yaml
    /\ ptEdits' = [e \in Editors |-> NoEdit]
    /\ ptSlips' = ptSlips \ {"unserved"}
    /\ UNCHANGED <<ptTopic, ptUsers, ptRoutes, ptOld, ptAccess, ptFk>>

----------------------------------------------------------------------------
(* Requests: what is asked of the tables, and later the transaction *)

Asks(e, edit) == ptEdits[e] = NoEdit /\ Booted /\ ptEdits' = [ptEdits EXCEPT ![e] = edit]
Over(e) == ptEdits' = [ptEdits EXCEPT ![e] = NoEdit]
KeepTables == UNCHANGED <<ptTopic, ptUsers, ptYaml, ptDns, ptRoutes, ptOld, ptAccess, ptNext, ptFk, ptSlips>>
Valid(us) == us \ {Everyone} \subseteq ptUsers

AskCreateDNS(e) ==
    /\ ptTopic = "dns"
    /\ \E ip \in Ips, us \in MemberLists : \E ex \in IF us = {Everyone} THEN SUBSET VpnUsers ELSE {{}} :
          /\ Valid(us) /\ Valid(ex)
          /\ Asks(e, [NoEdit EXCEPT !.op = "newDns", !.key = ip, !.members = us, !.excludes = ex])
    /\ KeepTables

CreateDNSServer(e) ==
    LET edit == ptEdits[e] IN
    /\ edit.op = "newDns"
    /\ IF \E i \in Ids : ptDns[i].ip = edit.key
       THEN UNCHANGED <<ptDns, ptNext>>
       ELSE /\ ptNext <= MaxIds
            /\ ptDns' = [ptDns EXCEPT ![ptNext] =
                  [ip |-> edit.key, source |-> "manual", members |-> edit.members, excludes |-> edit.excludes]]
            /\ ptNext' = ptNext + 1
    /\ Over(e)
    /\ UNCHANGED <<ptTopic, ptUsers, ptYaml, ptRoutes, ptOld, ptAccess, ptFk, ptSlips>>

AskDNSMembers(e) ==
    /\ \E i \in Ids, us \in MemberLists :
          /\ ptDns[i].source = "manual" /\ Valid(us)
          /\ Asks(e, [NoEdit EXCEPT !.op = "members", !.id = i, !.members = us])
    /\ KeepTables

(* A row that was deleted meanwhile: the foreign key, nothing is written.  *)
ReplaceDNSServerMembers(e) ==
    LET edit == ptEdits[e] IN
    /\ edit.op = "members"
    /\ ptDns' = [ptDns EXCEPT ![edit.id] =
          IF @ = NoRow THEN @
          ELSE [@ EXCEPT !.members = edit.members, !.excludes = IF edit.members = {Everyone} THEN ptDns[edit.id].excludes ELSE {}]]
    /\ Over(e)
    /\ UNCHANGED <<ptTopic, ptUsers, ptYaml, ptRoutes, ptOld, ptAccess, ptNext, ptFk, ptSlips>>

AskDNSExcludes(e) ==
    /\ \E i \in Ids, us \in SUBSET VpnUsers :
          /\ ptDns[i].members = {Everyone} /\ Valid(us)
          /\ Asks(e, [NoEdit EXCEPT !.op = "excludes", !.id = i, !.excludes = us])
    /\ KeepTables

ReplaceDNSServerExcludes(e) ==
    LET edit == ptEdits[e] IN
    /\ edit.op = "excludes"
    /\ ptDns' = [ptDns EXCEPT ![edit.id] = IF @ = NoRow THEN @ ELSE [@ EXCEPT !.excludes = edit.excludes]]
    /\ ptSlips' = IF ptDns[edit.id].members \in {{}, {Everyone}} THEN ptSlips ELSE ptSlips \cup {"hidden"}
    /\ Over(e)
    /\ UNCHANGED <<ptTopic, ptUsers, ptYaml, ptRoutes, ptOld, ptAccess, ptNext, ptFk>>

(* A manual row that stood for an address of the file has gone.            *)
Unserved == IF \E ip \in ptYaml : \A i \in Ids : ptDns'[i].ip # ip THEN {"unserved"} ELSE {}

(* Between the look at the row and the transaction only a change that does *)
(* not matter to it can come.                                              *)
DeleteDNSServer(i) ==
    /\ ptDns[i].source = "manual"
    /\ ptDns' = [ptDns EXCEPT ![i] = NoRow]
    /\ ptSlips' = ptSlips \cup Unserved
    /\ UNCHANGED <<ptTopic, ptUsers, ptYaml, ptRoutes, ptOld, ptAccess, ptNext, ptFk, ptEdits>>

AskCreateRoute(e) ==
    /\ ptTopic = "route"
    /\ \E d \in Spellings, via \in ptUsers, us \in MemberLists :
          /\ Trim[d] = d /\ via \notin us /\ Valid(us)
          /\ Asks(e, [NoEdit EXCEPT !.op = "newRoute", !.key = d, !.via = via, !.members = us])
    /\ KeepTables

(* The foreign key of via is checked where it exists.                      *)
InsertPeerRoute(e) ==
    LET edit == ptEdits[e] IN
    /\ edit.op = "newRoute"
    /\ IF \/ \E i \in Ids : ptRoutes[i].dest = edit.key /\ ptRoutes[i].via = edit.via
          \/ ptFk /\ edit.via \notin ptUsers
       THEN UNCHANGED <<ptRoutes, ptNext>>
       ELSE /\ ptNext <= MaxIds
            /\ ptRoutes' = [ptRoutes EXCEPT ![ptNext] = [dest |-> edit.key, via |-> edit.via, members |-> edit.members]]
            /\ ptNext' = ptNext + 1
    /\ ptSlips' = ptSlips \cup {"edited"}
    /\ Over(e)
    /\ UNCHANGED <<ptTopic, ptUsers, ptYaml, ptDns, ptOld, ptAccess, ptFk>>

AskRouteMembers(e) ==
    /\ \E i \in Ids, us \in MemberLists :
          /\ ptRoutes[i].dest # "" /\ ptRoutes[i].via \notin us /\ Valid(us)
          /\ Asks(e, [NoEdit EXCEPT !.op = "route", !.id = i, !.members = us])
    /\ KeepTables

(* Without the foreign key, members of a route that was deleted are left   *)
(* that no query returns: ids are not used twice.                          *)
ReplacePeerRouteMembers(e) ==
    LET edit == ptEdits[e] IN
    /\ edit.op = "route"
    /\ ptRoutes' = [ptRoutes EXCEPT ![edit.id] =
          IF @.dest # "" \/ ~ptFk THEN [@ EXCEPT !.members = edit.members] ELSE @]
    /\ ptSlips' = ptSlips \cup {"edited"}
    /\ Over(e)
    /\ UNCHANGED <<ptTopic, ptUsers, ptYaml, ptDns, ptOld, ptAccess, ptNext, ptFk>>

DeletePeerRoute(i) ==
    /\ ptRoutes[i].dest # "" /\ Booted
    /\ ptRoutes' = [ptRoutes EXCEPT ![i] = NoRoute]
    /\ ptSlips' = ptSlips \cup {"edited"}
    /\ UNCHANGED <<ptTopic, ptUsers, ptYaml, ptDns, ptOld, ptAccess, ptNext, ptFk, ptEdits>>

(* AddPeerAccessPair checks and writes one direction, then the other.      *)
AskAccess(e) ==
    /\ ptTopic = "access"
    /\ \E u, v \in VpnUsers :
          /\ u # v /\ Valid({u, v})
          /\ Asks(e, [NoEdit EXCEPT !.op = "first", !.key = u, !.via = v])
    /\ KeepTables

AddPeerAccess(e) ==
    LET edit == ptEdits[e] IN
    /\ edit.op \in {"first", "checked"}
    /\ ptAccess' = IF Valid({edit.key, edit.via}) THEN ptAccess \cup {<<edit.key, edit.via>>} ELSE ptAccess
    /\ ptEdits' = [ptEdits EXCEPT ![e] =
          IF edit.op = "first" /\ Valid({edit.key, edit.via})
          THEN [edit EXCEPT !.op = "second", !.key = edit.via, !.via = edit.key] ELSE NoEdit]
    /\ UNCHANGED <<ptTopic, ptUsers, ptYaml, ptDns, ptRoutes, ptOld, ptNext, ptFk, ptSlips>>

AskSecond(e) ==
    /\ ptEdits[e].op = "second"
    /\ ptEdits' = [ptEdits EXCEPT ![e] = IF Valid({@.key, @.via}) THEN [@ EXCEPT !.op = "checked"] ELSE NoEdit]
    /\ KeepTables

(* The pair u, v is half written.                                          *)
Half(u, v) == \E e \in Editors : ptEdits[e].op \in {"second", "checked"} /\ {ptEdits[e].key, ptEdits[e].via} = {u, v}

RemovePeerAccessPair(u, v) ==
    /\ ptAccess \cap {<<u, v>>, <<v, u>>} # {}
    /\ ptAccess' = ptAccess \ {<<u, v>>, <<v, u>>}
    /\ ptSlips' = IF Half(u, v) THEN ptSlips \cup {"half"} ELSE ptSlips
    /\ UNCHANGED <<ptTopic, ptUsers, ptYaml, ptDns, ptRoutes, ptOld, ptNext, ptFk, ptEdits>>

(* The server stops between the two.                                       *)
StopHalfWay ==
    /\ \E u, v \in VpnUsers : Half(u, v)
    /\ ptEdits' = [e \in Editors |-> NoEdit]
    /\ ptSlips' = ptSlips \cup {"half"}
    /\ UNCHANGED <<ptTopic, ptUsers, ptYaml, ptDns, ptRoutes, ptOld, ptAccess, ptNext, ptFk>>

----------------------------------------------------------------------------

Names(edit) == {edit.key, edit.via} \cup edit.members \cup edit.excludes

(* A manual DNS server that has no members left goes with its last member. *)
Dropped(row, u) ==
    LET left == [row EXCEPT !.members = @ \ {u}, !.excludes = @ \ {u}] IN
    IF row.source = "manual" /\ left.members = {} THEN NoRow ELSE left

(* Mutant of DeleteUser: the excludes are forgotten. *)
DeleteAllButExcludes(u) ==
    /\ u \in ptUsers /\ Booted
    /\ ptUsers' = ptUsers \ {u}
    /\ ptAccess' = {p \in ptAccess : u \notin {p[1], p[2]}}
    /\ ptRoutes' = [i \in Ids |-> IF ptRoutes[i].via = u THEN NoRoute ELSE [ptRoutes[i] EXCEPT !.members = @ \ {u}]]
    /\ ptDns' = [i \in Ids |-> IF ptDns[i].source = "manual" /\ ptDns[i].members = {u} THEN NoRow
                                ELSE [ptDns[i] EXCEPT !.members = @ \ {u}]]
    /\ ptSlips' = ptSlips \cup {"edited"} \cup Unserved \cup (IF \E e \in Editors : u \in Names(ptEdits[e]) THEN {u} ELSE {})
    /\ UNCHANGED <<ptTopic, ptYaml, ptOld, ptNext, ptFk, ptEdits>>

DeleteUser(u) ==
    /\ u \in ptUsers /\ Booted
    /\ ptUsers' = ptUsers \ {u}
    /\ ptAccess' = {p \in ptAccess : u \notin {p[1], p[2]}}
    /\ ptRoutes' = [i \in Ids |-> IF ptRoutes[i].via = u THEN NoRoute ELSE [ptRoutes[i] EXCEPT !.members = @ \ {u}]]
    /\ ptDns' = [i \in Ids |-> Dropped(ptDns[i], u)]
    /\ ptSlips' = ptSlips \cup {"edited"} \cup Unserved \cup (IF \E e \in Editors : u \in Names(ptEdits[e]) THEN {u} ELSE {})
    /\ UNCHANGED <<ptTopic, ptYaml, ptOld, ptNext, ptFk, ptEdits>>

PtNext ==
    \/ Migrate
    \/ \E yaml \in SUBSET Ips : Boot(yaml)
    \/ \E e \in Editors :
          \/ AskCreateDNS(e) \/ CreateDNSServer(e) \/ AskDNSMembers(e) \/ ReplaceDNSServerMembers(e)
          \/ AskDNSExcludes(e) \/ ReplaceDNSServerExcludes(e)
          \/ AskCreateRoute(e) \/ InsertPeerRoute(e) \/ AskRouteMembers(e) \/ ReplacePeerRouteMembers(e)
          \/ AskAccess(e) \/ AddPeerAccess(e) \/ AskSecond(e)
    \/ \E i \in Ids : DeleteDNSServer(i) \/ DeletePeerRoute(i)
    \/ \E u, v \in VpnUsers : RemovePeerAccessPair(u, v)
    \/ StopHalfWay
    \/ \E u \in VpnUsers : DeleteUser(u)

PtSpec == PtInit /\ [][PtNext]_ptVars

----------------------------------------------------------------------------
(* Properties *)

PtTypeOK ==
    /\ ptUsers \subseteq VpnUsers /\ ptYaml \subseteq Ips /\ ptNext \in 1..(MaxIds + 1)
    /\ \A i \in Ids : /\ ptDns[i].source \in {"none", "config", "manual"}
                      /\ ptDns[i].members \subseteq VpnUsers \cup {Everyone} /\ ptDns[i].excludes \subseteq VpnUsers
                      /\ ptRoutes[i].members \subseteq VpnUsers \cup {Everyone}
    /\ ptAccess \subseteq VpnUsers \X VpnUsers

(* No table names an account that was deleted, unless an edit that names   *)
(* it was checked before and is written after that.                        *)
NoGhosts ==
    LET named == (UNION {ptDns[i].members \cup ptDns[i].excludes \cup ptRoutes[i].members : i \in Ids})
                 \cup {p[1] : p \in ptAccess} \cup {p[2] : p \in ptAccess}
                 \cup ({ptRoutes[i].via : i \in Ids} \ {""})
    IN  named \subseteq ptUsers \cup {Everyone} \cup ptSlips

(* The rows of the file are the addresses of the file without a manual     *)
(* row, they are for everyone; an address has one row.                     *)
DnsFollowsFile ==
    /\ \A i \in Ids : ptDns[i].source = "config" => ptDns[i].ip \in ptYaml /\ ptDns[i].members = {Everyone}
    /\ \A ip \in ptYaml : (\A i \in Ids : ptDns[i].ip # ip) => "unserved" \in ptSlips
    /\ \A i, j \in Ids : ptDns[i].ip = ptDns[j].ip /\ ptDns[i] # NoRow => i = j

(* A manual DNS server is for somebody, and its excludes are without       *)
(* effect only if two edits of it crossed.                                 *)
DnsForSomebody ==
    \A i \in Ids : /\ ptDns[i].source = "manual" => ptDns[i].members # {}
                   /\ ptDns[i].members # {Everyone} => ptDns[i].excludes = {} \/ "hidden" \in ptSlips

(* Peer access is mutual once no request is half way.                      *)
AccessMutual ==
    \A p \in ptAccess : <<p[2], p[1]>> \in ptAccess \/ Half(p[1], p[2]) \/ "half" \in ptSlips

(* After the migration an account has the routes it had.                   *)
RoutesKept ==
    ("migrated" \in ptSlips /\ "edited" \notin ptSlips) =>
        \A u \in VpnUsers :
            {<<ptRoutes[i].dest, ptRoutes[i].via>> : i \in {j \in Ids : ptRoutes[j].members \cap {u, Everyone} # {}}}
            = {<<Trim[ptOld[i].dest], ptOld[i].via>> : i \in {j \in DOMAIN ptOld : ptOld[j].user \in {u, Everyone}}}

TablesAgree == NoGhosts /\ DnsFollowsFile /\ DnsForSomebody /\ AccessMutual /\ RoutesKept
=============================================================================
