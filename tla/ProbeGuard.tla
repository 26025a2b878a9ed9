----------------------------- MODULE ProbeGuard -----------------------------
(***************************************************************************)
(* probedefense.Guard and the tables it keeps: which addresses the tunnel  *)
(* port refuses.  Rejected connections count towards an automatic ban, the *)
(* administrator bans, lifts bans and exempts addresses, and each of them  *)
(* takes several steps on the database and on the list in memory.  Calls   *)
(* of the database succeed.                                                *)
(***************************************************************************)
EXTENDS Naturals

CONSTANTS Sources,     \* addresses that connect
          Exempts,     \* entries of the exemption list: addresses or prefixes
          Includes,    \* Includes[e]: the addresses of entry e
          Yaml,        \* probe_defense.ban_exempt_ips
          Allowlists,  \* what tunnel_allowed_source_ips may be
          Threshold,   \* ban_after_events
          Enabled, RecordEvents, AutoBan,
          Watchers,    \* bound: rejects being recorded
          Clerks,      \* bound: requests of the administrator under way
          Nothing

ASSUME ProbeGuardAssumption == Nothing \notin Sources

VARIABLES
    pgAllowed, \* tunnel_allowed_source_ips; {}: no restriction
    pgBlocks,  \* table ip_blocks
    pgEvents,  \* counted rejects of the window, at most Threshold
    pgDb,      \* table ip_ban_exempt: the enabled entries
    pgMem,     \* banExemptIPs
    pgConns,   \* addresses with a connection that was accepted
    pgTasks,   \* RecordReject under way
    pgClerks,  \* requests under way
    pgWord,    \* addresses the administrator has banned for good
    pgLate,    \* of these, the ones that had already been let in
    pgStale    \* a reload has stored a list read before the last change

pgVars == <<pgAllowed, pgBlocks, pgEvents, pgDb, pgMem, pgConns, pgTasks, pgClerks, pgWord, pgLate, pgStale>>

Free == [on |-> FALSE, until |-> "never"]
NoTask == [pc |-> "idle", ip |-> Nothing, counts |-> FALSE]
NoClerk == [pc |-> "idle", add |-> FALSE, of |-> Nothing, list |-> {}, crossed |-> FALSE]

(* boot: ImportBanExemptFromYAML, ReloadBanExempt                          *)
PgInit ==
    /\ pgAllowed \in Allowlists
    /\ pgBlocks = [ip \in Sources |-> Free]
    /\ pgEvents = [ip \in Sources |-> 0]
    /\ pgDb = Yaml /\ pgMem = Yaml
    /\ pgConns = {}
    /\ pgTasks = [w \in Watchers |-> NoTask]
    /\ pgClerks = [c \in Clerks |-> NoClerk]
    /\ pgWord = {} /\ pgLate = {} /\ pgStale = FALSE

(* isBlockedRaw, AllowSourceIP, IsAllowlisted, IsBanExempt                 *)
Blocked(ip) == pgBlocks[ip].on /\ pgBlocks[ip].until # "over"
AllowSource(ip) == pgAllowed = {} \/ ip \in pgAllowed
Allowlisted(ip) == pgAllowed # {} /\ ip \in pgAllowed
Exempt(ip) == \E e \in pgMem : ip \in Includes[e]

----------------------------------------------------------------------------
(* The tunnel port *)

KeepAdmin == UNCHANGED <<pgAllowed, pgDb, pgMem, pgClerks, pgWord, pgStale>>

(* A reject is recorded in a goroutine of its own.  Some signatures are in *)
(* ignore_signatures_for_ban and count for nothing.                        *)
Rejected(ip) ==
    \E w \in Watchers, counts \in BOOLEAN :
        /\ pgTasks[w] = NoTask
        /\ pgTasks' = [pgTasks EXCEPT ![w] = [pc |-> "record", ip |-> ip, counts |-> counts]]

(* Mutant of Accept: a ban is not looked at.                               *)
AcceptAll(ip) ==
    /\ pgConns' = pgConns \cup {ip}
    /\ KeepAdmin /\ UNCHANGED <<pgBlocks, pgEvents, pgTasks, pgLate>>

(* CheckAccept, with the TLS handshake after it.                           *)
Accept(ip) ==
    /\ ~(Blocked(ip) /\ ~Exempt(ip))
    /\ \/ /\ AllowSource(ip)
          /\ pgConns' = pgConns \cup {ip}
          /\ UNCHANGED pgTasks
       \/ ~AllowSource(ip) /\ Rejected(ip) /\ UNCHANGED pgConns
    /\ pgLate' = IF ip \in pgWord /\ Exempt(ip) THEN pgLate \cup {ip} ELSE pgLate
    /\ KeepAdmin /\ UNCHANGED <<pgBlocks, pgEvents>>

(* The TLS handshake, a frame or the tunnel handshake of a connection      *)
(* fails and the connection is closed, or it ends as it should.            *)
ConnEnds(ip) ==
    /\ ip \in pgConns
    /\ pgConns' = pgConns \ {ip}
    /\ Rejected(ip) \/ UNCHANGED pgTasks
    /\ KeepAdmin /\ UNCHANGED <<pgBlocks, pgEvents, pgLate>>

----------------------------------------------------------------------------
(* RecordReject *)

TaskGoes(w, pc) == pgTasks' = [pgTasks EXCEPT ![w] = IF pc = "idle" THEN NoTask ELSE [@ EXCEPT !.pc = pc]]

Record(w) ==
    /\ pgTasks[w].pc = "record"
    /\ LET t == pgTasks[w] IN
       pgEvents' = [pgEvents EXCEPT ![t.ip] = IF RecordEvents /\ t.counts /\ @ < Threshold THEN @ + 1 ELSE @]
    /\ TaskGoes(w, IF Enabled THEN "watch" ELSE "idle")
    /\ KeepAdmin /\ UNCHANGED <<pgBlocks, pgConns, pgLate>>

(* maybeAutoBan, up to the count of the events of the window.              *)
Watch(w) ==
    /\ pgTasks[w].pc = "watch"
    /\ LET t == pgTasks[w] IN
       TaskGoes(w, IF AutoBan /\ ~Allowlisted(t.ip) /\ ~Exempt(t.ip) /\ t.counts THEN "count" ELSE "idle")
    /\ KeepAdmin /\ UNCHANGED <<pgBlocks, pgEvents, pgConns, pgLate>>

CountEvents(w) ==
    /\ pgTasks[w].pc = "count"
    /\ TaskGoes(w, IF pgEvents[pgTasks[w].ip] >= Threshold THEN "ban" ELSE "idle")
    /\ KeepAdmin /\ UNCHANGED <<pgBlocks, pgEvents, pgConns, pgLate>>

(* UpsertIPBlock takes the place of whatever the row of the address said.  *)
BanAutomatically(w) ==
    /\ pgTasks[w].pc = "ban"
    /\ pgBlocks' = [pgBlocks EXCEPT ![pgTasks[w].ip] = [on |-> TRUE, until |-> "timed"]]
    /\ TaskGoes(w, "idle")
    /\ KeepAdmin /\ UNCHANGED <<pgEvents, pgConns, pgLate>>

(* Events leave the window, or are pruned.                                 *)
WindowPasses(ip) ==
    /\ pgEvents[ip] > 0
    /\ pgEvents' = [pgEvents EXCEPT ![ip] = @ - 1]
    /\ KeepAdmin /\ UNCHANGED <<pgBlocks, pgConns, pgTasks, pgLate>>

Expire(ip) ==
    /\ pgBlocks[ip].until = "timed"
    /\ pgBlocks' = [pgBlocks EXCEPT ![ip].until = "over"]
    /\ KeepAdmin /\ UNCHANGED <<pgEvents, pgConns, pgTasks, pgLate>>

PruneBlocks ==
    /\ pgBlocks' = [ip \in Sources |-> IF pgBlocks[ip].until = "over" THEN Free ELSE pgBlocks[ip]]
    /\ KeepAdmin /\ UNCHANGED <<pgEvents, pgConns, pgTasks, pgLate>>

----------------------------------------------------------------------------
(* The administrator *)

KeepPort == UNCHANGED <<pgAllowed, pgEvents, pgConns, pgTasks>>
Clerk(c, new) == pgClerks' = [pgClerks EXCEPT ![c] = new]

(* ManualBan asks whether the address is exempt, then writes the row.      *)
AskBan(c) ==
    /\ pgClerks[c] = NoClerk
    /\ \E ip \in Sources, pc \in {"forever", "timed"} : ~Exempt(ip) /\ Clerk(c, [NoClerk EXCEPT !.pc = pc, !.of = ip])
    /\ KeepPort /\ UNCHANGED <<pgBlocks, pgDb, pgMem, pgWord, pgLate, pgStale>>

(* Somebody of this address is in already, or is being rejected.           *)
Inside(ip) == ip \in pgConns \/ \E w \in Watchers : pgTasks[w].ip = ip

Ban(c) ==
    /\ pgClerks[c].pc \in {"forever", "timed"}
    /\ LET ip == pgClerks[c].of
           until == IF pgClerks[c].pc = "forever" THEN "never" ELSE "timed" IN
       /\ pgBlocks' = [pgBlocks EXCEPT ![ip] = [on |-> TRUE, until |-> until]]
       /\ pgWord' = IF until = "never" THEN pgWord \cup {ip} ELSE pgWord \ {ip}
       /\ pgLate' = IF until = "never" /\ Inside(ip) THEN pgLate \cup {ip} ELSE pgLate \ {ip}
    /\ Clerk(c, NoClerk)
    /\ KeepPort /\ UNCHANGED <<pgDb, pgMem, pgStale>>

Lift(ip) ==
    /\ pgBlocks' = [pgBlocks EXCEPT ![ip].on = FALSE]
    /\ pgWord' = pgWord \ {ip} /\ pgLate' = pgLate \ {ip}

Unban(ip) ==
    /\ pgBlocks[ip].on
    /\ Lift(ip)
    /\ KeepPort /\ UNCHANGED <<pgDb, pgMem, pgClerks, pgStale>>

(* The handlers of the exemption list write the table, then reload: a      *)
(* reload that has read the table does not see this any more.              *)
ChangeExempt(c, e, add) ==
    /\ pgClerks[c] = NoClerk
    /\ pgDb' = IF add THEN pgDb \cup {e} ELSE pgDb \ {e}
    /\ pgClerks' = [d \in Clerks |->
          IF d = c THEN [NoClerk EXCEPT !.pc = "list", !.add = add, !.of = e]
          ELSE IF pgClerks[d].pc = "set" THEN [pgClerks[d] EXCEPT !.crossed = TRUE]
          ELSE pgClerks[d]]
    /\ KeepPort /\ UNCHANGED <<pgBlocks, pgMem, pgWord, pgLate, pgStale>>

UpsertBanExempt(c) == \E e \in Exempts : ChangeExempt(c, e, TRUE)
DisableBanExempt(c) == \E e \in Exempts : ChangeExempt(c, e, FALSE)

ListExempts(c) ==
    /\ pgClerks[c].pc = "list"
    /\ Clerk(c, [pgClerks[c] EXCEPT !.pc = "set", !.list = pgDb])
    /\ KeepPort /\ UNCHANGED <<pgBlocks, pgDb, pgMem, pgWord, pgLate, pgStale>>

(* The list of the file is always part of it.                              *)
SetExempts(c) ==
    /\ pgClerks[c].pc = "set"
    /\ pgMem' = Yaml \cup pgClerks[c].list
    /\ pgStale' = pgClerks[c].crossed
    /\ Clerk(c, IF pgClerks[c].add THEN [NoClerk EXCEPT !.pc = "unban", !.of = pgClerks[c].of] ELSE NoClerk)
    /\ KeepPort /\ UNCHANGED <<pgBlocks, pgDb, pgWord, pgLate>>

(* A new exemption lifts the ban of exactly this address, not the bans of  *)
(* the addresses of a prefix.                                              *)
UnbanExempted(c) ==
    /\ pgClerks[c].pc = "unban"
    /\ LET e == pgClerks[c].of IN
       IF e \in Sources THEN Lift(e) ELSE UNCHANGED <<pgBlocks, pgWord, pgLate>>
    /\ Clerk(c, NoClerk)
    /\ KeepPort /\ UNCHANGED <<pgDb, pgMem, pgStale>>

PgRestart ==
    /\ pgDb' = pgDb \cup Yaml /\ pgMem' = pgDb \cup Yaml /\ pgStale' = FALSE
    /\ pgConns' = {}
    /\ pgTasks' = [w \in Watchers |-> NoTask]
    /\ pgClerks' = [c \in Clerks |-> NoClerk]
    /\ UNCHANGED <<pgAllowed, pgBlocks, pgEvents, pgWord, pgLate>>

PgNext ==
    \/ \E ip \in Sources : Accept(ip) \/ ConnEnds(ip) \/ WindowPasses(ip) \/ Expire(ip) \/ Unban(ip)
    \/ \E w \in Watchers : Record(w) \/ Watch(w) \/ CountEvents(w) \/ BanAutomatically(w)
    \/ \E c \in Clerks : AskBan(c) \/ Ban(c) \/ UpsertBanExempt(c) \/ DisableBanExempt(c)
                          \/ ListExempts(c) \/ SetExempts(c) \/ UnbanExempted(c)
    \/ PruneBlocks \/ PgRestart

PgSpec == PgInit /\ [][PgNext]_pgVars

----------------------------------------------------------------------------
PgTypeOK ==
    /\ \A ip \in Sources : pgBlocks[ip] \in [on : BOOLEAN, until : {"never", "timed", "over"}]
    /\ pgEvents \in [Sources -> 0..Threshold]
    /\ pgDb \subseteq Exempts /\ pgMem \subseteq Exempts
    /\ pgLate \subseteq pgWord /\ pgWord \subseteq Sources /\ pgConns \subseteq Sources

(* An address the administrator has banned for good stays banned for good  *)
(* until he lifts the ban, whatever is recorded of it meanwhile.  Except   *)
(* when it had been let in before, or under an exemption: the rejects of   *)
(* this connection replace his ban with one that expires.                  *)
BanKept == \A ip \in pgWord \ pgLate : pgBlocks[ip] = [on |-> TRUE, until |-> "never"]

(* When no request is under way, the list in memory is the table and the   *)
(* file, unless reloads of two requests crossed.                           *)
ExemptListCurrent ==
    (~pgStale /\ \A c \in Clerks : pgClerks[c].pc \notin {"list", "set"}) => pgMem = Yaml \cup pgDb

(* Which addresses are refused is what the administrator has said.         *)
BansHold == BanKept /\ ExemptListCurrent
=============================================================================
