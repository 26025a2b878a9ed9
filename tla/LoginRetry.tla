----------------------------- MODULE LoginRetry -----------------------------
(***************************************************************************)
(* A client that keeps trying to log in, and a server that refuses it: the *)
(* banner before TLS, handshake_err with its text and its code, what the   *)
(* client makes of them (autherr, dialerr), whether it tries again, and    *)
(* how its refused attempts count towards a ban of its own address.        *)
(* An error is the sentinel errors.Is finds in it, and the phrase of its   *)
(* text that the classification knows.                                     *)
(***************************************************************************)
EXTENDS Naturals

CONSTANTS MaxOnline,    \* accountOnlineMaxRetries
          BanAfter,     \* ban_after_events
          Unsentinel    \* reasons of the server that are a text and nothing else

VARIABLES
    lrCodes,   \* the server puts a code beside its text
    lrSpared,  \* the address is exempt or allowlisted, or nothing is banned automatically
    lrCause,   \* why the server would refuse this client now
    lrRejects, \* events of the window that count towards a ban
    lrBan,     \* the address is in ip_blocks
    lrPc,      \* where the client is
    lrFlags,   \* failFast, authOKOnce, onlineRejects
    lrErr,     \* the last error of the client
    lrWhy,     \* why it was really refused
    lrHeard    \* the refusal reached it

srvVars == <<lrCodes, lrSpared, lrCause, lrRejects, lrBan>>
cliVars == <<lrPc, lrFlags, lrErr, lrWhy, lrHeard>>
lrVars == <<srvVars, cliVars>>

----------------------------------------------------------------------------
(* Errors *)

(* fatalAuthSentinels: what trying again does not heal.                    *)
FatalAuth == {"bad_credentials", "login_locked", "must_change_password", "no_vpn"}
BeforeTLS == {"ip_banned", "source_denied", "plaintext_before_tls"}
Sentinels == FatalAuth \cup BeforeTLS \cup {"account_online", "closed_before_tls"}

ASSUME LoginRetryAssumption == MaxOnline \in Nat \ {0} /\ Unsentinel \cap Sentinels = {}

(* The phrase of the text of each sentinel.  That of must_change_password  *)
(* is not the one fatalAuthLegacySubstrs looks for.                        *)
Says == [s \in Sentinels \cup Unsentinel \cup {"network"} |->
    CASE s = "bad_credentials" -> "wrong password"
      [] s = "login_locked"    -> "too many failures"
      [] s = "account_online"  -> "online elsewhere"
      [] s = "source_denied"   -> "not in the list"
      [] OTHER                 -> "unknown"]

Text(s) == [is |-> "none", says |-> Says[s]]
Error(s) == IF s \in Sentinels THEN [is |-> s, says |-> Says[s]] ELSE Text(s)
NoError == [is |-> "none", says |-> "nothing"]

IsIPBanned(e) == e.is = "ip_banned"
IsSourceDenied(e) == e.is = "source_denied" \/ e.says = "not in the list"
IsAccountOnline(e) == e.is = "account_online" \/ e.says = "online elsewhere"

(* The order matters: an error may satisfy several of these.               *)
Classify(e) ==
    CASE IsIPBanned(e)                               -> "IPBanned"
      [] IsAccountOnline(e)                          -> "AccountOnline"
      [] IsSourceDenied(e)                           -> "SourceDenied"
      [] e.is \in {"bad_credentials", "login_locked"} -> "AuthFailed"
      [] e.is \in FatalAuth                          -> "FatalAuth"
      [] e.says \in {"wrong password", "too many failures"} -> "AuthFailed"
      [] OTHER                                       -> "HandshakeReject"

IsFatalAuth(e) ==
    /\ ~IsAccountOnline(e)
    /\ \/ e.is = "plaintext_before_tls"
       \/ Classify(e) \in {"IPBanned", "FatalAuth", "AuthFailed", "SourceDenied"}

(* The code of the wire: the sentinel, else the category.                  *)
HandshakeCode(e) ==
    IF e.is \in Sentinels \ {"closed_before_tls"} THEN e.is
    ELSE CASE Classify(e) = "AccountOnline" -> "account_online"
           [] Classify(e) = "SourceDenied"  -> "source_denied"
           [] Classify(e) = "AuthFailed"    -> "bad_credentials"
           [] OTHER                         -> "handshake_reject"

HandshakeResponse(e) == [code |-> IF lrCodes THEN HandshakeCode(e) ELSE "", error |-> e.says]

FromHandshakeCode(code) == IF code \in Sentinels THEN code ELSE "none"

(* Mutant of ErrFromResponse: the text is kept, its sentinel is not.       *)
TextOfResponse(resp) == [is |-> "none", says |-> resp.error]

(* handshakeErrFromResponse wraps the sentinel in the text of the server.  *)
ErrFromResponse(resp) == [is |-> FromHandshakeCode(resp.code), says |-> resp.error]

----------------------------------------------------------------------------
(* What the client does about an error *)

IsFatalDialError(e) == e.is \in BeforeTLS
IsFatalHandshakeError(e) == IsIPBanned(e) \/ IsFatalAuth(e)
ShouldStopOnDial(e) == IsFatalDialError(e) \/ IsSourceDenied(e) \/ IsFatalHandshakeError(e)

(* reportFirstFailure: a login of the window gives up at the first failure *)
Report(e, fatal) ==
    /\ lrErr' = e
    /\ lrPc' = IF fatal \/ (lrFlags.fast /\ ~lrFlags.authOK) THEN "stopped" ELSE "pause"

(* onDialError, and the loop itself.                                       *)
OnDialError(e) ==
    /\ IF lrFlags.authOK
       THEN /\ lrPc' = IF ShouldStopOnDial(e) THEN "stopped" ELSE "pause"
            /\ lrErr' = IF ShouldStopOnDial(e) THEN e ELSE lrErr
       ELSE Report(e, ShouldStopOnDial(e))
    /\ UNCHANGED lrFlags

(* ShouldFailFastHandshake: an account that is online elsewhere is tried   *)
(* again, for ever once this engine has been connected.  onConnect has set *)
(* the state to connecting, so isReconnecting adds nothing here.           *)
OnHandshakeError(e) ==
    IF IsAccountOnline(e)
    THEN LET n == lrFlags.online + 1 IN
         IF lrFlags.authOK THEN Report(e, FALSE) /\ UNCHANGED lrFlags
         ELSE Report(e, n >= MaxOnline) /\ lrFlags' = [lrFlags EXCEPT !.online = n]
    ELSE Report(e, ShouldStopOnDial(e)) /\ UNCHANGED lrFlags

Refused(why, heard) == lrWhy' = why /\ lrHeard' = heard

----------------------------------------------------------------------------
(* The server counts *)

(* ClassifyHandshakeReject, and the default ignore_signatures_for_ban.     *)
Counts(e) == Classify(e) # "AuthFailed"

(* RecordReject and maybeAutoBan.                                          *)
RecordReject(counts) ==
    LET n == IF counts /\ lrRejects < BanAfter THEN lrRejects + 1 ELSE lrRejects IN
    /\ lrRejects' = n
    /\ lrBan' = (lrBan \/ (counts /\ ~lrSpared /\ n >= BanAfter))

----------------------------------------------------------------------------
Reasons == FatalAuth \cup Unsentinel \cup {"none", "account_online", "source_denied"}

LrInit ==
    /\ lrCodes \in BOOLEAN /\ lrSpared \in BOOLEAN
    /\ lrCause \in Reasons
    /\ lrRejects = 0 /\ lrBan = FALSE
    /\ lrPc = "idle"
    /\ lrFlags = [fast |-> FALSE, authOK |-> FALSE, online |-> 0]
    /\ lrErr = NoError /\ lrWhy = "none" /\ lrHeard = TRUE

(* A new engine: of the login window (failFast), or of the service.        *)
Start ==
    /\ lrPc \in {"idle", "stopped"}
    /\ \E fast \in BOOLEAN : lrFlags' = [fast |-> fast, authOK |-> FALSE, online |-> 0]
    /\ lrPc' = "dial" /\ lrErr' = NoError /\ Refused("none", TRUE)
    /\ UNCHANGED srvVars

Stop ==
    /\ lrPc \notin {"idle", "stopped"}
    /\ lrPc' = "idle"
    /\ UNCHANGED <<lrFlags, lrErr, lrWhy, lrHeard, srvVars>>

(* The server cannot be reached, or TLS fails.                             *)
DialFails ==
    /\ lrPc = "dial"
    /\ OnDialError(Text("network"))
    /\ Refused("network", TRUE)
    /\ UNCHANGED srvVars

(* CheckAccept writes a banner, which the client reads, or takes for       *)
(* broken TLS because it came late, or does not get to see.                *)
TurnedAway ==
    /\ lrPc = "dial"
    /\ lrBan \/ lrCause = "source_denied"
    /\ LET why == IF lrBan THEN "ip_banned" ELSE "source_denied" IN
       \E e \in {why, "plaintext_before_tls", "closed_before_tls", "network"} :
          /\ OnDialError(Error(e))
          /\ Refused(why, e \in BeforeTLS)
    /\ IF lrBan THEN UNCHANGED <<lrRejects, lrBan>> ELSE RecordReject(TRUE)
    /\ UNCHANGED <<lrCodes, lrSpared, lrCause>>

LetIn ==
    /\ lrPc = "dial"
    /\ ~lrBan /\ lrCause # "source_denied"
    /\ lrPc' = "asked"
    /\ UNCHANGED <<lrFlags, lrErr, lrWhy, lrHeard, srvVars>>

(* rejectHandshake: counted, answered, closed.  The answer may not arrive: *)
(* the client then waits for its timeout.                                  *)
Rejected ==
    /\ lrPc = "asked" /\ lrCause # "none"
    /\ RecordReject(Counts(Error(lrCause)))
    /\ \E heard \in BOOLEAN :
          /\ OnHandshakeError(IF heard THEN ErrFromResponse(HandshakeResponse(Error(lrCause)))
                              ELSE Text("network"))
          /\ Refused(lrCause, heard)
    /\ UNCHANGED <<lrCodes, lrSpared, lrCause>>

(* handshake_ok, markAuthOK; or the connection is lost before it.          *)
Accepted ==
    /\ lrPc = "asked" /\ lrCause = "none"
    /\ \/ /\ lrPc' = "up"
          /\ lrFlags' = [fast |-> FALSE, authOK |-> TRUE, online |-> 0]
          /\ lrErr' = NoError /\ Refused("none", TRUE)
       \/ OnHandshakeError(Text("network")) /\ Refused("network", TRUE)
    /\ UNCHANGED srvVars

Dropped == lrPc = "up" /\ lrPc' = "pause" /\ UNCHANGED <<lrFlags, lrErr, lrWhy, lrHeard, srvVars>>
Redial == lrPc = "pause" /\ lrPc' = "dial" /\ UNCHANGED <<lrFlags, lrErr, lrWhy, lrHeard, srvVars>>

(* Administrators, other devices, and the client that changes networks:    *)
(* but a connection keeps its address.                                     *)
CauseChanges ==
    /\ \E c \in Reasons \ {lrCause} :
          /\ lrPc \in {"asked", "up"} => c # "source_denied"
          /\ lrCause' = c
    /\ UNCHANGED <<lrCodes, lrSpared, lrRejects, lrBan, cliVars>>

WindowMoves ==
    /\ lrRejects > 0
    /\ lrRejects' = lrRejects - 1
    /\ UNCHANGED <<lrCodes, lrSpared, lrCause, lrBan, cliVars>>

BanEnds == lrBan /\ lrBan' = FALSE /\ UNCHANGED <<lrCodes, lrSpared, lrCause, lrRejects, cliVars>>

LrNext ==
    \/ Start \/ Stop \/ DialFails \/ TurnedAway \/ LetIn \/ Rejected \/ Accepted
    \/ Dropped \/ Redial \/ CauseChanges \/ WindowMoves \/ BanEnds

LrSpec == LrInit /\ [][LrNext]_lrVars

----------------------------------------------------------------------------
(* The reasons for which autherr says that no retry heals them.            *)
Lasting == FatalAuth \cup {"ip_banned", "source_denied"}

(* A client gives up by itself only for a reason no retry heals, or after  *)
(* MaxOnline attempts on an account that is in use, or at the first        *)
(* failure of a login in the window.                                       *)
GivesUpForCause ==
    lrPc = "stopped" =>
        \/ lrWhy \in Lasting
        \/ lrWhy = "account_online" /\ ~lrFlags.authOK /\ lrFlags.online = MaxOnline
        \/ lrFlags.fast /\ ~lrFlags.authOK

(* It does not go on against such a reason that has reached it, except     *)
(* that an older server may give one in words nobody recognises.           *)
DoesNotInsist ==
    lrPc = "pause" /\ lrErr # NoError /\ lrWhy \in Lasting /\ lrHeard => ~lrCodes /\ Says[lrWhy] = "unknown"

(* What it shows when it gave up is why it was refused, or, of a banner    *)
(* that came late, that there was one.                                     *)
ReasonShown ==
    lrPc = "stopped" /\ lrHeard /\ lrCodes /\ lrWhy \in Lasting =>
        \/ lrErr.is = lrWhy
        \/ lrErr.is = "plaintext_before_tls" /\ lrWhy \in BeforeTLS

(* Through the wrapping of the server, the code and the text on the wire   *)
(* or the banner, and the counters of the client: a refusal ends the       *)
(* attempts exactly when it should.                                        *)
RefusalsTold == GivesUpForCause /\ DoesNotInsist /\ ReasonShown
=============================================================================
