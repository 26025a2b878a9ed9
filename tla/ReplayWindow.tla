---------------------------- MODULE ReplayWindow ----------------------------
(***************************************************************************)
(* One direction of a tunnel session: the counters Encrypt hands out, and  *)
(* what Decrypt makes of packets that arrive in any order, more than once, *)
(* or that do not open.  The filter is wireguard's replay.Filter, which    *)
(* remembers at least the Window counters below the highest one.           *)
(***************************************************************************)
EXTENDS Naturals

CONSTANTS Window,      \* windowSize of the filter (8128)
          Limit        \* replayCounterLimit (2^64 - 1)

ASSUME ReplayAssumption == Window \in Nat /\ Limit \in Nat

VARIABLES
    sendCounter,   \* counters handed out by the sender
    last,          \* highest counter the filter has seen
    marked,        \* counters whose bit is set
    got,           \* how often the packet of a counter was delivered
    refused        \* counters of genuine packets that were refused

replayVars == <<sendCounter, last, marked, got, refused>>
filterVars == <<last, marked, got, refused>>

Counters == 0..Limit

ReplayTypeOK ==
    /\ sendCounter \in 0..Limit /\ last \in Counters
    /\ marked \in SUBSET Counters /\ refused \in SUBSET Counters
    /\ got \in [Counters -> Nat]

ReplayInit ==
    /\ sendCounter = 0 /\ last = 0
    /\ marked = {} /\ refused = {}
    /\ got = [c \in Counters |-> 0]

(* Session.Encrypt: the packet may be sent much later, or never.           *)
Encrypt ==
    /\ sendCounter < Limit
    /\ sendCounter' = sendCounter + 1
    /\ UNCHANGED filterVars

(* ValidateCounter, without its effect.                                    *)
Fresh(c) == c < Limit /\ c \notin marked /\ (c > last \/ last - c <= Window)

(* Its effect.                                                             *)
Mark(c) == marked' = marked \cup {c} /\ last' = IF c > last THEN c ELSE last

Refuse(c, opens) ==
    /\ ~Fresh(c)
    /\ refused' = IF opens THEN refused \cup {c} ELSE refused
    /\ UNCHANGED <<sendCounter, last, marked, got>>

(* Mutant of Rollback: a packet that does not open has used its counter.   *)
Burn(c) ==
    /\ Fresh(c)
    /\ Mark(c)
    /\ UNCHANGED <<sendCounter, got, refused>>

(* Open fails: the filter is put back.                                     *)
Rollback(c) ==
    /\ Fresh(c)
    /\ UNCHANGED replayVars

Accept(c) ==
    /\ Fresh(c)
    /\ Mark(c)
    /\ got' = [got EXCEPT ![c] = @ + 1]
    /\ UNCHANGED <<sendCounter, refused>>

(* Session.Decrypt, under replayMu, of a packet with counter c.            *)
Decrypt(c, opens) == Refuse(c, opens) \/ (opens /\ Accept(c)) \/ (~opens /\ Rollback(c))

(* A packet that opens was sealed by the other side.                       *)
ReplayNext ==
    \/ Encrypt
    \/ \E c \in Counters : \/ c < sendCounter /\ Decrypt(c, TRUE)
                           \/ Decrypt(c, FALSE)

ReplaySpec == ReplayInit /\ [][ReplayNext]_replayVars

-----------------------------------------------------------------------------
(* No packet is delivered twice, and only packets the peer has sealed are. *)
NeverTwice == \A c \in Counters : got[c] <= 1 /\ (got[c] = 1 => c < sendCounter)

(* A genuine packet is refused only when it was delivered before, or when  *)
(* one more than a window ahead of it was: a broken packet with the same   *)
(* counter does not take its place.                                        *)
RefusedForCause ==
    \A c \in refused :
        got[c] = 1 \/ \E d \in Counters : d > c + Window /\ got[d] = 1

(* Both, of every order in which packets arrive.                           *)
PacketsOnce == NeverTwice /\ RefusedForCause
=============================================================================
