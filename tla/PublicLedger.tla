----------------------------- MODULE PublicLedger -----------------------------
(* What the public feed promises its consumer, with no stages, transactions,  *)
(* files or faults (docs/PUBLIC_AUDIO_CONTRACT.md): artifacts appear under    *)
(* growing orders, each carrying records that no other artifact carries and   *)
(* that lie beyond everything published before; an artifact leaves the feed   *)
(* only after the consumer acknowledged it; and the collector gives up its    *)
(* last private copy of a record only once the record was published.          *)
EXTENDS Integers

CONSTANTS
    Records,       \* <<sequence number, bytes>> of the records the device sends
    Orders         \* public feed positions

VARIABLES
    feed,          \* order -> the records published under it ({}: none yet)
    retired,       \* the orders that have left the feed
    confirmed,     \* the orders the consumer has acknowledged
    kept           \* records of which a private copy exists

vars == <<feed, retired, confirmed, kept>>

Published == UNION {feed[o] : o \in Orders}

Init ==
    /\ feed = [o \in Orders |-> {}]
    /\ retired = {}
    /\ confirmed = {}
    /\ kept = {}

\* Sources are captured: private copies only grow.
Capture ==
    /\ kept \subseteq kept'
    /\ kept' \subseteq Records
    /\ UNCHANGED <<feed, retired, confirmed>>

\* An artifact becomes public, after every earlier one in order and in sequence.
Publish(o) ==
    /\ feed'[o] # {}
    /\ feed'[o] \subseteq kept
    /\ \A p \in Orders : feed[p] # {} => p < o /\ \A m \in feed[p], n \in feed'[o] : m[1] < n[1]
    /\ feed' = [feed EXCEPT ![o] = feed'[o]]
    /\ UNCHANGED <<retired, confirmed, kept>>

Acknowledge(o) ==
    /\ confirmed' = confirmed \cup {o}
    /\ UNCHANGED <<feed, retired, kept>>

Retire(o) ==
    /\ feed[o] # {}
    /\ o \in confirmed
    /\ retired' = retired \cup {o}
    /\ UNCHANGED <<feed, confirmed, kept>>

\* The last private copies of some published records are deleted.
Discard ==
    /\ kept' \subseteq kept
    /\ kept \ kept' \subseteq Published
    /\ UNCHANGED <<feed, retired, confirmed>>

Next ==
    \/ Capture
    \/ Discard
    \/ \E o \in Orders : Publish(o) \/ Acknowledge(o) \/ Retire(o)

Spec == Init /\ [][Next]_vars
===============================================================================
