----------------------------- MODULE AuditTrail -----------------------------
(***************************************************************************)
(* What the audit log promises, with no file and no anchor: entries are    *)
(* added at the end while a writer serves, and some are acknowledged.      *)
(* Whenever the writer stops the end of the trail may go, but nothing that *)
(* was acknowledged.  Once the storage was damaged, or an operator stepped *)
(* in, the trail may be anything, and one promise is left: no writer       *)
(* starts on a trail that lacks an acknowledged entry.                     *)
(***************************************************************************)
EXTENDS Naturals, Sequences

VARIABLES
    trail,     \* the entries a reader finds, in order
    acked,     \* those acknowledged as lasting
    serving,   \* does a writer have the trail?
    intact     \* neither damaged nor touched by an operator

trailVars == <<trail, acked, serving, intact>>

Entries == LET t == trail IN {t[i] : i \in DOMAIN t}

Init == trail = << >> /\ acked = {} /\ serving = FALSE /\ intact = TRUE

Start ==
    /\ ~serving /\ serving'
    /\ UNCHANGED <<acked, intact>>
    /\ UNCHANGED trail
    /\ acked \subseteq Entries

\* A new entry follows the others.
Write ==
    /\ serving
    /\ UNCHANGED <<acked, serving, intact>>
    /\ \E e \in Entries' \ Entries : trail' = Append(trail, e)

Ack ==
    /\ serving
    /\ UNCHANGED <<serving, intact>>
    /\ acked # acked'
    /\ \E e \in acked' : acked' = acked \cup {e} /\ (intact => e \in Entries)
    /\ UNCHANGED trail

\* The writer stops, or the machine does.
Stop ==
    /\ ~serving'
    /\ UNCHANGED <<acked, intact>>
    /\ \E n \in 0..Len(trail) : trail' = SubSeq(trail, 1, n)
    /\ intact => acked \subseteq Entries'

\* A write goes wrong and leaves bytes behind, or the storage is damaged.
Damage == ~intact' /\ UNCHANGED <<acked, serving>>

\* An operator takes the trail as it is, or gives up what was acknowledged.
Intervene ==
    /\ ~serving /\ ~intact'
    /\ UNCHANGED serving
    /\ acked' \subseteq Entries
    /\ UNCHANGED trail

Next == Damage \/ Start \/ Ack \/ Stop \/ Write \/ Intervene

Spec == Init /\ [][Next]_trailVars
=============================================================================
