---------------------------- MODULE ApprovalGate ----------------------------
(***************************************************************************)
(* What the mutation loop promises, without goroutines, hashes or a log:   *)
(* work is done only under a grant for exactly that work, which was taken  *)
(* up while it was good; each grant is good for one piece of work, and for *)
(* none after a restart; and nobody is told that work was done which is    *)
(* not on record.  Engine implements it (EngineGate).                      *)
(***************************************************************************)
EXTENDS Naturals, Sequences

CONSTANTS
    Work,      \* what can be asked for: an action with all its parameters
    People,    \* who may grant it
    Grants,    \* the names of grants
    Life       \* how long a grant is good, at most

VARIABLES
    granted,   \* grant -> the work it is for and who gave it
    live,      \* the grants not taken up -> the last moment they are good
    taken,     \* the grants taken up for work that is not done yet
    done,      \* the work done, in order, each under its grant
    recorded,  \* which of it is on record
    told,      \* which of it was reported as done
    time

gate == <<granted, live, taken, done, recorded, told, time>>

GateInit ==
    /\ granted = << >> /\ live = << >> /\ taken = {}
    /\ done = << >> /\ recorded = {} /\ told = {}
    /\ time = 0

\* A new grant g is given for a piece of work; those given before stay.
Grant(g) ==
    /\ g \in Grants
    /\ granted'[g] \in [work: Work, by: People]
    /\ granted' = [x \in DOMAIN granted \cup {g} |->
                      IF x = g THEN granted'[g] ELSE granted[x]]
    /\ g \in DOMAIN live' /\ live'[g] <= time + Life
    /\ live' = [x \in DOMAIN live \cup {g} |-> IF x = g THEN live'[g] ELSE live[x]]
    /\ UNCHANGED <<taken, done, recorded, told, time>>

\* A grant is taken up, not after its time, and is no longer there to be taken.
Take(g) ==
    /\ time <= live[g]
    /\ live' = [x \in DOMAIN live \ {g} |-> live[x]]
    /\ taken' = taken \cup {g}
    /\ UNCHANGED <<granted, done, recorded, told, time>>

\* The granted work is done, once.
Do(g) ==
    /\ \A i \in DOMAIN done : done[i].grant # g
    /\ done' = Append(done, [grant |-> g, work |-> granted[g].work,
                             by |-> granted[g].by])
    /\ taken' = taken \ {g}
    /\ UNCHANGED <<granted, live, recorded, told, time>>

\* It is not done after all: the grant is lost.
Drop(g) ==
    /\ taken' = taken \ {g}
    /\ UNCHANGED <<granted, live, done, recorded, told, time>>

Record(i) ==
    /\ i \in DOMAIN done
    /\ recorded' = recorded \cup {i}
    /\ UNCHANGED <<granted, live, taken, done, told, time>>

Tell(i) ==
    /\ i \in recorded
    /\ told' = told \cup {i}
    /\ UNCHANGED <<granted, live, taken, done, recorded, time>>

\* A restart: nothing given before it is good any more.
Void ==
    /\ live' = << >> /\ taken' = {}
    /\ UNCHANGED <<granted, done, recorded, told, time>>

Pass ==
    /\ time' = time + 1
    /\ UNCHANGED <<granted, live, taken, done, recorded, told>>

GateNext ==
    \/ \E g \in DOMAIN granted' \ DOMAIN granted : Grant(g)
    \/ \E g \in DOMAIN live : Take(g)
    \/ \E g \in taken : Do(g) \/ Drop(g)
    \/ \E i \in DOMAIN done : Record(i) \/ Tell(i)
    \/ Void \/ Pass

GateSpec == GateInit /\ [][GateNext]_gate
=============================================================================
