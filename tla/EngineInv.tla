----------------------------- MODULE EngineInv -----------------------------
(***************************************************************************)
(* The inductive invariant of Engine: what holds between any two steps of  *)
(* any calls, and is strong enough to carry itself through every step.     *)
(* The properties of Engine speak of what has happened; the invariant adds *)
(* what each call in flight holds while it happens.                        *)
(***************************************************************************)
EXTENDS EngineGate

\* A stored plan carries its own hash and an honest judgement of its reach.
SoundPlan(s) ==
    /\ s.PlanHash = PlanHash(s.Tuple)
    /\ s.WithinBound => Within(s.Tuple.DeclaredBound, s.Tuple.ComputedReach)

PlansSound ==
    /\ \A id \in DOMAIN plans : SoundPlan(plans[id])
    /\ \A c \in Calls : SoundPlan(call[c].snap)
    /\ \A t \in DOMAIN minted : SoundPlan(minted[t].plan)

\* Every token ever minted is for a plan within its bound and from an approver
\* who may approve it; a call about to mint has checked both.
DutiesSound ==
    /\ \A t \in DOMAIN minted :
          /\ minted[t].plan.WithinBound
          /\ CheckSoD(minted[t].plan.Proposer, minted[t].approver)
    /\ \A c \in Calls : call[c].pc = "mint" =>
          /\ call[c].snap.WithinBound
          /\ CheckSoD(call[c].snap.Proposer, call[c].actor)

\* The store remembers tokens as they were minted.
TokensSound ==
    \A t \in DOMAIN tokens :
        /\ t \in DOMAIN minted
        /\ tokens[t].planHash = minted[t].plan.PlanHash
        /\ tokens[t].approver = minted[t].approver

\* There is an approve row for token t.
OnRecord(t) ==
    \E r \in DOMAIN log : /\ log[r].Event = "approve"
                          /\ log[r].PlanHash = minted[t].plan.PlanHash
                          /\ log[r].Approver = minted[t].approver

\* Tokens leave the engine only after their approve row; a call that is about
\* to write that row still knows what it minted.
HandedSound ==
    /\ \A t \in handed : t \in DOMAIN minted /\ OnRecord(t)
    /\ \A c \in Calls : call[c].pc = "auditApprove" =>
          /\ call[c].tok \in DOMAIN minted
          /\ minted[call[c].tok].plan = call[c].snap
          /\ minted[call[c].tok].approver = call[c].actor
    /\ \A c \in Calls : call[c].pc = "consume" => call[c].tok \in handed \cup {0}

\* The token t is taken out of the store or marked in it.
Spent(t) == t \in DOMAIN tokens => tokens[t].consumed

\* Such a call is the only one with its token, the token is spent and has done
\* nothing yet, and it is for the plan the call is about to run.
HoldersSound ==
    \A c \in Calls : Holding(c) =>
        /\ call[c].tok \in handed
        /\ Spent(call[c].tok)
        /\ call[c].snap.PlanHash = minted[call[c].tok].plan.PlanHash
        /\ call[c].actor = minted[call[c].tok].approver
        /\ \A i \in DOMAIN mutations : mutations[i].token # call[c].tok
        /\ \A d \in Calls : Holding(d) /\ call[d].tok = call[c].tok => d = c
        /\ call[c].pc = "mutate" =>
              Within(call[c].snap.Tuple.DeclaredBound, call[c].reach)

\* Every mutation was made with a spent token of its own, for its own plan.
MutationsSound ==
    \A i \in DOMAIN mutations :
        /\ mutations[i].token \in handed
        /\ Spent(mutations[i].token)
        /\ SoundPlan(mutations[i].ran)
        /\ mutations[i].ran.PlanHash = minted[mutations[i].token].plan.PlanHash
        /\ mutations[i].approver = minted[mutations[i].token].approver
        /\ Within(mutations[i].ran.Tuple.DeclaredBound, mutations[i].checked)
        /\ \A j \in DOMAIN mutations :
              mutations[j].token = mutations[i].token => j = i

IInv ==
    /\ PlansSound
    /\ DutiesSound
    /\ TokensSound
    /\ HandedSound
    /\ HoldersSound
    /\ MutationsSound

---------------------------------------------------------------------------
(* The tokens that may still be used.  This part rests on IInv.            *)

\* No token outlives its time, counted from now; one whose approve row is still to be
\* written is in the store, unspent, and known to the call that writes it alone.
LifeInv ==
    /\ \A t \in DOMAIN tokens : tokens[t].expiresAt <= now + TTL
    /\ \A c \in Calls : call[c].pc = "auditApprove" =>
          /\ InStore(call[c].tok)
          /\ call[c].tok \notin handed
          /\ \A d \in Calls : call[d].pc = "auditApprove" /\ call[d].tok = call[c].tok => d = c

---------------------------------------------------------------------------
(* The rows of the execute events.  This part carries itself: it does not  *)
(* rest on IInv.                                                           *)

\* The row a mutation names is an execute row and tells of that mutation.
RowsTold ==
    \A i \in DOMAIN mutations : mutations[i].row # 0 =>
        /\ mutations[i].row \in DOMAIN log
        /\ log[mutations[i].row].Event = "execute"
        /\ Records(mutations[i].row, i)

\* Each execute row is named by one mutation.
RowsNamed ==
    /\ \A r \in DOMAIN log : log[r].Event = "execute" =>
          \E i \in DOMAIN mutations : mutations[i].row = r
    /\ \A i, j \in DOMAIN mutations :
          mutations[i].row # 0 /\ mutations[j].row = mutations[i].row => i = j

\* A call about to write its execute row knows its own mutation as it was made, and
\* nobody else is about to write one for it; a call that wrote it has it on record.
WritersSound ==
    \A c \in Calls :
        /\ call[c].pc = "auditExecute" =>
              /\ call[c].mut \in DOMAIN mutations
              /\ mutations[call[c].mut].row = 0
              /\ mutations[call[c].mut].ran = call[c].snap
              /\ mutations[call[c].mut].checked = call[c].reach
              /\ mutations[call[c].mut].approver = call[c].actor
              /\ \A d \in Calls : call[d].pc = "auditExecute" /\ call[d].mut = call[c].mut
                    => d = c
        /\ call[c].pc = "exeID" =>
              call[c].mut \in DOMAIN mutations /\ mutations[call[c].mut].row # 0

\* What was reported has its row.
ReportsSound ==
    \A i \in reported : i \in DOMAIN mutations /\ mutations[i].row # 0

RowsInv == RowsTold /\ RowsNamed /\ WritersSound /\ ReportsSound
---------------------------------------------------------------------------
(* The ids.  This part too carries itself.                                 *)

\* The counter is ahead of every stored plan; a call that took an id and has not
\* stored its plan is alone with that id; until a restart no plan that a client was
\* shown, or is about to be shown, is forgotten.
IdsInv ==
    /\ \A id \in DOMAIN plans : id <= idseq
    /\ \A c \in Calls : call[c].pc = "store" =>
          /\ call[c].snap.PlanID <= idseq
          /\ call[c].snap.PlanID \notin DOMAIN plans
          /\ \A d \in Calls : call[d].pc = "store" /\ call[d].snap.PlanID = call[c].snap.PlanID
                => d = c
    /\ crashes = 0 =>
          /\ \A p \in shown : p.PlanID \in DOMAIN plans
          /\ \A c \in Calls : call[c].pc = "auditPlan" => call[c].snap.PlanID \in DOMAIN plans

---------------------------------------------------------------------------
(* What the log tells when the sink never fails.                           *)

\* Until a restart every stored plan, and so every plan a call is about to approve,
\* has its plan row or will have it.
StoryInv ==
    /\ crashes = 0 =>
          /\ \A id \in DOMAIN plans : PlanTold(plans[id].PlanHash)
          /\ \A c \in Calls : call[c].pc \in {"mint", "auditApprove"} =>
                PlanTold(call[c].snap.PlanHash)
    /\ LogTellsTheStory

\* Call c is about to write the execute or refuse row of this token and plan.
WillTell(c, token, hash, approver) ==
    /\ call[c].tok = token
    /\ call[c].snap.PlanHash = hash
    /\ call[c].actor = approver

\* Each spent token is in the hands of the call that will tell of it, or told of.
SpentInv ==
    \A t \in DOMAIN tokens : tokens[t].consumed =>
        \/ \E c \in Calls : /\ call[c].pc \in {"recheck", "mutate", "auditExecute", "refuse"}
                            /\ WillTell(c, t, tokens[t].planHash, tokens[t].approver)
        \/ \E r \in DOMAIN log : /\ log[r].Event \in {"execute", "refuse"}
                                 /\ log[r].PlanHash = tokens[t].planHash
                                 /\ log[r].Approver = tokens[t].approver

\* AccountedFor, by the call that made the mutation and none other.
Told(i) ==
    LET m == mutations[i]
    IN  \/ m.row # 0
        \/ \E r \in DOMAIN log : /\ log[r].Event = "refuse"
                                 /\ log[r].PlanHash = m.ran.PlanHash
                                 /\ log[r].Approver = m.approver
        \/ \E c \in Calls : /\ call[c].pc = "refuse" \/ (call[c].pc = "auditExecute" /\ call[c].mut = i)
                            /\ WillTell(c, m.token, m.ran.PlanHash, m.approver)

Untold == {i \in DOMAIN mutations : ~Told(i)}

\* A restart loses one mutation for each goroutine at most.
UntoldInv == Cardinality(Untold) <= crashes * Cardinality(Calls)
=============================================================================
