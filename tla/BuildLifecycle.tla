--------------------------- MODULE BuildLifecycle ---------------------------
(***************************************************************************)
(* What the build cluster promises about a build task, whatever the        *)
(* scheduler, the leases, the limits and the billing do: a task is         *)
(* submitted once, each grant hands it to one builder under a new token,   *)
(* a build ends only while its lease runs, a withdrawal or a later grant   *)
(* makes every earlier token worthless, an end is final, and the tenant is *)
(* charged at most once, in the step of a grant.                           *)
(***************************************************************************)
EXTENDS Naturals

CONSTANTS Task, Builder, NoBuilder

VARIABLES
    state,      \* where the task is in its life
    token,      \* number of grants and withdrawals, the fencing token
    holder,     \* builder of the last grant
    charged     \* tasks whose tenant was charged

lifecycleVars == <<state, token, holder, charged>>

Waiting == {"queued", "lapsed"}
Open == Waiting \cup {"held"}
Ended == {"success", "failed", "cancelled"}

LifecycleInit ==
    /\ state = [t \in Task |-> "none"]
    /\ token = [t \in Task |-> 0]
    /\ holder = [t \in Task |-> NoBuilder]
    /\ charged = {}

Submit(t) ==
    /\ state[t] = "none"
    /\ state' = [state EXCEPT ![t] = "queued"]
    /\ UNCHANGED <<token, holder, charged>>

GrantTo(t, b) ==
    /\ state[t] \in Waiting
    /\ state' = [state EXCEPT ![t] = "held"]
    /\ token' = [token EXCEPT ![t] = @ + 1]
    /\ holder' = [holder EXCEPT ![t] = b]
    /\ charged' \in {charged, charged \cup {t}}

Lapse(t) ==
    /\ state[t] = "held"
    /\ state' = [state EXCEPT ![t] = "lapsed"]
    /\ UNCHANGED <<token, holder, charged>>

\* Once the lease is over nobody can end the task for its holder.
End(t, outcome) ==
    /\ state[t] = "held"
    /\ state' = [state EXCEPT ![t] = outcome]
    /\ UNCHANGED <<token, holder, charged>>

Withdraw(t) ==
    /\ state[t] \in Open
    /\ state' = [state EXCEPT ![t] = "cancelled"]
    /\ token' = [token EXCEPT ![t] = @ + 1]
    /\ UNCHANGED <<holder, charged>>

LifecycleNext ==
    \E t \in Task :
        \/ Submit(t)
        \/ Lapse(t)
        \/ Withdraw(t)
        \/ \E b \in Builder : GrantTo(t, b)
        \/ \E outcome \in {"success", "failed"} : End(t, outcome)

LifecycleSpec == LifecycleInit /\ [][LifecycleNext]_lifecycleVars
=============================================================================
