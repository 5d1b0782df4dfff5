-------------------------- MODULE PayoutLifecycle --------------------------
(***************************************************************************)
(* What the HITL Payout Gateway promises about a payout, whatever runs     *)
(* concurrently: money leaves only for a payout the Council confirmed and  *)
(* whose veto window has closed, a veto inside the window stops it for     *)
(* good, and a payout is executed only once it has been paid.              *)
(***************************************************************************)
CONSTANT Payouts

VARIABLES
    phase,  \* where each payout stands
    open,   \* the payouts whose veto window is open
    paid    \* the payouts for which the gateway holds a payment

vars == <<phase, open, paid>>

Phases == {"none", "queued", "confirmed", "canceled", "executed"}

TypeOK ==
    /\ phase \in [Payouts -> Phases]
    /\ open \subseteq Payouts
    /\ paid \subseteq Payouts

Init ==
    /\ phase = [p \in Payouts |-> "none"]
    /\ open = {}
    /\ paid = {}

Move(p, from, to) ==
    /\ phase[p] \in from
    /\ phase' = [phase EXCEPT ![p] = to]

Queue(p)   == Move(p, {"none"}, "queued") /\ open' = open \cup {p} /\ paid' = paid

Confirm(p) == Move(p, {"queued"}, "confirmed") /\ UNCHANGED <<open, paid>>

Veto(p) ==
    /\ p \in open
    /\ Move(p, {"queued", "confirmed"}, "canceled")
    /\ UNCHANGED <<open, paid>>

\* Time closes the windows of some payouts.
Close == open' \in SUBSET open /\ UNCHANGED <<phase, paid>>

Pay(p) ==
    /\ phase[p] = "confirmed"
    /\ p \notin open
    /\ paid' = paid \cup {p}
    /\ UNCHANGED <<phase, open>>

Settle(p) ==
    /\ p \in paid
    /\ Move(p, {"confirmed"}, "executed")
    /\ UNCHANGED <<open, paid>>

Next ==
    \/ Close
    \/ \E p \in Payouts :
          Queue(p) \/ Confirm(p) \/ Veto(p) \/ Pay(p) \/ Settle(p)

Spec == Init /\ [][Next]_vars
=============================================================================
