----------------------------- MODULE CouncilPanel -----------------------------
(***************************************************************************)
(* The Council's panel of the web cabinet (web_cabinet/api.py) over the    *)
(* payout gateway it is wired to: the overview, and the veto and the TOTP  *)
(* confirmation that members give from it. The overview is built on a      *)
(* worker thread from one listing of the payouts, while every handler of   *)
(* the gateway goes on, and members act on what it showed.                 *)
(*                                                                         *)
(* Abstracted: a TOTP code is the member it belongs to and the time step   *)
(* it is made for; a payout's share stands for its risk. Texts, policies   *)
(* and the panel's own timeline of audit records are left out: nothing the *)
(* panel decides depends on them.                                          *)
(***************************************************************************)
EXTENDS PayoutGateway, Functions

CONSTANTS
    SecretOf,       \* the council members with a TOTP secret at the cabinet
    Annotated,      \* payout -> the risk the Council noted, or NoId
    Share,          \* payout -> its share, in percent
    StepTicks,      \* step_seconds of TOTP, in ticks of the clock
    Drift           \* allowed_drift_steps

RiskLevels == <<"critical", "high", "medium", "low">>

ASSUME PanelAssumption ==
    /\ IsFiniteSet(Payouts)
    /\ SecretOf \subseteq Council
    /\ Annotated \in [Payouts -> Range(RiskLevels) \cup {NoId}]
    /\ NoId \notin Range(RiskLevels)
    /\ Share \in [Payouts -> 0..100]
    /\ StepTicks \in Nat \ {0} /\ Drift \in Nat

VARIABLES
    panelNow,       \* the "now" a panel is being built for, or NoId
    panelList,      \* the payouts it listed
    panel           \* what it shows

panelVars == <<panelNow, panelList, panel>>

NotListed == [listed |-> FALSE]
NotShown == [items |-> <<>>, shown |-> FALSE]

PanelInit ==
    /\ panelNow = NoId
    /\ panelList = NotListed
    /\ panel = NotShown

\* The clock, or the "now" of the query.
OpenPanel ==
    /\ panelNow = NoId
    /\ panelNow' \in Nows
    /\ UNCHANGED <<vars, panelList, panel>>

ListPayouts ==
    /\ panelNow # NoId
    /\ panelList = NotListed
    /\ panelList' = [listed |-> TRUE, payouts |-> payouts]
    /\ UNCHANGED <<vars, panelNow, panel>>

\* _default_risk_level.
DefaultRisk(p) ==
    IF Share[p] >= 35 THEN "high" ELSE IF Share[p] >= 15 THEN "medium" ELSE "low"

\* An annotation of the Council overrides the default.
RiskOf(p) == IF Annotated[p] = NoId THEN DefaultRisk(p) ELSE Annotated[p]

\* _risk_order.
RiskOrder(level) == CHOOSE i \in DOMAIN RiskLevels : RiskLevels[i] = level

\* _tenant_has_totp_secret: that of any member, not of the one who looks.
TenantHasSecret == SecretOf # {}

\* Fault: the status of the payout is not asked for.
VetoOffered_AnyStatus(item, now) == now < item.veto_until

VetoOffered(item, now) == item.status = "queued" /\ now < item.veto_until

ConfirmOffered(item) ==
    item.status = "queued" /\ item.confirmation = NoId /\ TenantHasSecret

\* _council_panel_payout_item.
PanelItem(p, item, now) ==
    [payout |-> p, status |-> item.status, veto_until |-> item.veto_until,
     left |-> IF now < item.veto_until THEN item.veto_until - now ELSE 0,
     risk |-> RiskOf(p), veto_available |-> VetoOffered(item, now),
     confirm_available |-> ConfirmOffered(item)]

PanelItems(list, now) ==
    {PanelItem(p, list[p], now) : p \in {q \in Payouts : list[q].status # "absent"}}

\* The riskiest first, then those whose window closes first. Ids break the ties,
\* and have no order here: either of two may come first.
Before(a, b) ==
    \/ RiskOrder(a.risk) < RiskOrder(b.risk)
    \/ RiskOrder(a.risk) = RiskOrder(b.risk) /\ a.veto_until < b.veto_until

InOrder(items) ==
    {order \in Injection(1 .. Cardinality(items), items) :
        \A i, j \in DOMAIN order : i < j => ~Before(order[j], order[i])}

\* _council_panel_summary.
PanelSummary(items) ==
    [status \in PayoutStatus \ {"absent"} |-> Cardinality({i \in items : i.status = status})]

ShowPanel ==
    /\ panelList.listed /\ ~panel.shown
    /\ LET items == PanelItems(panelList.payouts, panelNow)
       IN  \E order \in InOrder(items) :
              panel' = [items |-> order, shown |-> TRUE, summary |-> PanelSummary(items)]
    /\ UNCHANGED <<vars, panelNow, panelList>>

\* Members that never look again.
ClosePanel ==
    /\ panel.shown
    /\ panelNow' = NoId /\ panelList' = NotListed /\ panel' = NotShown
    /\ UNCHANGED vars

---------------------------------------------------------------------------
(***************************************************************************)
(* TOTPService of libs/shared/auth.py                                      *)
(***************************************************************************)

Counter(at) == at \div StepTicks

Codes == [subject : Subjects, counter : 0..Counter(MaxTime + Skew)]

\* verify_totp: the code of the step the caller names, or of one near it.
VerifyTotp(subject, code, at) ==
    /\ code.subject = subject
    /\ code.counter \in (Counter(at) - Drift)..(Counter(at) + Drift)

\* confirm_sensitive_operation: the second factor is that of the caller, for
\* this payout, at the moment the request names or at the clock.
TwoFactor(subject, p, code) ==
    /\ subject \in SecretOf
    /\ \E at \in Nows : VerifyTotp(subject, code, at)

\* council_panel_veto_payout, council_panel_confirm_payout: a member acts on an
\* offer of the panel; the managers decide as for any other caller.
PanelVeto(p, d) ==
    /\ \E i \in DOMAIN panel.items : panel.items[i].payout = p /\ panel.items[i].veto_available
    /\ VetoPayout(p, d) \/ VetoDuplicateDecision(p, d)

PanelConfirm(p, k, subject) ==
    /\ \E i \in DOMAIN panel.items : panel.items[i].payout = p /\ panel.items[i].confirm_available
    /\ \E code \in Codes : TwoFactor(subject, p, code)
    /\ ConfirmPayout(p, k)
    /\ [id |-> k, payout |-> p, actor |-> subject] \in confirmations'

GatewayMoves == Next /\ UNCHANGED panelVars

PanelNext ==
    \/ GatewayMoves
    \/ OpenPanel \/ ListPayouts \/ ShowPanel \/ ClosePanel
    \/ \E p \in Payouts :
          \/ \E d \in Decisions : PanelVeto(p, d) /\ UNCHANGED panelVars
          \/ \E k \in Confirmations, subject \in Council :
                PanelConfirm(p, k, subject) /\ UNCHANGED panelVars

allVars == <<vars, panelVars>>

PanelSpec == Init /\ PanelInit /\ [][PanelNext]_allVars

---------------------------------------------------------------------------
Shown == {panel.items[i] : i \in DOMAIN panel.items}
Unmoved(i) == payouts[i.payout] = panelList.payouts[i.payout]

\* What a panel offers can be done until the payout moves on: a veto for as long
\* as the clock has not passed the time the panel was built for, and a
\* confirmation by every member with a secret, for nobody has confirmed the
\* payout behind the back of its record (veto_available, confirm_available
\* against veto_payout and confirm_payout).
OffersStand ==
    \A i \in Shown : Unmoved(i) =>
        /\ i.veto_available /\ clock <= panelNow => Vetoable(i.payout)
        /\ i.confirm_available =>
              /\ \A s \in SecretOf : Confirmable(i.payout, s, [subject |-> s, resource |-> i.payout])
              /\ \A k \in confirmations : k.payout # i.payout

\* What was executed or canceled when it was listed stays so, and a payout that
\* is offered for a veto could not be executed at the time the panel was built
\* for (execute_payout behind the panel's back, _require_executable).
NoOfferForMoney ==
    \A i \in Shown :
        /\ i.status \in {"executed", "canceled"} => payouts[i.payout].status = i.status
        /\ i.veto_available => ~Executable(panelList.payouts[i.payout], panelNow)

\* Every payout is counted once, and a riskier one never comes after a safer one
\* (_council_panel_summary, _risk_order).
PanelAddsUp ==
    panel.shown =>
        /\ DOMAIN panel.items =
              1 .. Cardinality({p \in Payouts : panelList.payouts[p].status # "absent"})
        /\ {i.payout : i \in Shown} = {p \in Payouts : panelList.payouts[p].status # "absent"}
        /\ \A i, j \in DOMAIN panel.items :
              i < j => RiskOrder(panel.items[i].risk) <= RiskOrder(panel.items[j].risk)
        /\ \A s \in DOMAIN panel.summary :
              panel.summary[s] = Cardinality({p \in Payouts : panelList.payouts[p].status = s})

\* A member who acts on the panel finds what it offered, and nothing it offers has
\* been overtaken unless the payout or the clock moved on (_build_council_panel_overview).
PanelKeepsItsWord == OffersStand /\ NoOfferForMoney /\ PanelAddsUp
=============================================================================
