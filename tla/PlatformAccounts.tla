-------------------------- MODULE PlatformAccounts --------------------------
(***************************************************************************)
(* Accounts on platforms that the messenger adapter works with between     *)
(* awaits (services/messenger-adapter): encrypted Telethon sessions that   *)
(* the server rotates while a client is open (telegram_telethon.py), and   *)
(* the rate limiters, one there and one in vk_adapter.py, which take the   *)
(* same steps.                                                             *)
(*                                                                         *)
(* Tasks interleave at their awaits. The loop is taken to be on time: a    *)
(* task that sleeps is woken in the second that it waits for.              *)
(***************************************************************************)
EXTENDS Integers, FiniteSets

CONSTANTS
    Senders,          \* tasks that publish through Telethon
    SessionTenants,
    TenantOfSender,   \* sender -> the tenant whose session it uses
    Interval,         \* effective_interval_seconds
    MaxMoment,        \* bound: seconds
    MaxSessions,      \* bound: sessions logged in to or rotated
    NoSession, NoSlot

ASSUME AccountsAssumption ==
    /\ TenantOfSender \in [Senders -> SessionTenants]
    /\ Interval \in Nat \ {0}
    /\ NoSlot \notin Nat

VARIABLES
    moment,      \* the clock
    slots,       \* _last_sent_at and _last_called_at: key -> time, or NoSlot
    pace,        \* task -> its place at the limiter
    grants,      \* calls the limiter let through: when they asked and left
    sessions,    \* tenant -> stored session, or NoSession
    issued,      \* tenant -> number of sessions issued so far
    opened       \* sender -> its client

paceVars == <<moment, slots, pace, grants>>
sessionVars == <<sessions, issued, opened>>
accountVars == <<moment, slots, pace, grants, sessions, issued, opened>>

\* The keys of the limiter: a sender publishes to one target of its tenant.
Keys == SessionTenants

Unpaced == [step |-> "none", asked |-> 0, due |-> 0]
Closed == [step |-> "closed", read |-> 0, session |-> 0]

AccountsInit ==
    /\ moment = 0
    /\ slots = [k \in Keys |-> NoSlot]
    /\ pace = [c \in Senders |-> Unpaced]
    /\ grants = {}
    /\ sessions = [t \in SessionTenants |-> NoSession]
    /\ issued = [t \in SessionTenants |-> 0]
    /\ opened = [s \in Senders |-> Closed]

---------------------------------------------------------------------------
(***************************************************************************)
(* The rate limiters: acquire.                                             *)
(***************************************************************************)
Delay(k) == IF slots[k] = NoSlot \/ moment >= slots[k] + Interval THEN 0
            ELSE slots[k] + Interval - moment

\* The time of the request and the delay are recorded when the sleep is over.
Grant(c, k, asked, due) ==
    /\ slots' = [slots EXCEPT ![k] = due]
    /\ grants' = grants \cup {[key |-> k, asked |-> asked, left |-> due]}
    /\ pace' = [pace EXCEPT ![c] = [step |-> "granted", asked |-> asked, due |-> due]]

\* Without a delay there is no await between looking and recording.
Acquire(c, k) ==
    /\ pace[c].step = "none"
    /\ IF Delay(k) = 0 THEN Grant(c, k, moment, moment)
       ELSE /\ pace' = [pace EXCEPT ![c] =
                   [step |-> "sleeping", asked |-> moment, due |-> moment + Delay(k)]]
            /\ UNCHANGED <<slots, grants>>
    /\ UNCHANGED moment

WakeForSlot(c, k) ==
    /\ pace[c].step = "sleeping" /\ pace[c].due = moment
    /\ Grant(c, k, pace[c].asked, moment)
    /\ UNCHANGED moment

MomentPasses ==
    /\ moment < MaxMoment
    /\ \A c \in DOMAIN pace : pace[c].step = "sleeping" => pace[c].due > moment
    /\ moment' = moment + 1
    /\ UNCHANGED <<slots, pace, grants, sessionVars>>

Left(c) == pace' = [pace EXCEPT ![c] = Unpaced]

---------------------------------------------------------------------------
(***************************************************************************)
(* Telethon: TelegramTelethonSessionClientProvider.connected and publish.  *)
(***************************************************************************)
SaveSession(t, number) == sessions' = [sessions EXCEPT ![t] = [tenant |-> t, number |-> number]]

\* An operator logs in: a session that is there is replaced.
Login(t) ==
    /\ issued[t] < MaxSessions
    /\ issued' = [issued EXCEPT ![t] = @ + 1]
    /\ SaveSession(t, issued[t] + 1)
    /\ UNCHANGED <<opened, paceVars>>

\* The stored session is decrypted for the tenant it belongs to, or the call fails.
Connect(s) ==
    LET t == TenantOfSender[s]
    IN  /\ opened[s].step = "closed"
        /\ sessions[t] # NoSession /\ sessions[t].tenant = t
        /\ opened' = [opened EXCEPT ![s] =
               [step |-> "open", read |-> sessions[t].number, session |-> sessions[t].number]]
        /\ UNCHANGED <<sessions, issued, paceVars>>

\* The server gives the client another session.
RotateSession(s) ==
    LET t == TenantOfSender[s]
    IN  /\ opened[s].step = "open" /\ issued[t] < MaxSessions
        /\ issued' = [issued EXCEPT ![t] = @ + 1]
        /\ opened' = [opened EXCEPT ![s].session = issued[t] + 1]
        /\ UNCHANGED <<sessions, paceVars>>

AcquireSend(s) ==
    /\ opened[s].step = "open"
    /\ Acquire(s, TenantOfSender[s]) \/ WakeForSlot(s, TenantOfSender[s])
    /\ UNCHANGED sessionVars

\* The message is sent; a session that was rotated is saved over the stored one.
MessageSent(s) ==
    LET t == TenantOfSender[s]
    IN  /\ pace[s].step = "granted" /\ opened[s].step = "open"
        /\ IF opened[s].session = opened[s].read THEN UNCHANGED sessions
           ELSE SaveSession(t, opened[s].session)
        /\ opened' = [opened EXCEPT ![s] = Closed]
        /\ Left(s)
        /\ UNCHANGED <<moment, slots, grants, issued>>

\* Fault: the session is saved in the finally clause.
ConnectionFails_Saves(s) ==
    /\ opened[s].step = "open" /\ pace[s].step # "sleeping"
    /\ SaveSession(TenantOfSender[s], opened[s].session)
    /\ opened' = [opened EXCEPT ![s] = Closed]
    /\ Left(s)
    /\ UNCHANGED <<moment, slots, grants, issued>>

\* Not authorised, or sending fails: the client is closed, nothing is saved.
ConnectionFails(s) ==
    /\ opened[s].step = "open" /\ pace[s].step # "sleeping"
    /\ opened' = [opened EXCEPT ![s] = Closed]
    /\ Left(s)
    /\ UNCHANGED <<moment, slots, grants, sessions, issued>>

AccountsNext ==
    \/ MomentPasses
    \/ \E t \in SessionTenants : Login(t)
    \/ \E s \in Senders :
          Connect(s) \/ RotateSession(s) \/ AcquireSend(s) \/ MessageSent(s) \/ ConnectionFails(s)

AccountsSpec == AccountsInit /\ [][AccountsNext]_accountVars

---------------------------------------------------------------------------
\* Calls with one key leave an interval apart, but for those that asked when the
\* earlier one had not left yet.
LeavesOnTime(h) ==
    \A g \in grants : g.key = h.key =>
        h.left >= g.left + Interval \/ h.asked <= g.left

\* A stored session is replaced by a login, or by a client of its tenant that was
\* let through, sent its message and holds a session issued after the one it read.
Replaced(t) ==
    /\ sessions'[t].tenant = t
    /\ \/ issued'[t] = issued[t] + 1 /\ sessions'[t].number = issued'[t]
       \/ \E s \in Senders :
             /\ TenantOfSender[s] = t /\ opened[s].step = "open" /\ pace[s].step = "granted"
             /\ opened[s].read < opened[s].session
             /\ sessions'[t].number = opened[s].session

\* Tasks that share an account keep to its pace, whatever they overlap with, and a
\* connection that fails never touches the session the others will read (acquire
\* of both limiters, connected, save_session).
AccountsAreKept ==
    [][/\ \A h \in grants' \ grants : LeavesOnTime(h)
       /\ \A t \in SessionTenants : sessions'[t] # sessions[t] => Replaced(t)]_accountVars
=============================================================================
