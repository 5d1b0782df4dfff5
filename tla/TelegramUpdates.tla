---------------------------- MODULE TelegramUpdates ----------------------------
(***************************************************************************)
(* Participants who write to the media centre over Telegram: the inbound   *)
(* bridge reads messages through a Telethon session, the client gateway    *)
(* finds the member of the account, answers, leases a proxy, writes the    *)
(* audit log and announces the command, and the bridge sends the reply.    *)
(* The order in which Telethon yields messages is left open; the publisher *)
(* is a protocol and every send waits.                                     *)
(***************************************************************************)
EXTENDS Integers, Sequences, FiniteSets, SequencesExt

CONSTANTS
    Accounts,       \* Telegram accounts that write; each has its own ref hash
    MembersLinked,  \* members that accounts are linked to
    MembersShown,   \* those whose snapshot the member provider has
    Polls,          \* calls of poll_once
    Silent,         \* those that ask for no replies
    RotatorSize,    \* endpoints of the tenant's proxy rotator, in order
    MaxMessages,    \* bound: messages in the chat
    MaxLinks        \* bound: links made and changes of a proxy's health

\* register_pool refuses a pool without endpoints.
ASSUME RotatorAssumption == RotatorSize \in Nat \ {0} /\ MaxMessages \in Nat /\ MaxLinks \in Nat

NoSender == "no sender"
Unlinked == "unlinked"
NoProxy == 0

VARIABLES
    linkByAccount,   \* _by_ref_hash of the account store
    inbox,           \* the chat's messages: their senders
    polling,         \* what each poll is doing and what it counted
    commandAudit,    \* telegram.command.handled: poll, message, member, proxy
    commandEvents,   \* those that were announced
    replies,         \* replies sent: poll, message, member
    rotator,         \* whether the tenant has one, its _cursor and healthy endpoints
    linkChanges      \* changes of links and health so far

updateVars == <<linkByAccount, inbox, polling, commandAudit, commandEvents, replies, rotator, linkChanges>>

UpdatesInit ==
    /\ linkByAccount = [a \in Accounts |-> Unlinked]
    /\ inbox = <<>>
    /\ polling = [p \in Polls |-> [at |-> "idle"]]
    /\ commandAudit = {}
    /\ commandEvents = {}
    /\ replies = <<>>
    /\ rotator = [registered |-> FALSE, cursor |-> 0, healthy |-> {}]
    /\ linkChanges = 0

ReceiveMessage(sender) ==
    /\ Len(inbox) < MaxMessages
    /\ inbox' = Append(inbox, sender)
    /\ UNCHANGED <<linkByAccount, polling, commandAudit, commandEvents, replies, rotator, linkChanges>>

\* link_account: the newest link of an account counts.
LinkAccount(account, member) ==
    /\ linkChanges < MaxLinks
    /\ linkByAccount' = [linkByAccount EXCEPT ![account] = member]
    /\ linkChanges' = linkChanges + 1
    /\ UNCHANGED <<inbox, polling, commandAudit, commandEvents, replies, rotator>>

\* register_pool: the tenant has a new rotator, all of whose endpoints are healthy.
RegisterPool ==
    /\ linkChanges < MaxLinks
    /\ rotator' = [registered |-> TRUE, cursor |-> 0, healthy |-> 1..RotatorSize]
    /\ linkChanges' = linkChanges + 1
    /\ UNCHANGED <<linkByAccount, inbox, polling, commandAudit, commandEvents, replies>>

\* mark_healthy and mark_unhealthy.
MarkHealth(endpoint, healthy) ==
    /\ rotator.registered /\ linkChanges < MaxLinks
    /\ rotator' = [rotator EXCEPT !.healthy =
           IF healthy THEN @ \cup {endpoint} ELSE @ \ {endpoint}]
    /\ linkChanges' = linkChanges + 1
    /\ UNCHANGED <<linkByAccount, inbox, polling, commandAudit, commandEvents, replies>>

\* lease: the first healthy endpoint from the cursor on.
EndpointAt(offset) == ((rotator.cursor + offset) % RotatorSize) + 1
LeasedEndpoint ==
    EndpointAt(CHOOSE o \in 0..(RotatorSize - 1) :
        /\ EndpointAt(o) \in rotator.healthy
        /\ \A earlier \in 0..(o - 1) : EndpointAt(earlier) \notin rotator.healthy)

BeginPoll(p, reply_to_messages) ==
    /\ polling[p].at = "idle"
    /\ polling' = [polling EXCEPT ![p] =
           [at |-> "reading", reply_to_messages |-> reply_to_messages,
            yielded |-> {}, ignored |-> {}, handled |-> {}, failed |-> {}]]
    /\ UNCHANGED <<linkByAccount, inbox, commandAudit, commandEvents, replies, rotator, linkChanges>>

\* The poll goes on with the next message, this one in one of its books.
Counted(p, ignored, handled, failed) ==
    [at |-> "reading", reply_to_messages |-> polling[p].reply_to_messages,
     yielded |-> polling[p].yielded \cup ignored \cup handled \cup failed,
     ignored |-> polling[p].ignored \cup ignored, handled |-> polling[p].handled \cup handled,
     failed |-> polling[p].failed \cup failed]

ReadIgnored(p, m) ==
    /\ polling[p].at = "reading"
    /\ m \in DOMAIN inbox \ polling[p].yielded /\ inbox[m] = NoSender
    /\ polling' = [polling EXCEPT ![p] = Counted(p, {m}, {}, {})]
    /\ UNCHANGED <<linkByAccount, inbox, commandAudit, commandEvents, replies, rotator, linkChanges>>

\* The proxy directory is optional, and so is the tenant's rotator in it.
MayHandle(m) ==
    linkByAccount[inbox[m]] # Unlinked /\ (rotator.registered => rotator.healthy # {})
LeasedProxy == IF rotator.registered THEN LeasedEndpoint ELSE NoProxy

\* handle_update raises before its audit: there is no link, or no proxy that is alive, or
\* the member has no snapshot, which some commands are answered from.
UpdateRefused(p, m) ==
    /\ polling[p].at = "reading"
    /\ m \in DOMAIN inbox \ polling[p].yielded /\ inbox[m] # NoSender
    /\ ~MayHandle(m) \/ linkByAccount[inbox[m]] \notin MembersShown
    /\ polling' = [polling EXCEPT ![p] = Counted(p, {}, {}, {m})]
    /\ UNCHANGED <<linkByAccount, inbox, commandAudit, commandEvents, replies, rotator, linkChanges>>

\* handle_update up to the announcement: member, reply, lease, audit.
HandleUpdate(p, m) ==
    /\ polling[p].at = "reading"
    /\ m \in DOMAIN inbox \ polling[p].yielded /\ inbox[m] # NoSender
    /\ MayHandle(m)
    /\ LET exchange == [poll |-> p, message |-> m, member |-> linkByAccount[inbox[m]],
                        proxy |-> LeasedProxy]
       IN  /\ commandAudit' = commandAudit \cup {exchange}
           /\ polling' = [polling EXCEPT ![p] = [at |-> "announcing", exchange |-> exchange,
                 reply_to_messages |-> @.reply_to_messages, yielded |-> @.yielded \cup {m}, ignored |-> @.ignored,
                 handled |-> @.handled, failed |-> @.failed]]
    /\ rotator' = [rotator EXCEPT !.cursor = IF rotator.registered THEN LeasedEndpoint % RotatorSize ELSE @]
    /\ UNCHANGED <<linkByAccount, inbox, commandEvents, replies, linkChanges>>

AnnounceCommand(p) ==
    /\ polling[p].at = "announcing"
    /\ commandEvents' = commandEvents \cup {polling[p].exchange}
    /\ polling' = [polling EXCEPT ![p].at = "replying"]
    /\ UNCHANGED <<linkByAccount, inbox, commandAudit, replies, rotator, linkChanges>>

\* _reply: after the limiter's pause the reply is sent, if the request asks for replies;
\* the message is handled either way.
ReplyTo(p, member) ==
    /\ polling[p].at = "replying"
    /\ LET m == polling[p].exchange.message
       IN  /\ replies' = IF polling[p].reply_to_messages
                         THEN Append(replies, [poll |-> p, message |-> m, member |-> member])
                         ELSE replies
           /\ polling' = [polling EXCEPT ![p] = Counted(p, {}, {m}, {})]
    /\ UNCHANGED <<linkByAccount, inbox, commandAudit, commandEvents, rotator, linkChanges>>

\* Fault: the reply is sent to the member the account is linked to by now.
SendReply_LooksAgain(p) == ReplyTo(p, linkByAccount[inbox[polling[p].exchange.message]])

SendReply(p) == ReplyTo(p, polling[p].exchange.member)

\* The announcement or the reply fails: the message failed, its audit stays.
ExchangeFails(p) ==
    /\ polling[p].at \in {"announcing", "replying"}
    /\ polling' = [polling EXCEPT ![p] = Counted(p, {}, {}, {polling[p].exchange.message})]
    /\ UNCHANGED <<linkByAccount, inbox, commandAudit, commandEvents, replies, rotator, linkChanges>>

\* Telethon has no more messages, or the iteration raises.
EndPoll(p) ==
    /\ polling[p].at = "reading"
    /\ polling' = [polling EXCEPT ![p].at = "done"]
    /\ UNCHANGED <<linkByAccount, inbox, commandAudit, commandEvents, replies, rotator, linkChanges>>

UpdatesNext ==
    \/ \E sender \in Accounts \cup {NoSender} : ReceiveMessage(sender)
    \/ \E account \in Accounts, member \in MembersLinked : LinkAccount(account, member)
    \/ RegisterPool
    \/ \E endpoint \in 1..RotatorSize, healthy \in BOOLEAN : MarkHealth(endpoint, healthy)
    \/ \E p \in Polls :
          \/ BeginPoll(p, p \notin Silent)
          \/ EndPoll(p)
          \/ \E m \in 1..MaxMessages : ReadIgnored(p, m) \/ UpdateRefused(p, m) \/ HandleUpdate(p, m)
          \/ AnnounceCommand(p) \/ SendReply(p) \/ ExchangeFails(p)

UpdatesSpec == UpdatesInit /\ [][UpdatesNext]_updateVars

UpdatesTypeOK ==
    /\ \A a \in Accounts : linkByAccount[a] \in MembersLinked \cup {Unlinked}
    /\ rotator.cursor \in 0..(RotatorSize - 1)
    /\ \A p \in Polls : polling[p].at \in {"idle", "reading", "announcing", "replying", "done"}
    /\ commandEvents \subseteq commandAudit

RepliesTo(p, m) == {i \in DOMAIN replies : replies[i].poll = p /\ replies[i].message = m}

\* A poll accounts for every message it was given as ignored, handled or failed, and
\* as one of them only. What it calls handled was announced, for one member; that
\* member was answered, once, if the request asks for replies, whatever was linked in
\* the meantime, and nobody if it does not (poll_once, _reply, handle_update).
PolledIsAccounted ==
    /\ UpdatesTypeOK
    /\ \A p \in Polls : polling[p].at = "done" =>
           LET poll == polling[p]
           IN  /\ poll.yielded = poll.ignored \cup poll.handled \cup poll.failed
               /\ poll.handled \cap (poll.failed \cup poll.ignored) = {}
               /\ \A m \in poll.handled : \E x \in commandEvents :
                     /\ x.poll = p /\ x.message = m
                     /\ IF poll.reply_to_messages
                        THEN \E i \in DOMAIN replies :
                                RepliesTo(p, m) = {i} /\ replies[i].member = x.member
                        ELSE RepliesTo(p, m) = {}
=============================================================================
