---------------------------- MODULE Notifications ----------------------------
(***************************************************************************)
(* The notification service and its channels (src/src/notifications/): a   *)
(* notification is routed by its priority, tried on a channel with retries,*)
(* and falls back to another; a trade notification has a deadline, a kill  *)
(* switch one goes to every channel at once.                               *)
(*                                                                         *)
(* One notification at a time: they share no state but the channels' HTTP  *)
(* clients. A message is what its sender and its receiver know of it.      *)
(***************************************************************************)
EXTENDS Integers, FiniteSets, SequencesExt

CONSTANTS
    Channels,           \* _channel_order, a sequence of distinct names
    Configured,         \* the channels a type may be configured for: sequences
    Webhooks,           \* the channels that retry by themselves: DiscordChannel
    MaxRetries,         \* RetryConfig.max_retries
    WebhookRetries,     \* DiscordChannel's max_retries
    TradeDeadline       \* the 10 seconds of send_trade_notification, in ticks

ASSUME NotificationAssumption ==
    /\ Channels \in Seq(ToSet(Channels)) /\ Webhooks \subseteq ToSet(Channels)
    /\ \A i, j \in DOMAIN Channels : Channels[i] = Channels[j] => i = j
    /\ \A c \in Configured : c # <<>> /\ \A i, j \in DOMAIN c : c[i] = c[j] => i = j
    /\ {MaxRetries, WebhookRetries, TradeDeadline} \subseteq Nat \ {0}

VARIABLES
    note,       \* the notification: its kind, its priority, its target channels in their order
    left,       \* the targets not begun yet
    sending,    \* the channels it is being sent on -> requests of this attempt
    attempt,    \* the attempt at the channel, and whether it is a fallback
    elapsed,    \* seconds since a trade notification was asked for, in ticks
    channel_status,     \* channel_statuses, or the results
    requests,   \* requests made for it on each channel
    received    \* the channels on which its message was received

noteVars == <<note, left, sending, attempt, elapsed, channel_status, requests, received>>

All == ToSet(Channels)
Priorities == {"CRITICAL", "HIGH", "NORMAL"}
NoNote == [kind |-> "none", over |-> TRUE, priority |-> "NORMAL", order |-> <<>>, targets |-> {}]
Nobody == [c \in {} |-> 0]
Only(c) == [d \in {c} |-> 0]
First == [n |-> 1, fallback |-> FALSE]

NoteInit ==
    /\ note = NoNote /\ left = {} /\ sending = Nobody /\ attempt = First /\ elapsed = 0
    /\ channel_status = [c \in All |-> "untried"]
    /\ requests = [c \in All |-> 0] /\ received = {}

-----------------------------------------------------------------------------
\* The one of the channels that comes first in the list, as the only element, or none of none.
FirstOf(list, channels) ==
    {c \in channels : \A d \in channels :
        \E i, j \in DOMAIN list : i <= j /\ list[i] = c /\ list[j] = d}

\* _get_channels_for_notification; configured is <<>> for a type without any
Order(configured, priority) ==
    IF priority = "CRITICAL" \/ configured = <<>> THEN Channels ELSE configured

Targets(configured, priority) ==
    LET registered == ToSet(configured) \cap All IN
    CASE priority = "CRITICAL"              -> All
      [] priority = "HIGH" /\ configured # <<>>   -> registered
      [] priority = "NORMAL" /\ configured # <<>> -> FirstOf(configured, registered)
      [] priority = "HIGH" /\ configured = <<>>   -> {Channels[i] : i \in DOMAIN Channels \cap 1..2}
      [] OTHER                              -> {Channels[i] : i \in DOMAIN Channels \cap {1}}

\* Mutant: only the targets are left out, not the channels already tried.
FallbackFor(c) == {d \in All \ {c} : d \notin note.targets}

\* _get_fallback_channel: the first of these, if there is one
Fallbacks(c) == {d \in All \ {c} : d \notin note.targets /\ channel_status[d] = "untried"}

\* The call is over, or goes on with the next channel.
Proceed(rest) ==
    /\ attempt' = First
    /\ \/ /\ rest = {}
          /\ note' = [note EXCEPT !.over = TRUE] /\ sending' = Nobody /\ left' = {}
       \/ \E c \in FirstOf(note.order, rest) :
             sending' = Only(c) /\ left' = rest \ {c} /\ UNCHANGED note

-----------------------------------------------------------------------------
\* A call for a notification with these targets, the last one being over: it is over at once
\* without any, and begins with the first.
Begin(kind, priority, list, targets) ==
    /\ note.over
    /\ requests' = [c \in All |-> 0] /\ received' = {} /\ elapsed' = 0 /\ attempt' = First
    /\ channel_status' = [c \in All |-> "untried"]
    /\ note' = [kind |-> kind, over |-> targets = {}, priority |-> priority, order |-> list,
                targets |-> targets]

BeginInTurn(kind, priority, list, targets) ==
    /\ Begin(kind, priority, list, targets)
    /\ \/ targets = {} /\ left' = {} /\ sending' = Nobody
       \/ \E c \in FirstOf(list, targets) : left' = targets \ {c} /\ sending' = Only(c)

\* send(): an old-style call is sent as HIGH, whatever priority it was given.
Send(configured, priority, old_style) ==
    LET sent_as == IF old_style THEN "HIGH" ELSE priority IN
    BeginInTurn("send", priority, Order(configured, sent_as), Targets(configured, sent_as))

\* send_trade_notification: the channels of a HIGH one, or all
SendTrade(configured) ==
    LET high == Targets(configured, "HIGH") IN
    /\ Channels # <<>>
    /\ IF high = {} THEN BeginInTurn("trade", "HIGH", Channels, All)
       ELSE BeginInTurn("trade", "HIGH", Order(configured, "HIGH"), high)

\* send_kill_switch_notification: every channel at once
SendKillSwitch ==
    /\ Channels # <<>>
    /\ Begin("kill", "CRITICAL", Channels, All)
    /\ left' = {} /\ sending' = [c \in All |-> 0]

-----------------------------------------------------------------------------
\* The answer of one of the channels of a kill switch notification, which ends with the last.
Answered(c) ==
    /\ sending' = [d \in DOMAIN sending \ {c} |-> sending[d]]
    /\ note' = [note EXCEPT !.over = (DOMAIN sending = {c})]
    /\ UNCHANGED <<left, attempt>>

\* The channel gave an answer to the service: True, or False and exceptions.
Delivered(c) ==
    /\ channel_status' = [channel_status EXCEPT ![c] = "delivered"]
    /\ \/ note.kind = "send" /\ Proceed(left)
       \/ note.kind = "trade" /\ Proceed({})
       \/ note.kind = "kill" /\ Answered(c)

TryAgain(c) ==
    /\ note.kind = "send" /\ attempt.n < MaxRetries
    /\ attempt' = [attempt EXCEPT !.n = @ + 1] /\ sending' = Only(c)
    /\ UNCHANGED <<note, left, channel_status>>

ChannelFails(c) ==
    /\ note.kind = "send" /\ attempt.n = MaxRetries
    /\ channel_status' = [channel_status EXCEPT ![c] = "failed"]
    /\ IF attempt.fallback \/ Fallbacks(c) = {}
       THEN Proceed(left)
       ELSE /\ \E d \in FirstOf(Channels, Fallbacks(c)) : sending' = Only(d)
            /\ attempt' = [First EXCEPT !.fallback = TRUE]
            /\ UNCHANGED <<note, left>>

NotDelivered(c) ==
    \/ TryAgain(c)
    \/ ChannelFails(c)
    \/ /\ note.kind = "trade"
       /\ channel_status' = [channel_status EXCEPT ![c] = "failed"]
       /\ Proceed(IF elapsed' >= TradeDeadline THEN {} ELSE left)
    \/ /\ note.kind = "kill"
       /\ channel_status' = [channel_status EXCEPT ![c] = "failed"]
       /\ Answered(c)

\* One request of a channel: accepted, refused, or an answer a webhook retries by
\* itself (429, 5xx, a timeout); a timeout may have been received. A trade
\* notification pays for it with its time.
Request(c, answer, arrives, takes) ==
    /\ c \in DOMAIN sending
    /\ requests' = [requests EXCEPT ![c] = @ + 1]
    /\ elapsed' = IF note.kind = "trade" THEN elapsed + takes ELSE elapsed
    /\ note.kind = "trade" => elapsed + takes < TradeDeadline
    /\ received' = IF answer = "ok" \/ (answer = "retry" /\ arrives)
                   THEN received \cup {c} ELSE received
    /\ \/ answer = "ok" /\ Delivered(c)
       \/ /\ answer = "retry" /\ c \in Webhooks /\ sending[c] + 1 < WebhookRetries
          /\ sending' = [sending EXCEPT ![c] = @ + 1]
          /\ UNCHANGED <<note, left, attempt, channel_status>>
       \/ /\ \/ answer = "refused"
             \/ answer = "retry" /\ ~(c \in Webhooks /\ sending[c] + 1 < WebhookRetries)
          /\ NotDelivered(c)

\* wait_for of a trade notification: the rest of the time is over during a request.
TradeTimesOut(c, arrives) ==
    /\ note.kind = "trade" /\ c \in DOMAIN sending
    /\ elapsed' = TradeDeadline
    /\ requests' = [requests EXCEPT ![c] = @ + 1]
    /\ received' = IF arrives THEN received \cup {c} ELSE received
    /\ NotDelivered(c)

\* wait_for of a kill switch notification: every channel is reported as timed out.
KillSwitchTimesOut ==
    /\ note.kind = "kill" /\ ~note.over
    /\ note' = [note EXCEPT !.over = TRUE]
    /\ channel_status' = [c \in All |-> "failed"] /\ sending' = Nobody
    /\ UNCHANGED <<left, attempt, elapsed, requests, received>>

NoteNext ==
    \/ \E configured \in Configured \cup {<<>>} :
          \/ \E priority \in Priorities, old_style \in BOOLEAN :
                Send(configured, priority, old_style)
          \/ SendTrade(configured)
    \/ SendKillSwitch
    \/ \E c \in DOMAIN sending, arrives \in BOOLEAN :
          \/ \E answer \in {"ok", "retry", "refused"}, takes \in 0..(TradeDeadline - 1) :
                Request(c, answer, arrives, takes)
          \/ TradeTimesOut(c, arrives)
    \/ KillSwitchTimesOut

NoteSpec == NoteInit /\ [][NoteNext]_noteVars

-----------------------------------------------------------------------------
RequestsPerAttempt(c) == IF c \in Webhooks THEN WebhookRetries ELSE 1

\* A channel is tried max_retries times for a notification and then no more,
\* whether it is a target or serves as the fallback of several.
OnePassPerChannel == \A c \in All : requests[c] <= MaxRetries * RequestsPerAttempt(c)

\* A notification that send() gives up was tried on all its targets and on as many
\* other channels, or on every channel there is.
GivesUpLate ==
    LET failed == {c \in All : channel_status[c] = "failed"} IN
    /\ note.kind = "send" /\ note.over /\ failed # {}
    /\ \A c \in All : channel_status[c] # "delivered"
    => failed = All \/ Cardinality(failed) >= 2 * Cardinality(note.targets)

\* Retries and fallbacks interleave for one notification and neither multiplies nor
\* replaces the other: no channel is tried too often, none is given up too early.
TriesAreExact == OnePassPerChannel /\ GivesUpLate

\* Documented, and not so: a CRITICAL notification is tried on every channel. An
\* old-style call is routed as HIGH.
CriticalEverywhere ==
    note.over /\ note.priority = "CRITICAL" => \A c \in All : channel_status[c] # "untried"

\* Documented, and not so: a channel reported as failed received nothing.
ReportIsTrue ==
    note.over => \A c \in All : channel_status[c] = "failed" => c \notin received
=============================================================================
