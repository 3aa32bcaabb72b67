------------------------------- MODULE Notifier -------------------------------
(***************************************************************************)
(* The alert webhook (integrations/notifier.py): the cooldown of one channel *)
(* in the memory of one process.  It is looked at before the POST is awaited *)
(* and set after it, and only when the POST succeeds.                        *)
(***************************************************************************)
EXTENDS Integers, FiniteSets

CONSTANTS
    Calls,     \* calls of notify in flight
    Cooldown,  \* 60 s
    MaxUptime  \* bound: the clock of the host stops there

ConstantsAssumption ==
    /\ IsFiniteSet(Calls)
    /\ Cooldown \in Nat \ {0}
    /\ MaxUptime \in Nat

VARIABLES
    uptime,   \* time.monotonic()
    last,     \* _LAST_SENT of the channel, 0 before
    posting,  \* calls that are awaiting their POST
    sent,     \* history: [call, at] of the messages of this process
    silenced  \* history: when this process last skipped one, -1 before

nvars == <<uptime, last, posting, sent, silenced>>

Init ==
    /\ uptime \in 0..MaxUptime
    /\ last = 0
    /\ posting = {}
    /\ sent = {}
    /\ silenced = -1

\* notify up to its await, ...
Start(c) ==
    /\ c \notin posting
    /\ uptime - last >= Cooldown
    /\ posting' = posting \cup {c}
    /\ UNCHANGED <<uptime, last, sent, silenced>>

\* ... or to its early return.
Skip(c) ==
    /\ c \notin posting
    /\ uptime - last < Cooldown
    /\ silenced' = uptime
    /\ UNCHANGED <<uptime, last, posting, sent>>

\* Mutated form of the step below: nothing is stamped.
SucceedUnstamped(c) ==
    /\ c \in posting
    /\ posting' = posting \ {c}
    /\ sent' = sent \cup {[call |-> c, at |-> uptime]}
    /\ UNCHANGED <<uptime, last, silenced>>

\* The webhook answers below 400.
Succeed(c) ==
    /\ c \in posting
    /\ posting' = posting \ {c}
    /\ sent' = sent \cup {[call |-> c, at |-> uptime]}
    /\ last' = uptime
    /\ UNCHANGED <<uptime, silenced>>

\* It answers 400 or more, or the client raises.
Fail(c) ==
    /\ c \in posting
    /\ posting' = posting \ {c}
    /\ UNCHANGED <<uptime, last, sent, silenced>>

Pass ==
    /\ uptime < MaxUptime
    /\ uptime' = uptime + 1
    /\ UNCHANGED <<last, posting, sent, silenced>>

\* The process restarts; the host does not.
Forget ==
    /\ last' = 0
    /\ posting' = {}
    /\ sent' = {}
    /\ silenced' = -1
    /\ UNCHANGED uptime

Next ==
    \/ \E c \in Calls : Start(c) \/ Skip(c) \/ Succeed(c) \/ Fail(c)
    \/ Pass
    \/ Forget

Spec == Init /\ [][Next]_nvars

-----------------------------------------------------------------------------
(* Properties *)

Recent(t) == {m \in sent : m.at <= t /\ t - m.at < Cooldown}

\* "prevents notification storms": although every call that is in flight passes
\* the check, no window of a cooldown holds more messages than calls can be in
\* flight.  And nothing else is lost to it: a call is skipped only if a message
\* went out within the cooldown before, or the host itself is younger than that.
CooldownHolds ==
    /\ \A m \in sent : Cardinality(Recent(m.at)) <= Cardinality(Calls)
    /\ silenced >= Cooldown => Recent(silenced) # {}
=============================================================================
