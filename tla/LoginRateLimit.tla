---------------------------- MODULE LoginRateLimit ----------------------------
(***************************************************************************)
(* The sliding window that limits logins (security_rate_limit.py): a deque  *)
(* of the times of the last permitted attempts for each address and e-mail, *)
(* in the memory of one panel process.  Only the login handler calls check, *)
(* on the event loop and without an await, so that a call is one step even  *)
(* though it reads the clock before it takes its lock.                      *)
(***************************************************************************)
EXTENDS Integers, Sequences

CONSTANTS
    Accounts,  \* "login:<ip>:<e-mail in lower case>"
    MaxHits,   \* 5
    Window,    \* 60 s
    MaxTime    \* bound: the clock stops there

ASSUME ConstantsAssumption ==
    /\ MaxHits \in Nat \ {0}
    /\ Window \in Nat \ {0}
    /\ MaxTime \in Nat

VARIABLES
    now,      \* time.monotonic()
    bucket,   \* times in the deque of each account
    granted,  \* history: all the attempts this process has permitted, in order
    refused   \* history: the time of the last refusal, -1 before

vars == <<now, bucket, granted, refused>>

\* Mutated forms of Expired: the comparison of the loop is off by one; there is
\* no loop.
AlsoAtCutoff(times) == {n \in 1..Len(times) : \A m \in 1..n : times[m] <= now - Window}
NothingExpires(times) == {}

\* Entries the loop pops: those at the front that are older than the window.
Expired(times) == {n \in 1..Len(times) : \A m \in 1..n : times[m] < now - Window}
Full(times) == Len(times) >= MaxHits

\* What the loop leaves, given how many it pops.
Kept(times, n) == SubSeq(times, n + 1, Len(times))

Init ==
    /\ now = 0
    /\ bucket = [a \in Accounts |-> <<>>]
    /\ granted = [a \in Accounts |-> <<>>]
    /\ refused = [a \in Accounts |-> -1]

\* check.
Check(a) ==
    \E n \in 0..Len(bucket[a]) :
        /\ Expired(bucket[a]) = 1..n
        /\ LET kept == Kept(bucket[a], n) IN
            IF Full(kept)
            THEN /\ bucket' = [bucket EXCEPT ![a] = kept]
                 /\ refused' = [refused EXCEPT ![a] = now]
                 /\ UNCHANGED granted
            ELSE /\ bucket' = [bucket EXCEPT ![a] = Append(kept, now)]
                 /\ granted' = [granted EXCEPT ![a] = Append(@, now)]
                 /\ UNCHANGED refused
        /\ UNCHANGED now

Tick ==
    /\ now < MaxTime
    /\ now' = now + 1
    /\ UNCHANGED <<bucket, granted, refused>>

\* A panel that is restarted has forgotten everything.
Restart ==
    /\ bucket' = [a \in Accounts |-> <<>>]
    /\ granted' = [a \in Accounts |-> <<>>]
    /\ refused' = [a \in Accounts |-> -1]
    /\ UNCHANGED now

Next ==
    \/ \E a \in Accounts : Check(a)
    \/ Tick
    \/ Restart

Spec == Init /\ [][Next]_vars

-----------------------------------------------------------------------------
(* Properties *)

TypeOK ==
    /\ now \in 0..MaxTime
    /\ bucket \in [Accounts -> Seq(0..MaxTime)]
    /\ granted \in [Accounts -> Seq(0..MaxTime)]
    /\ refused \in [Accounts -> -1..MaxTime]

\* "refuse the N+1-th attempt within the window": of any MaxHits + 1 successive
\* attempts that are permitted, the last comes more than a window after the
\* first.
LimitHolds ==
    \A a \in Accounts : \A i \in 1..(Len(granted[a]) - MaxHits) :
        granted[a][i + MaxHits] - granted[a][i] > Window

\* Nobody is refused who has not made MaxHits permitted attempts in the window
\* that ends with the refusal.
RefusalIsEarned ==
    \A a \in Accounts :
        refused[a] = now =>
            /\ Len(granted[a]) >= MaxHits
            /\ granted[a][Len(granted[a]) - MaxHits + 1] >= now - Window
=============================================================================
