--------------------------- MODULE MCFairComponents ---------------------------
(***************************************************************************)
(* Small instances of two components that share no state, for one run of TLC *)
(* with liveness.  The initial state chooses the component that runs; in the  *)
(* other no action that fairness is asked of is enabled.                      *)
(***************************************************************************)
EXTENDS ModelRegistry

CONSTANTS Sockets, MaxFaults  \* LiveDashboard

VARIABLES
    running,  \* the component chosen
    up, session, authed, shown, mounted, ref, timer, client, loop, faults

liveVars == <<up, session, authed, shown, mounted, ref, timer, client, loop, faults>>

Live == INSTANCE LiveDashboard

ASSUME InstanceAssumption == Live!ConstantsAssumption

OneInit == running \in {"registry", "live"} /\ Init /\ Live!Init

OneNext ==
    /\ UNCHANGED running
    /\ \/ running = "registry" /\ Next /\ UNCHANGED liveVars
       \/ running = "live" /\ Live!Next /\ UNCHANGED vars

OneFairSpec ==
    /\ OneInit
    /\ [][OneNext]_<<running, vars, liveVars>>
    /\ \A t \in Callers : SF_vars(Proceed(t))
    /\ Live!Fairness

-----------------------------------------------------------------------------
(* Properties of the instance, stated and explained in its module *)

\* LiveDashboard: one feed at a time, ...
OneSocket == Live!OneSocket

\* ... which ends with the session ...
FeedEndsWithSession == Live!FeedEndsWithSession

\* ... and otherwise comes back.
Reconnects == Live!Reconnects
=============================================================================
