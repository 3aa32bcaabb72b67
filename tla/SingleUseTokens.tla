--------------------------- MODULE SingleUseTokens ---------------------------
(***************************************************************************)
(* What refresh-token rotation promises, with no database, no requests and  *)
(* no transactions in it: a family opens with its generation-0 token        *)
(* outstanding; redeeming the outstanding token spends it and puts the next *)
(* generation in its place, in one step; closing a family leaves it with no *)
(* outstanding token, for good.  A token is the pair <<family, generation>>. *)
(***************************************************************************)
EXTENDS Naturals

CONSTANT Families

VARIABLES outstanding,  \* tokens that would be honoured if presented now
          spent,        \* tokens already traded for their successor
          closed        \* families that were revoked

vars == <<outstanding, spent, closed>>

Tokens == Families \X Nat

OfFamily(f, S) == {t \in S : t[1] = f}

TypeOK ==
    /\ outstanding \subseteq Tokens
    /\ spent \subseteq Tokens
    /\ closed \subseteq Families

Init ==
    /\ outstanding = {}
    /\ spent = {}
    /\ closed = {}

Open(f) ==
    /\ f \notin closed
    /\ OfFamily(f, outstanding \cup spent) = {}
    /\ outstanding' = outstanding \cup {<<f, 0>>}
    /\ UNCHANGED <<spent, closed>>

Redeem(t) ==
    /\ t \in outstanding
    /\ outstanding' = (outstanding \ {t}) \cup {<<t[1], t[2] + 1>>}
    /\ spent' = spent \cup {t}
    /\ UNCHANGED closed

Close(f) ==
    /\ outstanding' = outstanding \ OfFamily(f, outstanding)
    /\ closed' = closed \cup {f}
    /\ UNCHANGED spent

Next ==
    \/ \E f \in Families : Open(f) \/ Close(f)
    \/ \E t \in outstanding : Redeem(t)

Spec == Init /\ [][Next]_vars
=============================================================================
