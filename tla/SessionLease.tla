---------------------------- MODULE SessionLease ----------------------------
(***************************************************************************)
(* What the client API promises of a session, without cards, devices,      *)
(* clocks or requests in flight.  A session is granted once.  While it is  *)
(* held there is one token it accepts; giving that token back is the only  *)
(* way to obtain the next.  A session that has ended stays ended.          *)
(***************************************************************************)
EXTENDS Naturals

CONSTANT SessionIds

VARIABLES
    lease,    \* per session: "none", "held" or "ended"
    current,  \* per session: the number of the token it accepts, 0 if not held
    spent     \* per session: the tokens that were given back

leaseVars == <<lease, current, spent>>

Held == {s \in SessionIds : lease[s] = "held"}

Ended(S) == [s \in SessionIds |-> IF s \in S THEN "ended" ELSE lease[s]]
Voided(S) == [s \in SessionIds |-> IF s \in S THEN 0 ELSE current[s]]

LeaseInit ==
    /\ lease = [s \in SessionIds |-> "none"]
    /\ current = [s \in SessionIds |-> 0]
    /\ spent = [s \in SessionIds |-> {}]

(* A login grants s and may end sessions that it replaces.                 *)
Grant(s, S) ==
    /\ lease[s] = "none"
    /\ lease' = [Ended(S) EXCEPT ![s] = "held"]
    /\ current' = Voided(S)
    /\ spent' = spent

Exchange(s) ==
    /\ lease[s] = "held"
    /\ lease' = lease
    /\ current' = [current EXCEPT ![s] = @ + 1]
    /\ spent' = [spent EXCEPT ![s] = @ \cup {current[s]}]

End(S) ==
    /\ lease' = Ended(S)
    /\ current' = Voided(S)
    /\ spent' = spent

LeaseNext ==
    \/ \E s \in SessionIds, S \in SUBSET Held : Grant(s, S)
    \/ \E s \in SessionIds : Exchange(s)
    \/ \E S \in SUBSET Held : End(S)

LeaseSpec == LeaseInit /\ [][LeaseNext]_leaseVars
=============================================================================
