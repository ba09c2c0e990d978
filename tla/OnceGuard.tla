----------------------------- MODULE OnceGuard -----------------------------
(***************************************************************************)
(* What a signed-request window promises.  A request is known by a key (who *)
(* signed it, and its nonce) and stays acceptable up to a moment its own    *)
(* timestamp fixes.  However often it is delivered, it is admitted once     *)
(* while it is acceptable; a further admission can only come after that.    *)
(*                                                                         *)
(* OperatorSessions (console requests) and RemoteApi (remote calls) both    *)
(* implement this specification.                                            *)
(***************************************************************************)
EXTENDS Naturals

CONSTANTS RequestKeys,  \* who signed a request, paired with its nonce
          Ends          \* the moments at which a window may end

VARIABLES now,          \* the clock, in windows' units, from 1
          admitted      \* per key, the end of the window it was last admitted in,
                       \* and how many times it was admitted

guardVars == <<now, admitted>>

Never == [end |-> 0, times |-> 0]

GuardInit == now = 1 /\ admitted = [k \in RequestKeys |-> Never]

(* A key is admitted when no window it was admitted in is still open.       *)
Admit(k, end) ==
    /\ admitted[k].end < now
    /\ admitted' = [admitted EXCEPT ![k] = [end |-> end, times |-> @.times + 1]]
    /\ now' = now

Pass == now' = now + 1 /\ admitted' = admitted

GuardNext == Pass \/ \E k \in RequestKeys, end \in Ends : Admit(k, end)

GuardSpec == GuardInit /\ [][GuardNext]_guardVars
=============================================================================
