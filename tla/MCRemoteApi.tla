---------------------------- MODULE MCRemoteApi ----------------------------
(* A small instance of RemoteApi for TLC. *)
EXTENDS RemoteApi, TLC

CONSTANTS app1, v1, v2, theme, console, caller, t1, n1

MCApps == {app1}
MCVariableIds == {v1, v2}
MCVariableNames == {theme}
MCActors == {console, caller}
MCTokens == {t1}

Ask(op, scope, on, granted) ==
    [op |-> op, name |-> theme, scope |-> scope, on |-> on, apps |-> granted]

MCRequests ==
    {Ask("upsert", "private", TRUE, {app1}),
     Ask("convert", "public", FALSE, {}),
     Ask("setApps", "private", FALSE, {app1}),
     Ask("batchStatus", "private", FALSE, {}),
     Ask("delete", "private", FALSE, {}),
     Ask("deleteApps", "private", FALSE, {app1})}

MCSigned == {[nonce |-> n1, ts |-> 1, ask |-> Ask("upsert", "private", TRUE, {app1}),
              target |-> app1, code |-> TRUE],
             [nonce |-> n1, ts |-> 2, ask |-> Ask("deleteApps", "private", FALSE, {app1}),
              target |-> app1, code |-> FALSE]}
MCSymmetry == Permutations(MCVariableIds) \cup Permutations(MCActors)
=============================================================================
