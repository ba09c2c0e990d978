-------------------------- MODULE MCCloudStorage --------------------------
(* A small instance of CloudStorage for TLC. *)
EXTENDS CloudStorage, TLC

CONSTANTS disk, oss, b1, b2, f1, f2, t1, w1, w2

MCRemotes == {oss}
MCBuckets == {b1, b2}
MCFiles == {f1, f2}
MCTickets == {t1}
MCWorkers == {w1, w2}

Save(p, on, bucket, secret, default) ==
    [provider |-> p, on |-> on, bucket |-> bucket, secret |-> secret,
     default |-> default]

MCSaves == {Save(oss, TRUE, b1, TRUE, TRUE), Save(oss, FALSE, b2, FALSE, FALSE)}

MCSymmetry == Permutations(MCWorkers) \cup Permutations(MCFiles)
=============================================================================
