---------------------------- MODULE MCClientAuth ----------------------------
(* Small instances of ClientAuth for TLC.                                  *)
EXTENDS ClientAuth, TLC

Base == [verify |-> TRUE, binding |-> TRUE, shared |-> FALSE,
         ipBinding |-> FALSE, maxDevices |-> 1, interval |-> 0,
         deductSeconds |-> 1, deductUses |-> 1]

Blank == [type |-> "time", duration |-> 3, total |-> 0, maxDevices |-> 1,
          unbindLimit |-> 0]

CardFor(h, kind) ==
    [hash |-> h, type |-> kind.type, duration |-> kind.duration,
     total |-> kind.total, maxDevices |-> kind.maxDevices,
     unbindLimit |-> kind.unbindLimit]

Sold(kinds) == {CardFor(h, kind) : h \in Hashes, kind \in kinds}

(* Settings *)
SingleLoginApp  == {Base}
SharedApp       == {[Base EXCEPT !.shared = TRUE]}
SwitchedApp     == {[Base EXCEPT !.interval = 1],
                    [Base EXCEPT !.verify = FALSE, !.ipBinding = TRUE]}

(* Cards *)
TimeCardsOnly   == Sold({Blank})
LimitedCards    == Sold({[Blank EXCEPT !.unbindLimit = 1]})
PermanentCards  == Sold({[Blank EXCEPT !.type = "permanent"]})
TimeAndCount    == Sold({Blank, [Blank EXCEPT !.type = "count", !.total = 1]})

(* Challenges *)
Keyed      == {[id |-> None, inst |-> i, key |-> k, expires |-> 0] :
                  i \in Installs, k \in Keys}
Unkeyed    == {[id |-> None, inst |-> i, key |-> None, expires |-> 0] :
                  i \in Installs}
KeyedOrNot == Keyed \cup Unkeyed
Replayed   == {[id |-> n, inst |-> i, key |-> k, expires |-> 2] :
                  n \in {1}, i \in Installs, k \in Keys}
KeyedAndReplayed == Keyed \cup Replayed

Symmetry == Permutations(DeviceIds) \cup Permutations(SessionIds)
            \cup Permutations(Workers) \cup Permutations(Installs)
            \cup Permutations(CardIds) \cup Permutations(Keys)
=============================================================================
