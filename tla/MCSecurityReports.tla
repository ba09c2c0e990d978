------------------------- MODULE MCSecurityReports -------------------------
(* Small instances of SecurityReports for TLC.                             *)
EXTENDS MCClientAuth, SecurityReports

Mild == [event |-> "e1", type |-> "debugger_detected", risk |-> "medium",
         confidence |-> 50, asked |-> "record_only", failed |-> FALSE]

Grave == [event |-> "e2", type |-> "module_tampered", risk |-> "critical",
          confidence |-> 95, asked |-> "disable_card", failed |-> TRUE]

MildAndGrave == {Mild, Grave}

Burst == {Mild, [Mild EXCEPT !.event = "e2"],
          [Mild EXCEPT !.event = "e3", !.risk = "critical"]}

Bounded == [DefaultPolicy EXCEPT !.mode = "bounded_client",
                !.maxAction = "kick_session", !.reportDays = 1,
                !.messageDays = 1]

Scored == [DefaultPolicy EXCEPT !.mode = "server_score", !.rate = 1]

BoundedOrScored == {Bounded, Scored}
ShortLived == {[DefaultPolicy EXCEPT !.reportDays = 1, !.messageDays = 1]}

DeviceOrUses == Sold({[Blank EXCEPT !.type = "permanent"],
                      [Blank EXCEPT !.type = "count", !.total = 2]})

ReportSymmetry == Permutations(DeviceIds) \cup Permutations(SessionIds)
                  \cup Permutations(Workers) \cup Permutations(Installs)
                  \cup Permutations(CardIds) \cup Permutations(Keys)
                  \cup Permutations(Reports)
=============================================================================
