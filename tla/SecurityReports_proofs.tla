----------------------- MODULE SecurityReports_proofs -----------------------
(* Proofs about SecurityReports: types and foreign keys; that reports and  *)
(* dispositions treat a session as the lease it is; that a session that    *)
(* was disposed of never comes back, that a card that was disabled has no  *)
(* active session until it is enabled again, that reports keep to their    *)
(* rates and decisions to the policy; and that everything the client API   *)
(* and the console promise without reports still holds with them.          *)
EXTENDS SecurityReports, ClientAuth_proofs, FiniteSetTheorems

-----------------------------------------------------------------------------
(* Policies and decisions                                                  *)

LEMMA PolicyType == Policies \cup {DefaultPolicy} \subseteq Policy
<1>1. DefaultPolicy \in Policy
  BY DEF DefaultPolicy, Policy, SecurityAction
<1> QED
  BY <1>1, ReportConstants

LEMMA InputType ==
    ASSUME NEW i \in Inputs
    PROVE  i.asked \in SecurityAction /\ i.risk \in RiskLevel
BY ReportConstants DEF ReportInput

LEMMA DecisionType ==
    ASSUME NEW r \in ReportRequest, NEW p \in Policy, NEW score
    PROVE  TargetAction(r, PolicyAction(p, r.input, score)) \in SecurityAction
<1>1. r.input.asked \in SecurityAction
  BY InputType DEF ReportRequest
<1>2. /\ p.critical \in SecurityAction /\ p.high \in SecurityAction
      /\ p.medium \in SecurityAction /\ p.low \in SecurityAction
  BY DEF Policy
<1>3. {"record_only", "manual_review", "kick_session"} \subseteq SecurityAction
  BY DEF SecurityAction
<1>4. BoundedAction(p, r.input, score) \in SecurityAction
  BY <1>1, <1>3 DEF BoundedAction
<1>5. ServerAction(p, score) \in SecurityAction
  BY <1>2, <1>3 DEF ServerAction
<1>6. PolicyAction(p, r.input, score) \in SecurityAction
  BY <1>1, <1>3, <1>4, <1>5 DEF PolicyAction
<1> QED
  BY <1>3, <1>6 DEF TargetAction

-----------------------------------------------------------------------------
(* Dispositions                                                            *)

(* What ends sessions revokes some of them.                                *)
LEMMA SessionsAfterRevoke ==
    ASSUME NEW action, NEW s, NEW d, NEW c, NEW h
    PROVE  \/ SessionsAfter(action, s, d, c, h) = sessions
           \/ \E S : SessionsAfter(action, s, d, c, h) = Revoked(S)
BY DEF SessionsAfter

LEMMA SessionsAfterType ==
    ASSUME TypeOK, NEW action, NEW s, NEW d, NEW c, NEW h,
           sessions' = SessionsAfter(action, s, d, c, h)
    PROVE  /\ sessions' \in [SessionIds -> SessionRow]
           /\ LiveSessions' = LiveSessions
<1>1. CASE sessions' = sessions
  BY <1>1 DEF TypeOK, LiveSessions
<1>2. ASSUME NEW S, sessions' = Revoked(S)
      PROVE  /\ sessions' \in [SessionIds -> SessionRow]
             /\ LiveSessions' = LiveSessions
  <2>1. sessions' \in [SessionIds -> SessionRow]
    BY <1>2, RevokedType DEF TypeOK
  <2>2. \A x \in SessionIds : sessions'[x].row = sessions[x].row
    BY <1>2 DEF Revoked, TypeOK, SessionRow
  <2> QED
    BY <2>1, <2>2 DEF LiveSessions
<1> QED
  BY <1>1, <1>2, SessionsAfterRevoke

LEMMA DisposeType ==
    ASSUME TypeOK, quieted \subseteq CardIds, disposed \subseteq SessionIds,
           NEW action, NEW s, NEW d, NEW c, NEW h, Dispose(action, s, d, c, h)
    PROVE  /\ devices' \in [DeviceIds -> DeviceRow]
           /\ cards' \in [CardIds -> CardRow]
           /\ disabledAt' \in [CardIds -> Nat]
           /\ quieted' \subseteq CardIds
           /\ disposed' \subseteq SessionIds
           /\ LiveDevices' = LiveDevices
           /\ LiveCards' = LiveCards
<1>1. /\ devices' \in [DeviceIds -> DeviceRow]
      /\ \A x \in DeviceIds : devices'[x].row = devices[x].row
  <2>1. \A x \in DeviceIds :
            /\ [devices[x] EXCEPT !.status = 0] \in DeviceRow
            /\ [devices[x] EXCEPT !.status = 0].row = devices[x].row
    BY DEF TypeOK, DeviceRow
  <2>2. \/ devices' = devices
        \/ \E S : devices' = DevicesWithStatus(S, 0)
    BY DEF Dispose
  <2> QED
    BY <2>1, <2>2 DEF DevicesWithStatus, TypeOK
<1>2. /\ cards' \in [CardIds -> CardRow]
      /\ \A x \in CardIds : cards'[x].row = cards[x].row
  <2>1. \A x \in CardIds :
            /\ [cards[x] EXCEPT !.status = 2] \in CardRow
            /\ [cards[x] EXCEPT !.status = 2].row = cards[x].row
    BY DEF TypeOK, CardRow
  <2>2. PICK S : cards' = [x \in CardIds |->
            IF x \in S THEN [cards[x] EXCEPT !.status = 2] ELSE cards[x]]
    BY DEF Dispose
  <2> QED
    BY <2>1, <2>2 DEF TypeOK
<1>3. disabledAt' \in [CardIds -> Nat]
  BY DEF Dispose, TypeOK
<1>4. quieted' \subseteq CardIds /\ disposed' \subseteq SessionIds
  BY DEF Dispose, DisabledCard, LiveCards, LiveSessions
<1> QED
  BY <1>1, <1>2, <1>3, <1>4 DEF LiveDevices, LiveCards

(* Whatever a disposition does to sessions ends leases, or nothing.        *)
LEMMA DisposeEndsLeases ==
    ASSUME TypeOK, spent' = spent, NEW action, NEW s, NEW d, NEW c, NEW h,
           sessions' = SessionsAfter(action, s, d, c, h)
    PROVE  [Lease!LeaseNext]_Lease!leaseVars
<1>1. CASE sessions' = sessions
  BY <1>1, LeaseStutters
<1>2. ASSUME NEW S, sessions' = Revoked(S)
      PROVE  \E T \in SUBSET Lease!Held : Lease!End(T)
  BY <1>2, BulkEndsLeases
<1> QED
  BY <1>1, <1>2, SessionsAfterRevoke DEF Lease!LeaseNext

-----------------------------------------------------------------------------
(* Type correctness                                                        *)

LEMMA BlankReports ==
    /\ NoReport \in ReportRow /\ [NoReport EXCEPT !.row = "deleted"] \in ReportRow
    /\ NoMessage \in MessageRow
    /\ [NoMessage EXCEPT !.row = "deleted"] \in MessageRow
BY DEF NoReport, NoMessage, ReportRow, MessageRow, RowState, RiskLevel,
       SecurityAction

LEMMA ReportTypeInit == ReportInit => ReportTypeOK
<1> SUFFICES ASSUME ReportInit PROVE ReportTypeOK
  OBVIOUS
<1>1. TypeOK
  BY TypeInit DEF ReportInit
<1>2. ForeignKeys
  BY DEF ReportInit, ForeignKeys, KeptReports, LiveMessages, NoReport, NoMessage
<1> QED
  BY <1>1, <1>2, BlankReports DEF ReportInit, ReportTypeOK

(* The foreign keys hold as long as the rows referred to stay.             *)
LEMMA ReferencesKept ==
    ASSUME ForeignKeys, LiveSessions' = LiveSessions,
           LiveDevices' = LiveDevices, LiveCards' = LiveCards,
           UNCHANGED <<reports, messages>>
    PROVE  ForeignKeys'
BY DEF ForeignKeys, KeptReports, LiveMessages

(* A step of ClientAuth, with ON DELETE SET NULL.                          *)
LEMMA DetachedType ==
    ASSUME ReportTypeOK, NEW goneReports \in SUBSET KeptReports, NEW gone,
           ReportsDetached(goneReports), MessagesDetached(gone, goneReports)
    PROVE  /\ reports' \in [Reports -> ReportRow]
           /\ messages' \in [Reports -> MessageRow]
           /\ ForeignKeys'
<1> DEFINE Detached(row) ==
              [row EXCEPT
                  !.sid = Ref(@, {s \in SessionIds : sessions'[s].row = "live"}),
                  !.device = Ref(@, {d \in DeviceIds : devices'[d].row = "live"}),
                  !.card = Ref(@, {c \in CardIds : cards'[c].row = "live"})]
<1>1. ASSUME NEW m \in Reports, m \notin goneReports
      PROVE  /\ reports'[m] \in ReportRow
             /\ reports'[m].row = reports[m].row
             /\ reports'[m].sid \in LiveSessions' \cup {None}
             /\ reports'[m].device \in LiveDevices' \cup {None}
             /\ reports'[m].card \in LiveCards' \cup {None}
  <2>1. reports'[m] = Detached(reports[m]) /\ reports[m] \in ReportRow
    BY <1>1 DEF ReportsDetached, ReportTypeOK
  <2> QED
    BY <2>1 DEF Ref, ReportRow, LiveSessions, LiveDevices, LiveCards
<1>2. ASSUME NEW m \in goneReports
      PROVE  /\ reports'[m] \in ReportRow
             /\ reports'[m].sid = None
             /\ reports'[m].device = None
             /\ reports'[m].card = None
  <2>1. m \in Reports
    BY DEF KeptReports
  <2>2. reports'[m] = [NoReport EXCEPT !.row = "deleted"]
    BY <2>1 DEF ReportsDetached
  <2> QED
    BY <2>2, BlankReports DEF NoReport
<1>3. reports' \in [Reports -> ReportRow]
  BY <1>1, <1>2 DEF ReportsDetached
<1>4. ASSUME NEW m \in Reports, m \in gone
      PROVE  /\ messages'[m] \in MessageRow
             /\ messages'[m].report = None
             /\ messages'[m].sid = None
             /\ messages'[m].device = None
             /\ messages'[m].card = None
  <2>1. messages'[m] = [NoMessage EXCEPT !.row = "deleted"]
    BY <1>4 DEF MessagesDetached
  <2> QED
    BY <2>1, BlankReports DEF NoMessage
<1>5. ASSUME NEW m \in Reports, m \notin gone
      PROVE  /\ messages'[m] \in MessageRow
             /\ messages'[m].row = messages[m].row
             /\ m \in LiveMessages =>
                   messages'[m].report \in KeptReports' \cup {None}
             /\ messages'[m].sid \in LiveSessions' \cup {None}
             /\ messages'[m].device \in LiveDevices' \cup {None}
             /\ messages'[m].card \in LiveCards' \cup {None}
  <2> DEFINE report == Ref(messages[m].report, Reports \ goneReports)
             cut == [messages[m] EXCEPT !.report = report]
  <2>1. messages'[m] = Detached(cut)
    BY <1>5 DEF MessagesDetached
  <2>2. messages[m] \in MessageRow
    BY DEF ReportTypeOK
  <2>3. /\ report \in Reports \cup {None}
        /\ m \in LiveMessages => report \in KeptReports' \cup {None}
    BY <1>1, <2>2 DEF Ref, KeptReports, MessageRow, ReportTypeOK, ForeignKeys
  <2> HIDE DEF report
  <2>4. cut \in MessageRow /\ cut.report = report /\ cut.row = messages[m].row
    BY <2>2, <2>3 DEF MessageRow
  <2> HIDE DEF cut
  <2> QED
    BY <2>1, <2>3, <2>4
       DEF Ref, MessageRow, LiveSessions, LiveDevices, LiveCards
<1>6. messages' \in [Reports -> MessageRow]
  BY <1>4, <1>5 DEF MessagesDetached
<1>7. ForeignKeys'
  <2>1. LiveMessages' \subseteq {m \in LiveMessages : m \notin gone}
    <3>1. ASSUME NEW m \in Reports, m \in gone PROVE m \notin LiveMessages'
      BY <3>1 DEF LiveMessages, MessagesDetached, NoMessage
    <3> QED
      BY <1>5, <3>1 DEF LiveMessages
  <2>2. LiveMessages \subseteq Reports /\ KeptReports' \subseteq Reports
    BY DEF LiveMessages, KeptReports
  <2> QED
    BY <1>1, <1>2, <1>5, <2>1, <2>2 DEF ForeignKeys
<1> QED
  BY <1>3, <1>6, <1>7

LEMMA ClientStepType == ReportTypeOK /\ ClientAuthStep => ReportTypeOK'
<1> SUFFICES ASSUME ReportTypeOK, ClientAuthStep PROVE ReportTypeOK'
  OBVIOUS
<1>1. TypeOK'
  BY TypeStep DEF ClientAuthStep, ReportTypeOK
<1>2. /\ reports' \in [Reports -> ReportRow]
      /\ messages' \in [Reports -> MessageRow]
      /\ ForeignKeys'
  BY DetachedType DEF ClientAuthStep
<1>3. /\ policy' \in Policies \cup {DefaultPolicy}
      /\ reporting' \subseteq ReportRequest
      /\ acts' \subseteq ActRequest
      /\ sweeps' \subseteq Sweep
      /\ quieted' \subseteq CardIds
      /\ disposed' \subseteq SessionIds
  BY DEF ClientAuthStep, StillDisabled, ReportTypeOK, reportInflight
<1> QED
  BY <1>1, <1>2, <1>3 DEF ReportTypeOK

(* A step that leaves ClientAuth, reports and messages alone.              *)
LEMMA RequestStepType ==
    ASSUME ReportTypeOK, UNCHANGED <<vars, reports, messages, reportHistory>>,
           policy' \in Policies \cup {DefaultPolicy},
           reporting' \subseteq ReportRequest, acts' \subseteq ActRequest,
           sweeps' \subseteq Sweep
    PROVE  ReportTypeOK'
<1>1. TypeOK'
  BY TypeStep DEF ReportTypeOK
<1>2. /\ LiveSessions' = LiveSessions
      /\ LiveDevices' = LiveDevices
      /\ LiveCards' = LiveCards
  BY DEF vars, tables, LiveSessions, LiveDevices, LiveCards
<1> QED
  BY <1>1, <1>2, ReferencesKept DEF ReportTypeOK, reportHistory

LEMMA PrepareType ==
    ASSUME ReportTypeOK, NEW w \in Workers, NEW s \in SessionIds,
           NEW n \in 1..MaxCounter, NEW i \in Inputs, NEW addr \in Addresses,
           ReportPrepare(w, s, n, i, addr)
    PROVE  ReportTypeOK'
<1> DEFINE until == Smaller(now + SessionTTL, CardAllowsUntil(s))
           type == TypeOfCard(sessions[s].card)
           request == [w |-> w, stage |-> "prepared", sid |-> s,
                       device |-> sessions[s].device, card |-> sessions[s].card,
                       hash |-> sessions[s].hash, type |-> type,
                       token |-> sessions[s].token, counter |-> n, at |-> now,
                       expires |-> until, input |-> i, addr |-> addr,
                       action |-> "record_only"]
<1>1. until \in Nat
  BY RequestExpiryType DEF ReportTypeOK
<1>2. sessions[s] \in SessionRow /\ now \in Nat /\ n \in Nat
  BY Bounds DEF ReportTypeOK, TypeOK
<1>3. type \in CardType
  <2>1. CASE sessions[s].card = None
    BY <2>1 DEF TypeOfCard, CardType
  <2>2. CASE sessions[s].card # None
    <3>1. cards[sessions[s].card] \in CardRow
      BY <1>2, <2>2 DEF ReportTypeOK, TypeOK, SessionRow
    <3> QED
      BY <2>2, <3>1 DEF TypeOfCard, CardRow
  <2> QED
    BY <2>1, <2>2
<1>4. reporting' = reporting \cup {request}
  BY DEF ReportPrepare
<1> HIDE DEF until, type
<1>5. request \in ReportRequest
  BY <1>1, <1>2, <1>3 DEF ReportRequest, SessionRow, SecurityAction
<1>6. reporting' \subseteq ReportRequest
  BY <1>4, <1>5 DEF ReportTypeOK
<1> QED
  BY <1>6, RequestStepType DEF ReportPrepare, reportTables, ReportTypeOK

LEMMA JudgeType ==
    ASSUME ReportTypeOK, NEW r \in reporting, ReportLookup(r) \/ ReportDecide(r)
    PROVE  ReportTypeOK'
<1>1. r \in ReportRequest
  BY DEF ReportTypeOK
<1>2. CASE ReportLookup(r)
  <2>1. [r EXCEPT !.stage = "duplicate"] \in ReportRequest
    BY <1>1 DEF ReportRequest
  <2>2. reporting' \subseteq ReportRequest
    BY <1>2, <2>1 DEF ReportLookup, ReportTypeOK
  <2> QED
    BY <1>2, <2>2, RequestStepType DEF ReportLookup, reportTables, ReportTypeOK
<1>3. CASE ReportDecide(r)
  <2> DEFINE action == TargetAction(r, PolicyAction(policy, r.input, Score(r)))
  <2>1. action \in SecurityAction
    BY <1>1, PolicyType, DecisionType DEF ReportTypeOK
  <2>2. reporting' = (reporting \ {r})
                     \cup {[r EXCEPT !.stage = "decided", !.action = action]}
    BY <1>3 DEF ReportDecide
  <2> HIDE DEF action
  <2>3. [r EXCEPT !.stage = "decided", !.action = action] \in ReportRequest
    BY <1>1, <2>1 DEF ReportRequest
  <2>4. reporting' \subseteq ReportRequest
    BY <2>2, <2>3 DEF ReportTypeOK
  <2> QED
    BY <1>3, <2>4, RequestStepType DEF ReportDecide, reportTables, ReportTypeOK
<1> QED
  BY <1>2, <1>3

(* A rotation keeps the rows of its session.                               *)
LEMMA RotationType ==
    ASSUME TypeOK, NEW r \in ReportRequest, RotateSession(r)
    PROVE  /\ sessions' \in [SessionIds -> SessionRow]
           /\ late' \subseteq SessionIds
           /\ spent' \in [SessionIds -> SUBSET Nat]
           /\ LiveSessions' = LiveSessions
<1>1. /\ r.sid \in SessionIds /\ r.token \in Nat /\ r.counter \in Nat
      /\ r.at \in Nat /\ r.expires \in Nat
  BY DEF ReportRequest
<1>2. \A x \in SessionIds : sessions'[x].row = sessions[x].row
  BY <1>1 DEF RotateSession, Rotated, TypeOK, SessionRow
<1> QED
  BY <1>1, <1>2, RotateSessionType DEF LiveSessions

LEMMA RotateAgainType ==
    ASSUME ReportTypeOK, NEW r \in reporting, ReportRotateAgain(r)
    PROVE  ReportTypeOK'
<1>1. r \in ReportRequest /\ TypeOK
  BY DEF ReportTypeOK
<1>2. /\ sessions' \in [SessionIds -> SessionRow]
      /\ late' \subseteq SessionIds
      /\ spent' \in [SessionIds -> SUBSET Nat]
      /\ LiveSessions' = LiveSessions
  BY <1>1, RotationType DEF ReportRotateAgain
<1>3. TypeOK'
  BY <1>1, <1>2 DEF ReportRotateAgain, inflight, TypeOK
<1>4. ForeignKeys'
  BY <1>2, ReferencesKept
     DEF ReportRotateAgain, reportTables, LiveDevices, LiveCards, ReportTypeOK
<1>5. reporting' \subseteq ReportRequest
  BY DEF ReportRotateAgain, ReportTypeOK
<1> QED
  BY <1>3, <1>4, <1>5 DEF ReportRotateAgain, reportTables, reportHistory, ReportTypeOK

LEMMA CommitType ==
    ASSUME ReportTypeOK, NEW r \in reporting, NEW m \in Reports, ReportCommit(r, m)
    PROVE  ReportTypeOK'
<1>1. r \in ReportRequest /\ TypeOK
  BY DEF ReportTypeOK
<1>2. /\ devices' \in [DeviceIds -> DeviceRow]
      /\ cards' \in [CardIds -> CardRow]
      /\ disabledAt' \in [CardIds -> Nat]
      /\ quieted' \subseteq CardIds
      /\ disposed' \subseteq SessionIds
      /\ LiveDevices' = LiveDevices
      /\ LiveCards' = LiveCards
  BY DisposeType DEF ReportCommit, ReportTypeOK
<1>3. /\ sessions' \in [SessionIds -> SessionRow]
      /\ late' \subseteq SessionIds
      /\ spent' \in [SessionIds -> SUBSET Nat]
      /\ LiveSessions' = LiveSessions
  <2>1. CASE r.action \in Revoking
    BY <1>1, <2>1, SessionsAfterType DEF ReportCommit, TypeOK
  <2>2. CASE RotateSession(r)
    BY <1>1, <2>2, RotationType
  <2> QED
    BY <2>1, <2>2 DEF ReportCommit
<1>4. TypeOK'
  BY <1>1, <1>2, <1>3 DEF ReportCommit, inflight, TypeOK
<1> DEFINE report ==
              [row |-> "live", sid |-> r.sid, device |-> r.device,
               card |-> r.card, hash |-> r.hash, input |-> r.input,
               action |-> r.action, addr |-> r.addr, at |-> now]
           message ==
              [row |-> "live", report |-> m, sid |-> r.sid,
               device |-> r.device, card |-> r.card, severity |-> r.input.risk,
               status |-> "unread", at |-> now]
<1>5. /\ reports' = [reports EXCEPT ![m] = report]
      /\ messages' = [messages EXCEPT ![m] = message]
  BY DEF ReportCommit
<1>6. report \in ReportRow
  BY <1>1 DEF ReportRow, ReportRequest, RowState, TypeOK
<1>7. message \in MessageRow
  <2>1. r.input.risk \in RiskLevel /\ now \in Nat
    BY <1>1, InputType DEF ReportRequest, TypeOK
  <2> QED
    BY <1>1, <2>1 DEF MessageRow, ReportRequest, RowState
<1>8. /\ report.row = "live" /\ message.row = "live" /\ message.report = m
      /\ report.sid = r.sid /\ report.device = r.device /\ report.card = r.card
      /\ message.sid = r.sid /\ message.device = r.device /\ message.card = r.card
  OBVIOUS
<1> HIDE DEF report, message
<1>9. /\ reports' \in [Reports -> ReportRow]
      /\ messages' \in [Reports -> MessageRow]
  BY <1>5, <1>6, <1>7 DEF ReportTypeOK
<1>10. ForeignKeys'
  <2>1. /\ r.sid \in LiveSessions'
        /\ r.device \in LiveDevices' \cup {None}
        /\ r.card \in LiveCards' \cup {None}
    BY <1>2, <1>3 DEF ReportCommit, RowsExist
  <2>2. /\ KeptReports' = KeptReports \cup {m}
        /\ LiveMessages' = LiveMessages \cup {m}
        /\ KeptReports \cup LiveMessages \subseteq Reports
    BY <1>5, <1>8 DEF KeptReports, LiveMessages, ReportTypeOK
  <2>3. reports'[m] = report /\ messages'[m] = message
    BY <1>5 DEF ReportTypeOK
  <2>4. \A k \in Reports :
            k # m => reports'[k] = reports[k] /\ messages'[k] = messages[k]
    BY <1>5 DEF ReportTypeOK
  <2> QED
    BY <1>2, <1>3, <1>8, <2>1, <2>2, <2>3, <2>4 DEF ForeignKeys, ReportTypeOK
<1>11. reporting' \subseteq ReportRequest
  BY DEF ReportCommit, ReportTypeOK
<1> QED
  BY <1>2, <1>4, <1>9, <1>10, <1>11 DEF ReportCommit, ReportTypeOK

LEMMA SecurityReportType == ReportTypeOK /\ SecurityReport => ReportTypeOK'
BY PrepareType, JudgeType, RotateAgainType, CommitType DEF SecurityReport

(* An operator's act carries what its message carried.                     *)
LEMMA ActReadType ==
    ASSUME ReportTypeOK, NEW w \in Workers, NEW m \in Reports,
           NEW action \in SecurityAction, ActRead(w, m, action)
    PROVE  ReportTypeOK'
<1>1. messages[m] \in MessageRow /\ messages[m].report \in Reports \cup {None}
  BY DEF ReportTypeOK, MessageRow
<1> DEFINE hash == IF messages[m].report = None THEN None
                   ELSE reports[messages[m].report].hash
           act == [w |-> w, message |-> m, sid |-> messages[m].sid,
                   device |-> messages[m].device, card |-> messages[m].card,
                   action |-> action, hash |-> hash]
<1>2. hash \in Hashes \cup {None}
  <2>1. CASE messages[m].report = None
    BY <2>1
  <2>2. CASE messages[m].report # None
    <3>1. reports[messages[m].report] \in ReportRow
      BY <1>1, <2>2 DEF ReportTypeOK
    <3> QED
      BY <2>2, <3>1 DEF ReportRow
  <2> QED
    BY <2>1, <2>2
<1>3. acts' = acts \cup {act}
  BY DEF ActRead
<1> HIDE DEF hash
<1>4. act \in ActRequest
  BY <1>1, <1>2 DEF ActRequest, MessageRow
<1>5. acts' \subseteq ActRequest
  BY <1>3, <1>4 DEF ReportTypeOK
<1> QED
  BY <1>5, RequestStepType DEF ActRead, reportTables, ReportTypeOK

LEMMA ActWriteType ==
    ASSUME ReportTypeOK, NEW r \in acts, ActWrite(r)
    PROVE  ReportTypeOK'
<1>1. r.message \in Reports /\ TypeOK
  BY DEF ActWrite, LiveMessages, ReportTypeOK
<1>2. /\ devices' \in [DeviceIds -> DeviceRow]
      /\ cards' \in [CardIds -> CardRow]
      /\ disabledAt' \in [CardIds -> Nat]
      /\ quieted' \subseteq CardIds
      /\ disposed' \subseteq SessionIds
      /\ LiveDevices' = LiveDevices
      /\ LiveCards' = LiveCards
  BY DisposeType DEF ActWrite, ReportTypeOK
<1>3. /\ sessions' \in [SessionIds -> SessionRow]
      /\ LiveSessions' = LiveSessions
  BY <1>1, SessionsAfterType DEF ActWrite
<1>4. TypeOK'
  BY <1>1, <1>2, <1>3 DEF ActWrite, inflight, TypeOK
<1> DEFINE row == [messages[r.message] EXCEPT !.status = "handled"]
<1>5. messages' = [messages EXCEPT ![r.message] = row]
  BY <1>1 DEF ActWrite, ReportTypeOK
<1>6. /\ row \in MessageRow
      /\ row.row = messages[r.message].row
      /\ row.report = messages[r.message].report
      /\ row.sid = messages[r.message].sid
      /\ row.device = messages[r.message].device
      /\ row.card = messages[r.message].card
  BY <1>1 DEF ReportTypeOK, MessageRow
<1> HIDE DEF row
<1>7. messages' \in [Reports -> MessageRow]
  BY <1>1, <1>5, <1>6 DEF ReportTypeOK
<1>8. KeptReports' = KeptReports /\ reports' = reports
  BY DEF ActWrite, KeptReports
<1>9. ForeignKeys'
  <2>1. \A k \in Reports :
            /\ messages'[k].row = messages[k].row
            /\ messages'[k].report = messages[k].report
            /\ messages'[k].sid = messages[k].sid
            /\ messages'[k].device = messages[k].device
            /\ messages'[k].card = messages[k].card
    BY <1>5, <1>6 DEF ReportTypeOK
  <2> QED
    BY <1>2, <1>3, <1>8, <2>1 DEF ForeignKeys, LiveMessages, ReportTypeOK
<1>10. acts' \subseteq ActRequest
  BY DEF ActWrite, ReportTypeOK
<1> QED
  BY <1>2, <1>4, <1>7, <1>9, <1>10 DEF ActWrite, ReportTypeOK

(* Marking, deleting and clearing messages touches no table of ClientAuth. *)
LEMMA MessagesType ==
    ASSUME ReportTypeOK, NEW S, NEW status \in {"read", "handling", "handled", "archived"},
           NEW r,
           \/ MarkMessages(S, status) \/ DeleteMessages(S) \/ ClearActivity
           \/ SweepMessages(r)
    PROVE  ReportTypeOK'
<1>1. TypeOK'
  BY TypeStep DEF MarkMessages, DeleteMessages, ClearActivity, SweepMessages,
                  ReportTypeOK
<1>2. /\ LiveSessions' = LiveSessions
      /\ LiveDevices' = LiveDevices
      /\ LiveCards' = LiveCards
  BY DEF MarkMessages, DeleteMessages, ClearActivity, SweepMessages, vars, tables,
         LiveSessions, LiveDevices, LiveCards
<1>3. /\ policy' = policy
      /\ reporting' = reporting /\ acts' = acts
      /\ quieted' = quieted /\ disposed' = disposed
      /\ sweeps' \subseteq Sweep
  BY DEF MarkMessages, DeleteMessages, ClearActivity, SweepMessages, Sweep,
         ReportTypeOK, reportInflight, reportHistory
<1>4. ASSUME NEW m \in Reports
      PROVE  /\ messages'[m] \in MessageRow
             /\ m \in LiveMessages' =>
                   /\ m \in LiveMessages
                   /\ messages'[m].report = messages[m].report
                   /\ messages'[m].sid = messages[m].sid
                   /\ messages'[m].device = messages[m].device
                   /\ messages'[m].card = messages[m].card
  <2>1. \/ messages'[m] = messages[m]
        \/ messages'[m] = [messages[m] EXCEPT !.status = status]
        \/ messages'[m] = [NoMessage EXCEPT !.row = "deleted"]
    BY DEF MarkMessages, DeleteMessages, ClearActivity, SweepMessages, MessagesWithout
  <2>2. CASE messages'[m] = [messages[m] EXCEPT !.status = status]
    BY <2>2 DEF ReportTypeOK, MessageRow, LiveMessages
  <2>3. CASE messages'[m] = [NoMessage EXCEPT !.row = "deleted"]
    BY <2>3, BlankReports DEF NoMessage, LiveMessages
  <2> QED
    BY <2>1, <2>2, <2>3 DEF ReportTypeOK, LiveMessages
<1>5. messages' \in [Reports -> MessageRow]
  <2>1. \E f : messages' = [m \in Reports |-> f[m]]
    <3>1. CASE MarkMessages(S, status)
      <4>1. messages' = [m \in Reports |-> messages'[m]]
        BY <3>1 DEF MarkMessages
      <4> QED
        BY <4>1
    <3>2. CASE DeleteMessages(S) \/ ClearActivity \/ SweepMessages(r)
      <4>1. messages' = [m \in Reports |-> messages'[m]]
        BY <3>2 DEF DeleteMessages, ClearActivity, SweepMessages, MessagesWithout
      <4> QED
        BY <4>1
    <3> QED
      BY <3>1, <3>2
  <2> QED
    BY <1>4, <2>1
<1>6. reports' \in [Reports -> ReportRow] /\ ForeignKeys'
  <2>1. CASE reports' = reports
    <3>1. KeptReports' = KeptReports
      BY <2>1 DEF KeptReports
    <3>2. LiveMessages' \subseteq Reports
      BY DEF LiveMessages
    <3> QED
      BY <1>2, <1>4, <2>1, <3>1, <3>2 DEF ForeignKeys, ReportTypeOK
  <2>2. CASE ClearActivity
    <3>1. ASSUME NEW m \in Reports
          PROVE  reports'[m] \in ReportRow /\ m \notin KeptReports'
      <4>1. CASE m \in KeptReports
        BY <2>2, <4>1, BlankReports DEF ClearActivity, NoReport, KeptReports
      <4>2. CASE m \notin KeptReports
        BY <2>2, <4>2 DEF ClearActivity, KeptReports, ReportTypeOK
      <4> QED
        BY <4>1, <4>2
    <3>2. ASSUME NEW m \in Reports PROVE m \notin LiveMessages'
      <4>1. CASE m \in LiveMessages
        BY <2>2, <4>1 DEF ClearActivity, MessagesWithout, NoMessage, LiveMessages
      <4>2. CASE m \notin LiveMessages
        BY <2>2, <4>2 DEF ClearActivity, MessagesWithout, LiveMessages
      <4> QED
        BY <4>1, <4>2
    <3>3. reports' \in [Reports -> ReportRow]
      BY <2>2, <3>1 DEF ClearActivity
    <3>4. LiveMessages' = {} /\ KeptReports' = {}
      BY <3>1, <3>2 DEF LiveMessages, KeptReports
    <3> QED
      BY <3>3, <3>4 DEF ForeignKeys
  <2> QED
    BY <2>1, <2>2 DEF MarkMessages, DeleteMessages, SweepMessages
<1> QED
  BY <1>1, <1>3, <1>5, <1>6 DEF ReportTypeOK

LEMMA MessageCentreType == ReportTypeOK /\ MessageCentre => ReportTypeOK'
BY ActReadType, ActWriteType, MessagesType DEF MessageCentre

LEMMA RetentionType == ReportTypeOK /\ Retention => ReportTypeOK'
<1>1. ASSUME ReportTypeOK, NEW w \in Workers, SweepRead(w) PROVE ReportTypeOK'
  <2>1. sweeps' \subseteq Sweep
    BY <1>1 DEF SweepRead, Sweep, DueMessages, LiveMessages, DueReports,
                KeptReports, ReportTypeOK
  <2> QED
    BY <1>1, <2>1, RequestStepType DEF SweepRead, reportTables, ReportTypeOK
<1>2. ASSUME ReportTypeOK, NEW r, SweepReports(r) PROVE ReportTypeOK'
  <2>1. /\ reports' \in [Reports -> ReportRow]
        /\ messages' \in [Reports -> MessageRow]
        /\ ForeignKeys'
    <3>1. r.reports \cap KeptReports \in SUBSET KeptReports
      OBVIOUS
    <3> QED
      BY <1>2, <3>1, DetachedType DEF SweepReports
  <2>2. TypeOK'
    BY <1>2, TypeStep DEF SweepReports, ReportTypeOK
  <2> QED
    BY <1>2, <2>1, <2>2 DEF SweepReports, ReportTypeOK, reportHistory
<1>3. ASSUME ReportTypeOK, NEW r, SweepMessages(r) PROVE ReportTypeOK'
  BY <1>3, MessagesType
<1> QED
  BY <1>1, <1>2, <1>3 DEF Retention

LEMMA ReportTypeStep == ReportTypeOK /\ [ReportNext]_reportVars => ReportTypeOK'
<1> SUFFICES ASSUME ReportTypeOK, [ReportNext]_reportVars PROVE ReportTypeOK'
  OBVIOUS
<1>1. CASE UNCHANGED reportVars
  BY <1>1, RequestStepType
     DEF reportVars, reportTables, reportInflight, ReportTypeOK
<1>2. ASSUME NEW p \in Policies, SetPolicy(p) PROVE ReportTypeOK'
  BY <1>2, RequestStepType DEF SetPolicy, reportInflight, ReportTypeOK
<1>3. CASE ReportDrop
  <2>1. /\ reporting' \subseteq ReportRequest /\ acts' \subseteq ActRequest
        /\ sweeps' \subseteq Sweep
    BY <1>3 DEF ReportDrop, ReportTypeOK
  <2> QED
    BY <1>3, <2>1, RequestStepType DEF ReportDrop, reportTables, ReportTypeOK
<1> QED
  BY <1>1, <1>2, <1>3, ClientStepType, SecurityReportType, MessageCentreType,
     RetentionType DEF ReportNext

(* Reports and messages keep their schema and name rows that exist,        *)
(* whatever the client API, the console and the cleanup delete.            *)
THEOREM ReportTypeCorrect == ReportSpec => []ReportTypeOK
BY ReportTypeInit, ReportTypeStep, PTL DEF ReportSpec

-----------------------------------------------------------------------------
(* Reports, dispositions and leases                                        *)

LEMMA ReportLeaseStep ==
    ReportTypeOK /\ [ReportNext]_reportVars => [Lease!LeaseNext]_Lease!leaseVars
<1> SUFFICES ASSUME ReportTypeOK, [ReportNext]_reportVars
             PROVE  [Lease!LeaseNext]_Lease!leaseVars
  OBVIOUS
<1>1. TypeOK
  BY DEF ReportTypeOK
<1>2. ASSUME UNCHANGED <<sessions, spent>>
      PROVE  [Lease!LeaseNext]_Lease!leaseVars
  BY <1>2, LeaseStutters
<1>3. CASE ClientAuthStep
  BY <1>1, <1>3, LeaseStep DEF ClientAuthStep
<1>4. ASSUME NEW r \in reporting, RotateSession(r)
      PROVE  [Lease!LeaseNext]_Lease!leaseVars
  <2>1. r.sid \in SessionIds
    BY DEF ReportTypeOK, ReportRequest
  <2> QED
    BY <1>1, <1>4, <2>1, RotateExchanges DEF Lease!LeaseNext
<1>5. CASE SecurityReport
  <2>1. ASSUME NEW w, NEW s, NEW n, NEW i, NEW addr, ReportPrepare(w, s, n, i, addr)
        PROVE  UNCHANGED <<sessions, spent>>
    BY <2>1 DEF ReportPrepare, vars, tables, history
  <2>2. ASSUME NEW r, ReportLookup(r) \/ ReportDecide(r)
        PROVE  UNCHANGED <<sessions, spent>>
    BY <2>2 DEF ReportLookup, ReportDecide, vars, tables, history
  <2>3. ASSUME NEW r \in reporting, NEW m, ReportCommit(r, m)
        PROVE  [Lease!LeaseNext]_Lease!leaseVars
    <3>1. CASE RotateSession(r)
      BY <1>4, <3>1
    <3>2. CASE /\ sessions' = SessionsAfter(r.action, r.sid, r.device, r.card, r.hash)
               /\ spent' = spent
      BY <1>1, <3>2, DisposeEndsLeases
    <3> QED
      BY <2>3, <3>1, <3>2 DEF ReportCommit
  <2> QED
    BY <1>2, <1>4, <1>5, <2>1, <2>2, <2>3 DEF SecurityReport, ReportRotateAgain
<1>6. CASE MessageCentre
  <2>1. ASSUME NEW w, NEW m, NEW action, ActRead(w, m, action)
        PROVE  UNCHANGED <<sessions, spent>>
    BY <2>1 DEF ActRead, vars, tables, history
  <2>2. ASSUME NEW r, ActWrite(r) PROVE [Lease!LeaseNext]_Lease!leaseVars
    BY <1>1, <2>2, DisposeEndsLeases DEF ActWrite
  <2>3. ASSUME NEW S, NEW status,
               MarkMessages(S, status) \/ DeleteMessages(S) \/ ClearActivity
        PROVE  UNCHANGED <<sessions, spent>>
    BY <2>3 DEF MarkMessages, DeleteMessages, ClearActivity, vars, tables, history
  <2> QED
    BY <1>2, <1>6, <2>1, <2>2, <2>3 DEF MessageCentre
<1>7. ASSUME NEW p, SetPolicy(p) \/ Retention \/ ReportDrop \/ UNCHANGED reportVars
      PROVE  UNCHANGED <<sessions, spent>>
  BY <1>7 DEF SetPolicy, Retention, SweepRead, SweepMessages, SweepReports,
              ReportDrop, reportVars, vars, tables, history
<1> QED
  BY <1>2, <1>3, <1>5, <1>6, <1>7 DEF ReportNext

(* With reports, dispositions and an operator in the message centre added, *)
(* a session is still a lease: side by side reports exchange a token once, *)
(* and no rotation of a report brings back what a disposition has ended.   *)
THEOREM ReportsKeepLeases == ReportSpec => LeaseSpec
<1>1. ReportInit => Lease!LeaseInit
  BY LeaseStart DEF ReportInit
<1> QED
  BY <1>1, ReportTypeCorrect, ReportLeaseStep, PTL
     DEF ReportSpec, LeaseSpec, Lease!LeaseSpec

(* A report, a heartbeat and the rotation of a repeated report compete for *)
(* the token of their session, and none of them ever gets a spent one.     *)
THEOREM ReportTokensAcceptedOnce == ReportSpec => []TokensFresh
BY ReportsKeepLeases, LeasesNeverRepeat, PTL

-----------------------------------------------------------------------------
(* What no step does to a row: bring it back, or move a session to another *)
(* device or card.  A new session names rows that exist.                   *)

CardAges(c) ==
    cards[c].row # "unborn" =>
        /\ cards'[c].row # "unborn"
        /\ cards'[c].row = "live" => cards[c].row = "live"

DeviceAges(d) ==
    devices[d].row # "unborn" =>
        /\ devices'[d].row # "unborn"
        /\ devices'[d].row = "live" => devices[d].row = "live"

SessionAges(s) ==
    IF sessions[s].row = "unborn"
    THEN sessions'[s].row = "live" =>
            /\ sessions'[s].device \in LiveDevices' \cup {None}
            /\ sessions'[s].card \in LiveCards' \cup {None}
    ELSE /\ sessions'[s].row # "unborn"
         /\ sessions'[s].row = "live" =>
               /\ sessions[s].row = "live"
               /\ sessions'[s].device = sessions[s].device
               /\ \/ sessions'[s].card = sessions[s].card
                  \/ /\ sessions[s].card \notin LiveCards'
                     /\ sessions'[s].card = None

CardsAge == \A c \in CardIds : CardAges(c)
DevicesAge == \A d \in DeviceIds : DeviceAges(d)
SessionsAge == \A s \in SessionIds : SessionAges(s)

RowsAge == CardsAge /\ DevicesAge /\ SessionsAge

(* Updates of columns that leave the rows where they are.                  *)
LEMMA SameCardsAge == ASSUME cards' = cards PROVE CardsAge
BY DEF CardsAge, CardAges

LEMMA SameDevicesAge == ASSUME devices' = devices PROVE DevicesAge
BY DEF DevicesAge, DeviceAges

LEMMA SameSessionsAge == ASSUME sessions' = sessions PROVE SessionsAge
BY DEF SessionsAge, SessionAges

LEMMA StandingCardsAge ==
    ASSUME \A c \in CardIds : cards'[c].row = cards[c].row PROVE CardsAge
BY DEF CardsAge, CardAges

LEMMA StandingDevicesAge ==
    ASSUME \A d \in DeviceIds : devices'[d].row = devices[d].row PROVE DevicesAge
BY DEF DevicesAge, DeviceAges

LEMMA EndedSessionsAge ==
    ASSUME TypeOK, NEW S,
           sessions' = Revoked(S) \/ sessions' = WithoutDevices(S)
    PROVE  SessionsAge
<1>1. CASE sessions' = Revoked(S)
  BY <1>1 DEF Revoked, SessionsAge, SessionAges, TypeOK, SessionRow, LiveSessions
<1>2. CASE sessions' = WithoutDevices(S)
  BY <1>2 DEF WithoutDevices, NoSession, SessionsAge, SessionAges, LiveSessions
<1> QED
  BY <1>1, <1>2

LEMMA RotationAges ==
    ASSUME TypeOK, NEW r, r.sid \in SessionIds, RotateSession(r)
    PROVE  SessionsAge
<1>1. sessions[r.sid] \in SessionRow /\ sessions[r.sid].row = "live"
  BY DEF TypeOK, RotateSession, LiveSessions
<1>2. \A t \in SessionIds : t # r.sid => sessions'[t] = sessions[t]
  BY DEF RotateSession, Rotated, TypeOK
<1>3. /\ sessions'[r.sid].row = sessions[r.sid].row
      /\ sessions'[r.sid].device = sessions[r.sid].device
      /\ sessions'[r.sid].card = sessions[r.sid].card
  BY <1>1 DEF RotateSession, Rotated, TypeOK, SessionRow
<1> QED
  BY <1>1, <1>2, <1>3 DEF SessionsAge, SessionAges

LEMMA OpeningAges ==
    ASSUME TypeOK, NEW r, NEW c, NEW d, NEW s \in SessionIds, NEW expiry,
           OpenSession(r, c, d, s, expiry),
           d \in LiveDevices' \cup {None}, c \in LiveCards' \cup {None}
    PROVE  SessionsAge
<1>1. SessionAges(s)
  <2>1. /\ sessions[s].row = "unborn"
        /\ sessions'[s].device = d /\ sessions'[s].card = c
    BY RevokedType DEF OpenSession, TypeOK
  <2> QED
    BY <2>1 DEF SessionAges
<1>2. ASSUME NEW t \in SessionIds, t # s PROVE SessionAges(t)
  <2>1. PICK S : sessions'[t] = Revoked(S)[t]
    BY <1>2, RevokedType DEF OpenSession, TypeOK
  <2>2. sessions[t] \in SessionRow
    BY DEF TypeOK
  <2> QED
    BY <2>1, <2>2 DEF Revoked, SessionAges, SessionRow, LiveSessions
<1> QED
  BY <1>1, <1>2 DEF SessionsAge

LEMMA LoginAges == TypeOK /\ Login => RowsAge
<1> SUFFICES ASSUME TypeOK, Login PROVE RowsAge
  OBVIOUS
<1>1. ASSUME NEW r, NEW d \in DeviceIds, NEW c, NEW mayAdd, Admits(r, d, mayAdd),
             devices' = [devices EXCEPT ![d] = BoundDevice(r, c, devices[d])]
      PROVE  DevicesAge /\ d \in LiveDevices'
  <2>1. devices[d].row \in {"live", "unborn"}
    BY <1>1 DEF Admits, DevicesOf, LiveDevices
  <2>2. devices'[d].row = "live"
    BY <1>1 DEF BoundDevice, TypeOK
  <2>3. \A x \in DeviceIds : x # d => devices'[x] = devices[x]
    BY <1>1 DEF TypeOK
  <2> QED
    BY <2>1, <2>2, <2>3 DEF DevicesAge, DeviceAges, LiveDevices
<1>2. ASSUME NEW w, NEW h, NEW ch, NEW g, LoginPrepare(w, h, ch, g) PROVE RowsAge
  BY <1>2, SameCardsAge, SameDevicesAge, SameSessionsAge DEF LoginPrepare, tables, RowsAge
<1>3. ASSUME NEW r, LoginSnapshot(r) PROVE RowsAge
  BY <1>3, SameCardsAge, SameDevicesAge, SameSessionsAge DEF LoginSnapshot, tables, RowsAge
<1>4. ASSUME NEW r \in logins, NEW d \in DeviceIds, NEW s \in SessionIds,
             LoginCommitVirtual(r, d, s)
      PROVE  RowsAge
  BY <1>1, <1>4, SameCardsAge, OpeningAges DEF LoginCommitVirtual, RowsAge
<1>5. ASSUME NEW r \in logins, NEW s \in SessionIds, NEW c \in CardIds,
             LoginCommit(r, c, s)
      PROVE  RowsAge
  <2>1. CardsAge /\ c \in LiveCards'
    <3>1. ChargedCard(cards[c], r.at).row = cards[c].row
      BY DEF ChargedCard, TypeOK, CardRow
    <3>2. cards' = [cards EXCEPT ![c] = ChargedCard(cards[c], r.at)]
      BY <1>5 DEF LoginCommit
    <3>3. \A x \in CardIds : cards'[x].row = cards[x].row
      BY <3>1, <3>2 DEF TypeOK
    <3>4. c \in LiveCards
      BY <1>5 DEF LoginCommit
    <3> QED
      BY <3>3, <3>4, StandingCardsAge DEF LiveCards
  <2>2. CASE cards[c].type = "count"
    <3>1. PICK expiry : OpenSession(r, c, None, s, expiry)
      BY <1>5, <2>2 DEF LoginCommit
    <3>2. devices' = devices
      BY <1>5, <2>2 DEF LoginCommit
    <3> QED
      BY <2>1, <3>1, <3>2, SameDevicesAge, OpeningAges DEF RowsAge
  <2>3. CASE cards[c].type # "count"
    <3> DEFINE mayAdd(d) == \/ cards[c].status = 0 \/ cards[c].usedAt = 0
                            \/ ~(r.app.binding /\ ~r.app.shared)
                            \/ Cardinality(ActiveDevices(r.hash))
                                   < DeviceLimit(r, cards[c].maxDevices)
    <3>1. PICK d \in DeviceIds :
             /\ Admits(r, d, mayAdd(d))
             /\ devices' = [devices EXCEPT ![d] = BoundDevice(r, c, devices[d])]
             /\ \E expiry : OpenSession(r, c, d, s, expiry)
      BY <1>5, <2>3 DEF LoginCommit
    <3> HIDE DEF mayAdd
    <3>2. DevicesAge /\ d \in LiveDevices'
      BY <1>1, <3>1
    <3> QED
      BY <2>1, <3>1, <3>2, OpeningAges DEF RowsAge
  <2> QED
    BY <2>2, <2>3
<1> QED
  BY <1>2, <1>3, <1>4, <1>5 DEF Login

LEMMA ConsoleAges ==
    ASSUME TypeOK, CardEdit \/ RangeEdit \/ DeviceEdit
    PROVE  RowsAge
<1>1. ASSUME NEW S, NEW n, NEW up,
             \/ DisableCards(S) \/ EnableActivated(S) \/ ResetUses(S)
             \/ ResetDuration(S, n) \/ AdjustActivated(S, n, up)
      PROVE  RowsAge
  <2>1. \A c \in CardIds : cards'[c].row = cards[c].row
    <3>1. ASSUME NEW c \in CardIds, NEW status, NEW m
          PROVE  /\ [cards[c] EXCEPT !.status = status].row = cards[c].row
                 /\ [cards[c] EXCEPT !.duration = m].row = cards[c].row
                 /\ [cards[c] EXCEPT !.remaining = m].row = cards[c].row
                 /\ [cards[c] EXCEPT !.status = 0, !.usedAt = 0,
                                     !.duration = m].row = cards[c].row
      BY DEF TypeOK, CardRow
    <3>2. CASE DisableCards(S)
      BY <3>1, <3>2 DEF DisableCards
    <3>3. CASE EnableActivated(S)
      BY <3>1, <3>3 DEF EnableActivated
    <3>4. CASE ResetUses(S)
      BY <3>1, <3>4 DEF ResetUses
    <3>5. CASE ResetDuration(S, n)
      BY <3>1, <3>5 DEF ResetDuration
    <3>6. CASE AdjustActivated(S, n, up)
      BY <3>1, <3>6 DEF AdjustActivated
    <3> QED
      BY <1>1, <3>2, <3>3, <3>4, <3>5, <3>6
  <2>2. devices' = devices
    BY <1>1 DEF DisableCards, EnableActivated, ResetUses, ResetDuration,
                AdjustActivated
  <2>3. SessionsAge
    <3>1. CASE ResetDuration(S, n)
      BY <3>1, EndedSessionsAge DEF ResetDuration, EndSessionsOf
    <3> QED
      BY <1>1, <3>1, SameSessionsAge
         DEF DisableCards, EnableActivated, ResetUses, AdjustActivated
  <2> QED
    BY <2>1, <2>2, <2>3, StandingCardsAge, SameDevicesAge DEF RowsAge
<1>2. ASSUME NEW S, DeleteCards(S) PROVE RowsAge
  <2>1. CardsAge
    BY <1>2 DEF DeleteCards, CardsAge, CardAges, NoCard
  <2>2. \A d \in DeviceIds : devices'[d].row = devices[d].row
    BY <1>2 DEF DeleteCards, TypeOK, DeviceRow
  <2>3. ASSUME NEW s \in SessionIds PROVE SessionAges(s)
    <3>1. CASE sessions[s].card \in S
      <4>1. sessions[s].card \notin LiveCards'
        BY <1>2, <3>1 DEF DeleteCards, LiveCards, NoCard
      <4> QED
        BY <1>2, <3>1, <4>1 DEF DeleteCards, SessionAges, TypeOK, SessionRow
    <3>2. CASE sessions[s].card \notin S
      BY <1>2, <3>2 DEF DeleteCards, SessionAges
    <3> QED
      BY <3>1, <3>2
  <2> QED
    BY <2>1, <2>2, <2>3, StandingDevicesAge DEF RowsAge, SessionsAge
<1>3. CASE CardEdit
  <2>1. ASSUME NEW c \in CardIds, NEW spec, CreateCard(c, spec) PROVE RowsAge
    <3>1. CardsAge
      BY <2>1 DEF CreateCard, CardsAge, CardAges, TypeOK
    <3> QED
      BY <2>1, <3>1, SameDevicesAge, SameSessionsAge DEF CreateCard, RowsAge
  <2>2. ASSUME NEW w, NEW c, NEW n, NEW up,
               EnableCardRead(w, c) \/ AdjustRead(w, c, n, up)
        PROVE  RowsAge
    BY <2>2, SameCardsAge, SameDevicesAge, SameSessionsAge
       DEF EnableCardRead, AdjustRead, tables, RowsAge
  <2>3. ASSUME NEW r, EnableCardWrite(r) \/ AdjustWrite(r) PROVE RowsAge
    <3>1. \A c \in CardIds : cards'[c].row = cards[c].row
      BY <2>3 DEF EnableCardWrite, AdjustWrite, TypeOK, CardRow
    <3> QED
      BY <2>3, <3>1, StandingCardsAge, SameDevicesAge, SameSessionsAge
         DEF EnableCardWrite, AdjustWrite, RowsAge
  <2> QED
    BY <1>1, <1>2, <1>3, <2>1, <2>2, <2>3 DEF CardEdit
<1>4. CASE RangeEdit
  BY <1>1, <1>2, <1>4 DEF RangeEdit
<1>5. CASE DeviceEdit
  <2>1. ASSUME NEW S, NEW status PROVE
            \A d \in DeviceIds : DevicesWithStatus(S, status)[d].row = devices[d].row
    BY DEF DevicesWithStatus, TypeOK, DeviceRow
  <2>2. ASSUME NEW w, NEW d, NEW S, DisableDevice(w, d) \/ EnableDevices(S)
        PROVE  RowsAge
    BY <2>1, <2>2, SameCardsAge, StandingDevicesAge, SameSessionsAge
       DEF DisableDevice, EnableDevices, RowsAge
  <2>3. ASSUME NEW S, DisableDevices(S) PROVE RowsAge
    BY <2>1, <2>3, SameCardsAge, StandingDevicesAge, EndedSessionsAge
       DEF DisableDevices, RowsAge
  <2>4. ASSUME NEW r, RevokeDevice(r) PROVE RowsAge
    BY <2>4, SameCardsAge, SameDevicesAge, EndedSessionsAge
       DEF RevokeDevice, RowsAge
  <2>5. ASSUME NEW S, DeleteDevices(S) PROVE RowsAge
    <3>1. DevicesAge
      BY <2>5 DEF DeleteDevices, DevicesRemoved, NoDevice, DevicesAge, DeviceAges
    <3> QED
      BY <2>5, <3>1, SameCardsAge, EndedSessionsAge DEF DeleteDevices, RowsAge
  <2> QED
    BY <1>5, <2>2, <2>3, <2>4, <2>5 DEF DeviceEdit
<1> QED
  BY <1>3, <1>4, <1>5

LEMMA ClientAges ==
    ASSUME TypeOK,
           \/ SessionRequest \/ Unbind
           \/ \E a \in Settings : UpdateApp(a)
           \/ Cleanup \/ Tick \/ Drop
    PROVE  RowsAge
<1>1. ASSUME NEW w, NEW s, NEW n, NEW kind, NEW h,
             SessionPrepare(w, s, kind, n) \/ UnbindPrepare(w, h, s) \/ Tick \/ Drop
      PROVE  RowsAge
  BY <1>1, SameCardsAge, SameDevicesAge, SameSessionsAge
     DEF SessionPrepare, UnbindPrepare, Tick, Drop, tables, RowsAge
<1>2. ASSUME NEW r \in calls, Rotate(r) \/ Logout(r) PROVE RowsAge
  <2>1. SessionsAge
    <3>1. r.sid \in SessionIds
      BY DEF TypeOK, SessionCall
    <3> QED
      BY <1>2, <3>1, RotationAges, EndedSessionsAge DEF Rotate, Logout
  <2> QED
    BY <1>2, <2>1, SameCardsAge, SameDevicesAge DEF Rotate, Logout, RowsAge
<1>3. ASSUME NEW r, UnbindCommit(r) PROVE RowsAge
  <2>1. CardsAge
    <3>1. CASE cards' = cards
      BY <3>1, SameCardsAge
    <3>2. ASSUME NEW c \in LiveCards, cards' = [cards EXCEPT ![c] = UnboundCard(r, cards[c])]
          PROVE  CardsAge
      <4>1. c \in CardIds
        BY DEF LiveCards
      <4>2. UnboundCard(r, cards[c]).row = cards[c].row
        BY <4>1 DEF UnboundCard, TypeOK, CardRow
      <4> QED
        BY <3>2, <4>1, <4>2, StandingCardsAge DEF TypeOK
    <3> QED
      BY <1>3, <3>1, <3>2 DEF UnbindCommit
  <2>2. DevicesAge
    BY <1>3 DEF UnbindCommit, DevicesRemoved, NoDevice, DevicesAge, DeviceAges
  <2>3. SessionsAge
    BY <1>3, EndedSessionsAge DEF UnbindCommit
  <2> QED
    BY <2>1, <2>2, <2>3 DEF RowsAge
<1>4. ASSUME NEW a, UpdateApp(a) PROVE RowsAge
  <2>1. \A d \in DeviceIds : devices'[d].row = devices[d].row
    BY <1>4 DEF UpdateApp, TypeOK, DeviceRow
  <2> QED
    BY <1>4, <2>1, SameCardsAge, StandingDevicesAge, SameSessionsAge
       DEF UpdateApp, RowsAge
<1>5. CASE Cleanup
  <2>1. ASSUME NEW at, ForgetNonces(at) PROVE RowsAge
    BY <2>1, SameCardsAge, SameDevicesAge, SameSessionsAge DEF ForgetNonces, RowsAge
  <2>2. ASSUME NEW at, ForgetSessions(at) PROVE RowsAge
    <3>1. SessionsAge
      BY <2>2 DEF ForgetSessions, NoSession, SessionsAge, SessionAges, LiveSessions
    <3> QED
      BY <2>2, <3>1, SameCardsAge, SameDevicesAge DEF ForgetSessions, RowsAge
  <2> QED
    BY <1>5, <2>1, <2>2 DEF Cleanup
<1> QED
  BY <1>1, <1>2, <1>3, <1>4, <1>5 DEF SessionRequest, Unbind

LEMMA RowsAgeStep == TypeOK /\ Next => RowsAge
BY LoginAges, ConsoleAges, ClientAges DEF Next

-----------------------------------------------------------------------------
(* What a request or a message says of a session                           *)

(* Session s has existed, and while it, the device or the card is there, s *)
(* is a session of that device or card.                                    *)
Refers(s, d, c) ==
    /\ sessions[s].row # "unborn"
    /\ d # None => devices[d].row # "unborn"
    /\ c # None => cards[c].row # "unborn"
    /\ s \in LiveSessions =>
          /\ d \in LiveDevices => sessions[s].device = d
          /\ c \in LiveCards => sessions[s].card = c

LEMMA RefersKept ==
    ASSUME RowsAge, NEW s \in SessionIds, NEW d \in DeviceIds \cup {None},
           NEW c \in CardIds \cup {None}, Refers(s, d, c)
    PROVE  Refers(s, d, c)'
<1>1. SessionAges(s)
  BY DEF RowsAge, SessionsAge
<1>2. d # None => DeviceAges(d)
  BY DEF RowsAge, DevicesAge
<1>3. c # None => CardAges(c)
  BY DEF RowsAge, CardsAge
<1>4. /\ sessions'[s].row # "unborn"
      /\ d # None => devices'[d].row # "unborn"
      /\ c # None => cards'[c].row # "unborn"
  BY <1>1, <1>2, <1>3 DEF SessionAges, DeviceAges, CardAges, Refers
<1>5. ASSUME s \in LiveSessions', d \in LiveDevices' PROVE sessions'[s].device = d
  <2>1. d # None
    BY <1>5, NoneIsNothing DEF LiveDevices
  <2>2. d \in LiveDevices
    BY <1>2, <1>5, <2>1 DEF DeviceAges, LiveDevices, Refers
  <2> QED
    BY <1>1, <1>5, <2>2 DEF SessionAges, LiveSessions, Refers
<1>6. ASSUME s \in LiveSessions', c \in LiveCards' PROVE sessions'[s].card = c
  <2>1. c # None
    BY <1>6, NoneIsNothing DEF LiveCards
  <2>2. c \in LiveCards
    BY <1>3, <1>6, <2>1 DEF CardAges, LiveCards, Refers
  <2>3. s \in LiveSessions /\ sessions[s].card = c
    BY <1>1, <1>6, <2>2 DEF SessionAges, LiveSessions, Refers
  <2> QED
    BY <1>1, <1>6, <2>3 DEF SessionAges, LiveSessions
<1> QED
  BY <1>4, <1>5, <1>6 DEF Refers

(* Forgetting a device or a card leaves the rest of what was said.         *)
LEMMA RefersLess ==
    ASSUME NEW s, NEW d, NEW c, Refers(s, d, c)
    PROVE  /\ Refers(s, None, c)
           /\ Refers(s, d, None)
           /\ Refers(s, None, None)
BY NoneIsNothing DEF Refers, LiveDevices, LiveCards

LEMMA RefersLessNext ==
    ASSUME NEW s, NEW d, NEW c, Refers(s, d, c)'
    PROVE  /\ Refers(s, None, c)'
           /\ Refers(s, d, None)'
           /\ Refers(s, None, None)'
BY NoneIsNothing DEF Refers, LiveDevices, LiveCards

(* A revoking action ends the session it is about: as one of the sessions  *)
(* of its device or card if that is still there, or else by itself.        *)
LEMMA DisposalEnds ==
    ASSUME TypeOK, NEW s \in LiveSessions, NEW d, NEW c, NEW h,
           NEW action \in Revoking, Refers(s, d, c),
           sessions' = SessionsAfter(action, s, d, c, h)
    PROVE  ~InForce(s)'
<1>1. s \in SessionIds /\ sessions[s] \in SessionRow
  BY DEF LiveSessions, TypeOK
<1>2. ASSUME NEW S, s \in S, sessions' = Revoked(S) PROVE ~InForce(s)'
  BY <1>1, <1>2 DEF Revoked, InForce, SessionRow
<1>3. CASE action = "disable_device" /\ d \in LiveDevices
  <2>1. s \in SessionsOn({d})
    BY <1>3 DEF SessionsOn, Refers
  <2> QED
    BY <1>2, <1>3, <2>1 DEF SessionsAfter
<1>4. CASE action = "disable_card" /\ c \in LiveCards
  <2>1. OnCard(s, c, h)
    BY <1>4, NoneIsNothing DEF OnCard, Refers, LiveCards
  <2> QED
    BY <1>1, <1>2, <1>4, <2>1 DEF SessionsAfter
<1>5. CASE /\ ~(action = "disable_device" /\ d \in LiveDevices)
           /\ ~(action = "disable_card" /\ c \in LiveCards)
  <2>1. sessions' = Revoked({s})
    BY <1>5 DEF SessionsAfter
  <2> QED
    BY <1>2, <2>1
<1> QED
  BY <1>3, <1>4, <1>5

-----------------------------------------------------------------------------
(* The inductive invariant                                                 *)

SessionsRefer ==
    \A s \in LiveSessions : Refers(s, sessions[s].device, sessions[s].card)

RequestsRefer ==
    /\ \A r \in reporting : Refers(r.sid, r.device, r.card)
    /\ \A r \in acts : r.sid # None => Refers(r.sid, r.device, r.card)

MessagesRefer ==
    \A m \in LiveMessages :
        messages[m].sid # None =>
            Refers(messages[m].sid, messages[m].device, messages[m].card)

DisposedEnded == \A s \in disposed : Leases[s] = "ended"

DispositionInv ==
    /\ ReportTypeOK
    /\ SessionsRefer
    /\ RequestsRefer
    /\ MessagesRefer
    /\ DisposedEnded

LEMMA DispositionInit == ReportInit => DispositionInv
<1> SUFFICES ASSUME ReportInit PROVE DispositionInv
  OBVIOUS
<1>1. LiveSessions = {} /\ LiveMessages = {}
  BY DEF ReportInit, Init, LiveSessions, LiveMessages, NoSession, NoMessage
<1> QED
  BY <1>1, ReportTypeInit
     DEF ReportInit, DispositionInv, SessionsRefer, RequestsRefer,
         MessagesRefer, DisposedEnded

(* What a disposition changes of devices and cards are columns.            *)
LEMMA DisposeAges ==
    ASSUME TypeOK, NEW action, NEW s, NEW d, NEW c, NEW h, Dispose(action, s, d, c, h)
    PROVE  CardsAge /\ DevicesAge
<1>1. \A x \in DeviceIds : devices'[x].row = devices[x].row
  <2>1. \A x \in DeviceIds : [devices[x] EXCEPT !.status = 0].row = devices[x].row
    BY DEF TypeOK, DeviceRow
  <2>2. \/ devices' = devices
        \/ \E S : devices' = DevicesWithStatus(S, 0)
    BY DEF Dispose
  <2> QED
    BY <2>1, <2>2 DEF DevicesWithStatus
<1>2. \A x \in CardIds : cards'[x].row = cards[x].row
  <2>1. \A x \in CardIds : [cards[x] EXCEPT !.status = 2].row = cards[x].row
    BY DEF TypeOK, CardRow
  <2>2. PICK S : cards' = [x \in CardIds |->
            IF x \in S THEN [cards[x] EXCEPT !.status = 2] ELSE cards[x]]
    BY DEF Dispose
  <2> QED
    BY <2>1, <2>2
<1> QED
  BY <1>1, <1>2, StandingCardsAge, StandingDevicesAge

LEMMA SessionsAfterAge ==
    ASSUME TypeOK, NEW action, NEW s, NEW d, NEW c, NEW h,
           sessions' = SessionsAfter(action, s, d, c, h)
    PROVE  SessionsAge
<1>1. CASE sessions' = sessions
  BY <1>1, SameSessionsAge
<1>2. ASSUME NEW S, sessions' = Revoked(S) PROVE SessionsAge
  BY <1>2, EndedSessionsAge
<1> QED
  BY <1>1, <1>2, SessionsAfterRevoke

LEMMA ReportRowsAge ==
    ASSUME ReportTypeOK, [ReportNext]_reportVars
    PROVE  RowsAge
<1>1. TypeOK
  BY DEF ReportTypeOK
<1>2. ASSUME UNCHANGED <<cards, devices, sessions>> PROVE RowsAge
  BY <1>2, SameCardsAge, SameDevicesAge, SameSessionsAge DEF RowsAge
<1>3. CASE ClientAuthStep
  BY <1>1, <1>3, RowsAgeStep DEF ClientAuthStep
<1>4. ASSUME NEW r \in reporting, RotateSession(r) PROVE SessionsAge
  <2>1. r.sid \in SessionIds
    BY DEF ReportTypeOK, ReportRequest
  <2> QED
    BY <1>1, <1>4, <2>1, RotationAges
<1>5. CASE SecurityReport
  <2>1. ASSUME NEW w, NEW s, NEW n, NEW i, NEW addr, ReportPrepare(w, s, n, i, addr)
        PROVE  UNCHANGED <<cards, devices, sessions>>
    BY <2>1 DEF ReportPrepare, vars, tables
  <2>2. ASSUME NEW r, ReportLookup(r) \/ ReportDecide(r)
        PROVE  UNCHANGED <<cards, devices, sessions>>
    BY <2>2 DEF ReportLookup, ReportDecide, vars, tables
  <2>3. ASSUME NEW r \in reporting, ReportRotateAgain(r) PROVE RowsAge
    BY <1>4, <2>3, SameCardsAge, SameDevicesAge DEF ReportRotateAgain, RowsAge
  <2>4. ASSUME NEW r \in reporting, NEW m, ReportCommit(r, m) PROVE RowsAge
    <3>1. CardsAge /\ DevicesAge
      BY <1>1, <2>4, DisposeAges DEF ReportCommit
    <3>2. SessionsAge
      BY <1>1, <1>4, <2>4, SessionsAfterAge DEF ReportCommit
    <3> QED
      BY <3>1, <3>2 DEF RowsAge
  <2> QED
    BY <1>2, <1>5, <2>1, <2>2, <2>3, <2>4 DEF SecurityReport
<1>6. CASE MessageCentre
  <2>1. ASSUME NEW w, NEW m, NEW action, NEW S, NEW status,
               \/ ActRead(w, m, action) \/ MarkMessages(S, status)
               \/ DeleteMessages(S) \/ ClearActivity
        PROVE  UNCHANGED <<cards, devices, sessions>>
    BY <2>1 DEF ActRead, MarkMessages, DeleteMessages, ClearActivity, vars, tables
  <2>2. ASSUME NEW r, ActWrite(r) PROVE RowsAge
    BY <1>1, <2>2, DisposeAges, SessionsAfterAge DEF ActWrite, RowsAge
  <2> QED
    BY <1>2, <1>6, <2>1, <2>2 DEF MessageCentre
<1>7. ASSUME NEW p, SetPolicy(p) \/ Retention \/ ReportDrop \/ UNCHANGED reportVars
      PROVE  UNCHANGED <<cards, devices, sessions>>
  BY <1>7 DEF SetPolicy, Retention, SweepRead, SweepMessages, SweepReports,
              ReportDrop, reportVars, vars, tables
<1> QED
  BY <1>2, <1>3, <1>5, <1>6, <1>7 DEF ReportNext

LEMMA SessionsReferStep ==
    ASSUME ReportTypeOK, SessionsRefer, RowsAge
    PROVE  SessionsRefer'
<1> SUFFICES ASSUME NEW s \in LiveSessions'
             PROVE  Refers(s, sessions[s].device, sessions[s].card)'
  BY DEF SessionsRefer
<1>1. /\ s \in SessionIds /\ sessions'[s].row = "live" /\ SessionAges(s)
      /\ sessions[s].device \in DeviceIds \cup {None}
      /\ sessions[s].card \in CardIds \cup {None}
  BY DEF LiveSessions, RowsAge, SessionsAge, ReportTypeOK, TypeOK, SessionRow
<1>2. CASE sessions[s].row = "unborn"
  BY <1>1, <1>2 DEF SessionAges, Refers, LiveDevices, LiveCards
<1>3. CASE sessions[s].row # "unborn"
  <2>1. s \in LiveSessions
    BY <1>1, <1>3 DEF SessionAges, LiveSessions
  <2>2. Refers(s, sessions[s].device, sessions[s].card)
    BY <2>1 DEF SessionsRefer
  <2> DEFINE d == sessions[s].device
             c == sessions[s].card
  <2>3. /\ d \in DeviceIds \cup {None} /\ c \in CardIds \cup {None}
        /\ Refers(s, d, c)
        /\ sessions'[s].device = d /\ sessions'[s].card \in {c, None}
    BY <1>1, <1>3, <2>2 DEF SessionAges
  <2> HIDE DEF d, c
  <2>4. sessions'[s].row # "unborn"
    BY <1>1
  <2>5. /\ d # None => devices'[d].row # "unborn"
        /\ c # None => cards'[c].row # "unborn"
    BY <1>1, <2>3, RefersKept DEF Refers
  <2> QED
    BY <2>3, <2>4, <2>5 DEF Refers
<1> QED
  BY <1>2, <1>3

(* A request says of its session what an earlier request, the session or a *)
(* message said.                                                           *)
LEMMA RequestsCarry ==
    ASSUME ReportTypeOK, [ReportNext]_reportVars
    PROVE  /\ \A r \in reporting' :
                 \/ \E q \in reporting :
                       r.sid = q.sid /\ r.device = q.device /\ r.card = q.card
                 \/ /\ r.sid \in LiveSessions
                    /\ r.device = sessions[r.sid].device
                    /\ r.card = sessions[r.sid].card
           /\ \A r \in acts' :
                 \/ r \in acts
                 \/ \E m \in LiveMessages :
                       /\ r.sid = messages[m].sid
                       /\ r.device = messages[m].device
                       /\ r.card = messages[m].card
<1>1. ASSUME reporting' \subseteq reporting, acts' \subseteq acts
      PROVE  /\ \A r \in reporting' : r \in reporting
             /\ \A r \in acts' : r \in acts
  BY <1>1
<1>2. ASSUME ClientAuthStep \/ Retention \/ ReportDrop \/ UNCHANGED reportVars
      PROVE  reporting' \subseteq reporting /\ acts' \subseteq acts
  BY <1>2 DEF ClientAuthStep, Retention, SweepRead, SweepMessages, SweepReports,
              ReportDrop, reportVars, reportInflight
<1>3. ASSUME NEW p, SetPolicy(p)
      PROVE  reporting' \subseteq reporting /\ acts' \subseteq acts
  BY <1>3 DEF SetPolicy, reportInflight
<1>4. CASE SecurityReport
  <2>1. acts' = acts
    BY <1>4 DEF SecurityReport, ReportPrepare, ReportLookup, ReportDecide,
                ReportRotateAgain, ReportCommit
  <2>2. ASSUME NEW w, NEW s \in SessionIds, NEW n, NEW i, NEW addr,
               ReportPrepare(w, s, n, i, addr), NEW r \in reporting'
        PROVE  \/ r \in reporting
               \/ /\ r.sid \in LiveSessions
                  /\ r.device = sessions[r.sid].device
                  /\ r.card = sessions[r.sid].card
    <3>1. s \in LiveSessions
      BY <2>2 DEF ReportPrepare, SessionAccepted, Active
    <3> QED
      BY <2>2, <3>1 DEF ReportPrepare
  <2>3. ASSUME NEW q \in reporting, ReportLookup(q) \/ ReportDecide(q),
               NEW r \in reporting'
        PROVE  \/ r \in reporting
               \/ r.sid = q.sid /\ r.device = q.device /\ r.card = q.card
    <3>1. q \in ReportRequest
      BY DEF ReportTypeOK
    <3>2. CASE ReportLookup(q)
      <4>1. r \in reporting \/ r = [q EXCEPT !.stage = "duplicate"]
        BY <2>3, <3>2 DEF ReportLookup
      <4> QED
        BY <3>1, <4>1 DEF ReportRequest
    <3>3. CASE ReportDecide(q)
      <4>1. r \in reporting
            \/ \E a : r = [q EXCEPT !.stage = "decided", !.action = a]
        BY <2>3, <3>3 DEF ReportDecide
      <4> QED
        BY <3>1, <4>1 DEF ReportRequest
    <3> QED
      BY <2>3, <3>2, <3>3
  <2>4. ASSUME NEW q, NEW m, ReportRotateAgain(q) \/ ReportCommit(q, m)
        PROVE  reporting' \subseteq reporting
    BY <2>4 DEF ReportRotateAgain, ReportCommit
  <2> QED
    BY <1>4, <2>1, <2>2, <2>3, <2>4 DEF SecurityReport
<1>5. CASE MessageCentre
  <2>1. reporting' = reporting
    BY <1>5 DEF MessageCentre, ActRead, ActWrite, MarkMessages, DeleteMessages,
                ClearActivity, reportInflight
  <2>2. ASSUME NEW w, NEW m \in Reports, NEW action, ActRead(w, m, action),
               NEW r \in acts'
        PROVE  \/ r \in acts
               \/ /\ m \in LiveMessages
                  /\ r.sid = messages[m].sid
                  /\ r.device = messages[m].device
                  /\ r.card = messages[m].card
    BY <2>2 DEF ActRead
  <2>3. ASSUME NEW q, NEW S, NEW status,
               \/ ActWrite(q) \/ MarkMessages(S, status)
               \/ DeleteMessages(S) \/ ClearActivity
        PROVE  acts' \subseteq acts
    BY <2>3 DEF ActWrite, MarkMessages, DeleteMessages, ClearActivity, reportInflight
  <2> QED
    BY <1>5, <2>1, <2>2, <2>3 DEF MessageCentre
<1> QED
  BY <1>1, <1>2, <1>3, <1>4, <1>5 DEF ReportNext

LEMMA RequestsReferStep ==
    ASSUME DispositionInv, RowsAge, [ReportNext]_reportVars
    PROVE  RequestsRefer'
<1>1. ReportTypeOK
  BY DEF DispositionInv
<1>2. ASSUME NEW r \in reporting' PROVE Refers(r.sid, r.device, r.card)'
  <2> DEFINE s == r.sid
             d == r.device
             c == r.card
  <2>1. /\ s \in SessionIds /\ d \in DeviceIds \cup {None}
        /\ c \in CardIds \cup {None}
    BY <1>1, ReportTypeStep DEF ReportTypeOK, ReportRequest
  <2>2. Refers(s, d, c)
    BY <1>1, RequestsCarry DEF DispositionInv, RequestsRefer, SessionsRefer
  <2> HIDE DEF s, d, c
  <2>3. Refers(s, d, c)'
    BY <2>1, <2>2, RefersKept
  <2> QED
    BY <2>3 DEF s, d, c
<1>3. ASSUME NEW r \in acts', r.sid # None PROVE Refers(r.sid, r.device, r.card)'
  <2> DEFINE s == r.sid
             d == r.device
             c == r.card
  <2>1. /\ s \in SessionIds /\ d \in DeviceIds \cup {None}
        /\ c \in CardIds \cup {None}
    BY <1>1, <1>3, ReportTypeStep DEF ReportTypeOK, ActRequest
  <2>2. Refers(s, d, c)
    BY <1>1, <1>3, RequestsCarry DEF DispositionInv, RequestsRefer, MessagesRefer
  <2> HIDE DEF s, d, c
  <2>3. Refers(s, d, c)'
    BY <2>1, <2>2, RefersKept
  <2> QED
    BY <2>3 DEF s, d, c
<1> QED
  BY <1>2, <1>3 DEF RequestsRefer

(* A message says what it said before, less what ON DELETE SET NULL took,  *)
(* or what the report says that it comes with.                             *)
LEMMA MessagesCarry ==
    ASSUME ReportTypeOK, [ReportNext]_reportVars, NEW m \in LiveMessages',
           messages'[m].sid # None
    PROVE  \/ /\ m \in LiveMessages
              /\ messages'[m].sid = messages[m].sid
              /\ messages'[m].device \in {messages[m].device, None}
              /\ messages'[m].card \in {messages[m].card, None}
           \/ \E r \in reporting :
                 /\ messages'[m].sid = r.sid
                 /\ messages'[m].device = r.device
                 /\ messages'[m].card = r.card
<1> DEFINE Carried == /\ m \in LiveMessages
                      /\ messages'[m].sid = messages[m].sid
                      /\ messages'[m].device \in {messages[m].device, None}
                      /\ messages'[m].card \in {messages[m].card, None}
<1>1. /\ m \in Reports /\ messages[m] \in MessageRow
      /\ messages'[m].row = "live"
  BY DEF LiveMessages, ReportTypeOK
<1>2. ASSUME messages' = messages PROVE Carried
  BY <1>1, <1>2 DEF LiveMessages
<1>3. ASSUME NEW gone, NEW goneReports, MessagesDetached(gone, goneReports)
      PROVE  Carried
  <2>1. m \notin gone
    BY <1>1, <1>3 DEF MessagesDetached, NoMessage
  <2> DEFINE cut == [messages[m] EXCEPT !.report = Ref(@, Reports \ goneReports)]
  <2>2. messages'[m] =
          [cut EXCEPT
              !.sid = Ref(@, {s \in SessionIds : sessions'[s].row = "live"}),
              !.device = Ref(@, {d \in DeviceIds : devices'[d].row = "live"}),
              !.card = Ref(@, {c \in CardIds : cards'[c].row = "live"})]
    BY <1>1, <1>3, <2>1 DEF MessagesDetached
  <2>3. /\ cut.row = messages[m].row /\ cut.sid = messages[m].sid
        /\ cut.device = messages[m].device /\ cut.card = messages[m].card
        /\ cut = [row |-> cut.row, report |-> cut.report, sid |-> cut.sid,
                  device |-> cut.device, card |-> cut.card,
                  severity |-> cut.severity, status |-> cut.status, at |-> cut.at]
    BY <1>1 DEF MessageRow
  <2> HIDE DEF cut
  <2>4. /\ messages'[m].row = cut.row
        /\ messages'[m].sid = Ref(cut.sid, {s \in SessionIds : sessions'[s].row = "live"})
        /\ messages'[m].device = Ref(cut.device, {d \in DeviceIds : devices'[d].row = "live"})
        /\ messages'[m].card = Ref(cut.card, {c \in CardIds : cards'[c].row = "live"})
    BY <2>2, <2>3
  <2> QED
    BY <1>1, <2>3, <2>4 DEF Ref, LiveMessages
<1>4. ASSUME NEW r \in reporting, NEW k \in Reports, ReportCommit(r, k)
      PROVE  \/ Carried
             \/ /\ messages'[m].sid = r.sid
                /\ messages'[m].device = r.device
                /\ messages'[m].card = r.card
  <2>1. CASE m = k
    BY <1>1, <1>4, <2>1 DEF ReportCommit, ReportTypeOK
  <2>2. CASE m # k
    BY <1>1, <1>4, <2>2 DEF ReportCommit, ReportTypeOK, LiveMessages
  <2> QED
    BY <2>1, <2>2
<1>5. ASSUME NEW r, NEW status, NEW S,
             \/ ActWrite(r) \/ MarkMessages(S, status) \/ SweepMessages(r)
             \/ DeleteMessages(S) \/ ClearActivity
      PROVE  Carried
  <2>1. \/ messages'[m] = messages[m]
        \/ \E x : messages'[m] = [messages[m] EXCEPT !.status = x]
        \/ messages'[m] = [NoMessage EXCEPT !.row = "deleted"]
    <3>1. CASE ActWrite(r)
      BY <1>1, <3>1 DEF ActWrite, ReportTypeOK
    <3>2. CASE MarkMessages(S, status)
      BY <1>1, <3>2 DEF MarkMessages
    <3>3. CASE DeleteMessages(S) \/ ClearActivity \/ SweepMessages(r)
      BY <1>1, <3>3 DEF DeleteMessages, ClearActivity, SweepMessages, MessagesWithout
    <3> QED
      BY <1>5, <3>1, <3>2, <3>3
  <2>2. messages'[m] # [NoMessage EXCEPT !.row = "deleted"]
    BY <1>1 DEF NoMessage
  <2> QED
    BY <1>1, <2>1, <2>2 DEF MessageRow, LiveMessages
<1>6. CASE ClientAuthStep \/ Retention
  <2>1. ASSUME NEW w, SweepRead(w) PROVE messages' = messages
    BY <2>1 DEF SweepRead, reportTables
  <2> QED
    BY <1>2, <1>3, <1>5, <1>6, <2>1 DEF ClientAuthStep, Retention, SweepReports
<1>7. CASE SecurityReport
  <2>1. ASSUME NEW w, NEW s, NEW n, NEW i, NEW addr, NEW r,
               \/ ReportPrepare(w, s, n, i, addr) \/ ReportLookup(r)
               \/ ReportDecide(r) \/ ReportRotateAgain(r)
        PROVE  messages' = messages
    BY <2>1 DEF ReportPrepare, ReportLookup, ReportDecide, ReportRotateAgain,
                reportTables
  <2> QED
    BY <1>2, <1>4, <1>7, <2>1 DEF SecurityReport
<1>8. CASE MessageCentre
  <2>1. ASSUME NEW w, NEW k, NEW action, ActRead(w, k, action)
        PROVE  messages' = messages
    BY <2>1 DEF ActRead, reportTables
  <2> QED
    BY <1>2, <1>5, <1>8, <2>1 DEF MessageCentre
<1>9. ASSUME NEW p, SetPolicy(p) \/ ReportDrop \/ UNCHANGED reportVars
      PROVE  messages' = messages
  BY <1>9 DEF SetPolicy, ReportDrop, reportVars, reportTables
<1> QED
  BY <1>2, <1>6, <1>7, <1>8, <1>9 DEF ReportNext

LEMMA MessagesReferStep ==
    ASSUME DispositionInv, RowsAge, [ReportNext]_reportVars
    PROVE  MessagesRefer'
<1> SUFFICES ASSUME NEW m \in LiveMessages', messages'[m].sid # None
             PROVE  Refers(messages[m].sid, messages[m].device, messages[m].card)'
  BY DEF MessagesRefer
<1>1. ReportTypeOK
  BY DEF DispositionInv
<1>2. PICK s, d, c :
         /\ Refers(s, d, c)
         /\ s \in SessionIds /\ d \in DeviceIds \cup {None}
         /\ c \in CardIds \cup {None}
         /\ messages'[m].sid = s
         /\ messages'[m].device \in {d, None}
         /\ messages'[m].card \in {c, None}
  <2>1. CASE /\ m \in LiveMessages
             /\ messages'[m].sid = messages[m].sid
             /\ messages'[m].device \in {messages[m].device, None}
             /\ messages'[m].card \in {messages[m].card, None}
    <3>1. messages[m] \in MessageRow
      BY <1>1, <2>1 DEF ReportTypeOK, LiveMessages
    <3>2. Refers(messages[m].sid, messages[m].device, messages[m].card)
      BY <2>1 DEF DispositionInv, MessagesRefer
    <3> QED
      BY <2>1, <3>1, <3>2 DEF MessageRow
  <2>2. ASSUME NEW r \in reporting, messages'[m].sid = r.sid,
               messages'[m].device = r.device, messages'[m].card = r.card
        PROVE  /\ Refers(r.sid, r.device, r.card)
               /\ r.sid \in SessionIds /\ r.device \in DeviceIds \cup {None}
               /\ r.card \in CardIds \cup {None}
    BY <1>1, <2>2 DEF DispositionInv, RequestsRefer, ReportTypeOK, ReportRequest
  <2> QED
    BY <1>1, <2>1, <2>2, MessagesCarry
<1>3. Refers(s, d, c)'
  BY <1>2, RefersKept
<1> QED
  BY <1>2, <1>3, NoneIsNothing DEF Refers, LiveDevices, LiveCards

(* What has ended stays ended, and what a revoking action names ends.      *)
LEMMA DisposedStep ==
    ASSUME DispositionInv, RowsAge, [ReportNext]_reportVars
    PROVE  DisposedEnded'
<1>1. ReportTypeOK /\ TypeOK /\ disposed \subseteq SessionIds
  BY DEF DispositionInv, ReportTypeOK
<1>2. \A s \in disposed : Leases'[s] = "ended"
  <2>1. [Lease!LeaseNext]_Lease!leaseVars
    BY <1>1, ReportLeaseStep
  <2>2. ASSUME NEW s \in disposed PROVE Leases'[s] = "ended"
    <3>1. s \in SessionIds /\ Leases[s] = "ended"
      BY <1>1 DEF DispositionInv, DisposedEnded
    <3>2. CASE UNCHANGED Lease!leaseVars
      BY <3>1, <3>2 DEF Lease!leaseVars
    <3>3. ASSUME NEW S, Lease!End(S) PROVE Leases'[s] = "ended"
      BY <3>1, <3>3 DEF Lease!End, Lease!Ended
    <3>4. ASSUME NEW x, Lease!Exchange(x) PROVE Leases'[s] = "ended"
      BY <3>1, <3>4 DEF Lease!Exchange
    <3>5. ASSUME NEW x \in SessionIds, NEW S, Lease!Grant(x, S)
          PROVE  Leases'[s] = "ended"
      BY <3>1, <3>5 DEF Lease!Grant, Lease!Ended
    <3> QED
      BY <2>1, <3>2, <3>3, <3>4, <3>5 DEF Lease!LeaseNext
  <2> QED
    BY <2>2
<1>3. ASSUME NEW action, NEW s, NEW d, NEW c, NEW h,
             s # None => Refers(s, d, c), Dispose(action, s, d, c, h),
             action \in Revoking =>
                 sessions' = SessionsAfter(action, s, d, c, h)
      PROVE  \A x \in disposed' : Leases'[x] = "ended"
  <2>1. ASSUME NEW x \in disposed', x \notin disposed PROVE Leases'[x] = "ended"
    <3>1. x = s /\ x \in LiveSessions /\ action \in Revoking
      BY <1>3, <2>1 DEF Dispose
    <3>2. x \in SessionIds /\ x # None
      BY <3>1, NoneIsNoReport DEF LiveSessions
    <3>3. ~InForce(x)'
      BY <1>1, <1>3, <3>1, <3>2, DisposalEnds
    <3>4. sessions'[x].row # "unborn"
      BY <3>1, <3>2 DEF RowsAge, SessionsAge, SessionAges, LiveSessions
    <3> QED
      BY <3>2, <3>3, <3>4 DEF Leases
  <2> QED
    BY <1>2, <2>1
<1>4. ASSUME NEW r \in reporting, NEW m, ReportCommit(r, m)
      PROVE  \A x \in disposed' : Leases'[x] = "ended"
  <2>1. Refers(r.sid, r.device, r.card)
    BY DEF DispositionInv, RequestsRefer
  <2>2. /\ Dispose(r.action, r.sid, r.device, r.card, r.hash)
        /\ r.action \in Revoking =>
              sessions' = SessionsAfter(r.action, r.sid, r.device, r.card, r.hash)
    BY <1>4 DEF ReportCommit
  <2> QED
    BY <1>3, <2>1, <2>2
<1>5. ASSUME NEW r \in acts, ActWrite(r)
      PROVE  \A x \in disposed' : Leases'[x] = "ended"
  <2>1. r.sid # None => Refers(r.sid, r.device, r.card)
    BY DEF DispositionInv, RequestsRefer
  <2> QED
    BY <1>3, <1>5, <2>1 DEF ActWrite
<1>6. \/ disposed' = disposed
      \/ \E r \in reporting, m \in Reports : ReportCommit(r, m)
      \/ \E r \in acts : ActWrite(r)
  <2>1. CASE ClientAuthStep \/ Retention \/ ReportDrop \/ UNCHANGED reportVars
    BY <2>1 DEF ClientAuthStep, Retention, SweepRead, SweepMessages, SweepReports,
                ReportDrop, reportVars, reportHistory
  <2>2. CASE SecurityReport
    BY <2>2 DEF SecurityReport, ReportPrepare, ReportLookup, ReportDecide,
                ReportRotateAgain, reportHistory
  <2>3. CASE MessageCentre
    BY <2>3 DEF MessageCentre, ActRead, MarkMessages, DeleteMessages,
                ClearActivity, reportHistory
  <2>4. ASSUME NEW p, SetPolicy(p) PROVE disposed' = disposed
    BY <2>4 DEF SetPolicy, reportHistory
  <2> QED
    BY <2>1, <2>2, <2>3, <2>4 DEF ReportNext
<1> QED
  BY <1>2, <1>4, <1>5, <1>6 DEF DisposedEnded

LEMMA DispositionStep ==
    DispositionInv /\ [ReportNext]_reportVars => DispositionInv'
<1> SUFFICES ASSUME DispositionInv, [ReportNext]_reportVars
             PROVE  DispositionInv'
  OBVIOUS
<1>1. ReportTypeOK /\ SessionsRefer
  BY DEF DispositionInv
<1>2. RowsAge
  BY <1>1, ReportRowsAge
<1> QED
  BY <1>1, <1>2, ReportTypeStep, SessionsReferStep, RequestsReferStep,
     MessagesReferStep, DisposedStep DEF DispositionInv

(* Whoever decides, the client's report under the policy or an operator    *)
(* later, an enforced action ends its session for good: when the card or   *)
(* the device is gone by then the session is ended by itself, and no       *)
(* request that was in flight revives it.                                  *)
THEOREM DispositionsLast == ReportSpec => []DisposedStayEnded
<1>1. DispositionInv => DisposedStayEnded
  BY DEF DispositionInv, DisposedEnded, DisposedStayEnded, Leases, ReportTypeOK
<1> QED
  BY <1>1, DispositionInit, DispositionStep, PTL DEF ReportSpec

-----------------------------------------------------------------------------
(* Cards disabled by a disposition                                         *)

(* A card leaves quieted in the step that enables or deletes it.           *)
QuietedInv ==
    /\ ReportTypeOK
    /\ EnforcedIsQuiet
    /\ \A c \in quieted : c \in LiveCards /\ cards[c].status = 2

(* What a step leaves of the cards it leaves in quieted.                   *)
StayQuiet ==
    /\ \A c \in quieted' : cards'[c].row = "live" /\ cards'[c].status = 2
    /\ \A c \in quieted', s \in SessionIds :
          sessions'[s].row = "live" /\ sessions'[s].card = c =>
              sessions'[s].status = 0

(* Quiet cards stay quiet in a step that disables no card.                 *)
LEMMA QuietSessionsStay ==
    ASSUME QuietedInv, cards' = cards, quieted' = quieted,
           \A s \in SessionIds :
               sessions'[s].row = "live" =>
                   /\ sessions[s].row = "live"
                   /\ sessions'[s].card = sessions[s].card
                   /\ sessions'[s].status \in {sessions[s].status, 0}
    PROVE  StayQuiet
BY DEF StayQuiet, QuietedInv, EnforcedIsQuiet, LiveSessions, LiveCards

(* A rotation finds its session in force, so its card was not quiet.       *)
LEMMA RotationOfRow ==
    ASSUME TypeOK, NEW r, r.sid \in SessionIds, RotateSession(r)
    PROVE  \A s \in SessionIds :
              /\ sessions'[s].row = sessions[s].row
              /\ sessions'[s].card = sessions[s].card
              /\ sessions'[s].status = sessions[s].status
<1>1. sessions[r.sid] \in SessionRow
  BY DEF TypeOK
<1>2. \A t \in SessionIds : t # r.sid => sessions'[t] = sessions[t]
  BY DEF RotateSession, Rotated, TypeOK
<1>3. /\ sessions'[r.sid].row = sessions[r.sid].row
      /\ sessions'[r.sid].card = sessions[r.sid].card
      /\ sessions'[r.sid].status = sessions[r.sid].status
  BY <1>1 DEF RotateSession, Rotated, TypeOK, SessionRow
<1> QED
  BY <1>2, <1>3

LEMMA RevocationOfRow ==
    ASSUME TypeOK, NEW S, sessions' = Revoked(S)
    PROVE  \A s \in SessionIds :
              /\ sessions'[s].row = sessions[s].row
              /\ sessions'[s].card = sessions[s].card
              /\ sessions'[s].status \in {sessions[s].status, 0}
              /\ s \in S /\ sessions[s].row = "live" => sessions'[s].status = 0
BY DEF Revoked, TypeOK, SessionRow, LiveSessions

(* What a disposition does to the cards and to their sessions.             *)
LEMMA DisposalQuiets ==
    ASSUME QuietedInv, NEW action, NEW s0, NEW d, NEW c0, NEW h,
           Dispose(action, s0, d, c0, h),
           sessions' = SessionsAfter(action, s0, d, c0, h)
    PROVE  StayQuiet
<1>0. TypeOK /\ quieted \subseteq CardIds
  BY DEF QuietedInv, ReportTypeOK
<1> DEFINE off == DisabledCard(action, c0)
<1>1. /\ off \subseteq LiveCards
      /\ quieted' = quieted \cup off
      /\ \A c \in CardIds : cards'[c] =
            IF c \in off THEN [cards[c] EXCEPT !.status = 2] ELSE cards[c]
  BY DEF Dispose, DisabledCard
<1>2. \A c \in CardIds : cards[c] \in CardRow
  BY <1>0 DEF TypeOK
<1>3. PICK S : sessions' = Revoked(S) \/ sessions' = sessions
  BY SessionsAfterRevoke
<1>4. \A s \in SessionIds :
          /\ sessions'[s].row = sessions[s].row
          /\ sessions'[s].card = sessions[s].card
          /\ sessions'[s].status \in {sessions[s].status, 0}
  BY <1>0, <1>3, RevocationOfRow
<1>5. ASSUME NEW c \in quieted' PROVE cards'[c].row = "live" /\ cards'[c].status = 2
  <2>1. c \in LiveCards /\ c \in CardIds
    BY <1>0, <1>1, <1>5 DEF QuietedInv, LiveCards
  <2>2. CASE c \in off
    BY <1>1, <1>2, <2>1, <2>2 DEF LiveCards, CardRow
  <2>3. CASE c \notin off
    BY <1>1, <1>5, <2>1, <2>3 DEF QuietedInv, LiveCards
  <2> QED
    BY <2>2, <2>3
<1>6. ASSUME NEW c \in quieted', NEW s \in SessionIds,
             sessions'[s].row = "live", sessions'[s].card = c
      PROVE  sessions'[s].status = 0
  <2>1. sessions[s].row = "live" /\ sessions[s].card = c
    BY <1>4, <1>6
  <2>2. CASE c \in quieted
    <3>1. sessions[s].status = 0
      BY <2>1, <2>2 DEF QuietedInv, EnforcedIsQuiet, LiveSessions
    <3> QED
      BY <1>4, <3>1
  <2>3. CASE c \in off
    <3>1. action = "disable_card" /\ c0 = c /\ c \in LiveCards
      BY <2>3 DEF DisabledCard
    <3>2. sessions' = Revoked({x \in SessionIds : OnCard(x, c, h)})
      BY <3>1 DEF SessionsAfter
    <3>3. OnCard(s, c, h)
      BY <2>1, <3>1, NoneIsNothing DEF OnCard, LiveCards
    <3> QED
      BY <1>0, <2>1, <3>2, <3>3, RevocationOfRow
  <2> QED
    BY <1>1, <1>6, <2>2, <2>3
<1> QED
  BY <1>5, <1>6 DEF StayQuiet

(* A step of the client API or the console: a login needs the card to be   *)
(* enabled, a rotation a session in force.                                 *)
LEMMA ClientStepQuiet ==
    ASSUME QuietedInv, ClientAuthStep
    PROVE  StayQuiet
<1>0. TypeOK /\ Next /\ quieted \subseteq CardIds
  BY DEF QuietedInv, ReportTypeOK, ClientAuthStep
<1>1. \A c \in quieted' : c \in quieted /\ cards'[c].row = "live" /\ cards'[c].status = 2
  BY DEF ClientAuthStep, StillDisabled
<1>2. ASSUME NEW c \in quieted', NEW s \in SessionIds,
             sessions'[s].row = "live", sessions'[s].card = c
      PROVE  sessions'[s].status = 0
  <2>1. /\ c \in quieted /\ c \in CardIds
        /\ cards'[c].row = "live" /\ cards'[c].status = 2
    BY <1>0, <1>1, <1>2
  <2>2. ~CardUsed(c)
    BY <1>0, <2>1, Disabling
  <2>3. sessions[s].card = c /\ (Weakened(s) \/ Renewed(s))
    BY <1>0, <1>2, <2>1, <2>2, SameCard
  <2>4. sessions[s].row = "live" => sessions[s].status = 0
    BY <2>1, <2>3 DEF QuietedInv, EnforcedIsQuiet, LiveSessions
  <2>5. CASE Weakened(s)
    BY <1>2, <2>4, <2>5 DEF Weakened
  <2>6. CASE Renewed(s)
    <3>1. sessions[s].row = "live" /\ sessions[s].status = 1
      BY <2>6 DEF Renewed, Rotate, RotateSession, StillCurrent, LiveSessions
    <3> QED
      BY <2>4, <3>1
  <2> QED
    BY <2>3, <2>5, <2>6
<1> QED
  BY <1>1, <1>2 DEF StayQuiet

LEMMA QuietedStep == QuietedInv /\ [ReportNext]_reportVars => QuietedInv'
<1> SUFFICES ASSUME QuietedInv, [ReportNext]_reportVars PROVE QuietedInv'
  OBVIOUS
<1>0. TypeOK /\ ReportTypeOK /\ ReportTypeOK'
  BY ReportTypeStep DEF QuietedInv, ReportTypeOK
<1>1. ASSUME UNCHANGED <<sessions, cards, quieted>> PROVE StayQuiet
  BY <1>1, QuietSessionsStay
<1>2. ASSUME NEW r \in reporting, RotateSession(r), cards' = cards, quieted' = quieted
      PROVE  StayQuiet
  <2>1. r.sid \in SessionIds
    BY <1>0 DEF ReportTypeOK, ReportRequest
  <2> QED
    BY <1>0, <1>2, <2>1, RotationOfRow, QuietSessionsStay
<1>3. ASSUME SecurityReport PROVE StayQuiet
  <2>1. ASSUME NEW w, NEW s, NEW n, NEW i, NEW addr, ReportPrepare(w, s, n, i, addr)
        PROVE  StayQuiet
    BY <1>1, <2>1 DEF ReportPrepare, vars, tables, reportHistory
  <2>2. ASSUME NEW r, ReportLookup(r) \/ ReportDecide(r) PROVE StayQuiet
    BY <1>1, <2>2 DEF ReportLookup, ReportDecide, vars, tables, reportHistory
  <2>3. ASSUME NEW r \in reporting, ReportRotateAgain(r) PROVE StayQuiet
    BY <1>2, <2>3 DEF ReportRotateAgain, reportHistory
  <2>4. ASSUME NEW r \in reporting, NEW m, ReportCommit(r, m) PROVE StayQuiet
    <3>1. Dispose(r.action, r.sid, r.device, r.card, r.hash)
      BY <2>4 DEF ReportCommit
    <3>2. CASE r.action \in Revoking
      BY <2>4, <3>1, <3>2, DisposalQuiets DEF ReportCommit
    <3>3. CASE r.action \notin Revoking
      <4>1. RotateSession(r)
        BY <2>4, <3>3 DEF ReportCommit
      <4>2. DisabledCard(r.action, r.card) = {}
        BY <3>3 DEF DisabledCard, Revoking
      <4>3. quieted' = quieted /\ cards' = cards
        BY <1>0, <3>1, <4>2 DEF Dispose, TypeOK
      <4> QED
        BY <1>2, <4>1, <4>3
    <3> QED
      BY <3>2, <3>3
  <2> QED
    BY <1>3, <2>1, <2>2, <2>3, <2>4 DEF SecurityReport
<1>4. ASSUME MessageCentre PROVE StayQuiet
  <2>1. ASSUME NEW w, NEW m, NEW action, ActRead(w, m, action) PROVE StayQuiet
    BY <1>1, <2>1 DEF ActRead, vars, tables, reportHistory
  <2>2. ASSUME NEW r, ActWrite(r) PROVE StayQuiet
    BY <2>2, DisposalQuiets DEF ActWrite
  <2>3. ASSUME NEW S, NEW status,
               MarkMessages(S, status) \/ DeleteMessages(S) \/ ClearActivity
        PROVE  StayQuiet
    BY <1>1, <2>3 DEF MarkMessages, DeleteMessages, ClearActivity, vars, tables,
                      reportHistory
  <2> QED
    BY <1>4, <2>1, <2>2, <2>3 DEF MessageCentre
<1>5. ASSUME NEW p, SetPolicy(p) \/ Retention \/ ReportDrop \/ UNCHANGED reportVars
      PROVE  StayQuiet
  BY <1>1, <1>5 DEF SetPolicy, Retention, SweepRead, SweepMessages, SweepReports,
              ReportDrop, reportVars, vars, tables, reportHistory
<1>6. ASSUME ClientAuthStep PROVE StayQuiet
  BY <1>6, ClientStepQuiet
<1>7. StayQuiet
  BY <1>3, <1>4, <1>5, <1>6 DEF ReportNext
<1>8. \A c \in quieted' : c \in CardIds
  BY <1>0 DEF ReportTypeOK
<1> QED
  BY <1>0, <1>7, <1>8 DEF StayQuiet, QuietedInv, EnforcedIsQuiet, LiveSessions, LiveCards

(* A card that a report or a disposition has disabled is out of use at     *)
(* once, and stays so whatever was in flight, until it is enabled again.   *)
THEOREM EnforcementIsQuiet == ReportSpec => []EnforcedIsQuiet
<1>1. ReportInit => QuietedInv
  BY ReportTypeInit DEF ReportInit, QuietedInv, EnforcedIsQuiet
<1>2. QuietedInv => EnforcedIsQuiet
  BY DEF QuietedInv
<1> QED
  BY <1>1, <1>2, QuietedStep, PTL DEF ReportSpec

-----------------------------------------------------------------------------
(* Report rates                                                            *)

(* The reports that left session s alive, those of one window, and those   *)
(* that assert_security_report_rate_limit counts now.                      *)
Spared(s) ==
    {m \in KeptReports : reports[m].sid = s /\ reports[m].action \notin Revoking}

Window(s, t) == {m \in Spared(s) : reports[m].at \in t..(t + RateWindow)}

Counted(s) == {m \in Spared(s) : reports[m].at + RateWindow >= now}

IsCritical(m) == reports[m].input.risk = "critical"

(* A decided report is within the rates for as long as its token is        *)
(* current: whoever adds a report of the session takes the token.          *)
Admitted(r) ==
    \/ Cardinality(Counted(r.sid)) < SessionRate
    \/ /\ r.input.risk = "critical"
       /\ \A m \in Counted(r.sid) : ~IsCritical(m)

Presented(r) == sessions[r.sid].row = "live" /\ sessions[r.sid].token = r.token

(* A window is over the session limit by one critical report only.         *)
WindowHolds(s, t) ==
    \/ Cardinality(Window(s, t)) <= SessionRate
    \/ /\ Cardinality(Window(s, t)) <= SessionRate + 1
       /\ \E m \in Window(s, t) : IsCritical(m)

RateInv ==
    /\ ReportTypeOK
    /\ IsFiniteSet(KeptReports)
    /\ \A s \in SessionIds, t \in Nat : WindowHolds(s, t)
    /\ \A r \in reporting :
          /\ sessions[r.sid].row # "unborn"
          /\ sessions[r.sid].row = "live" => r.token <= sessions[r.sid].token
          /\ r.stage = "decided" /\ Presented(r) => Admitted(r)

(* Deletions, and references set to NULL.                                  *)
ReportsThin ==
    \A m \in Reports : reports'[m].row = "live" =>
        /\ reports[m].row = "live"
        /\ reports'[m].at = reports[m].at
        /\ reports'[m].action = reports[m].action
        /\ reports'[m].input = reports[m].input
        /\ reports'[m].sid \in {reports[m].sid, None}

LEMMA DetachedThin ==
    ASSUME ReportTypeOK, NEW gone, ReportsDetached(gone)
    PROVE  ReportsThin
<1> SUFFICES ASSUME NEW m \in Reports, reports'[m].row = "live"
             PROVE  /\ reports[m].row = "live"
                    /\ reports'[m].at = reports[m].at
                    /\ reports'[m].action = reports[m].action
                    /\ reports'[m].input = reports[m].input
                    /\ reports'[m].sid \in {reports[m].sid, None}
  BY DEF ReportsThin
<1>1. reports[m] \in ReportRow
  BY DEF ReportTypeOK
<1>2. m \notin gone
  BY DEF ReportsDetached, NoReport
<1> DEFINE sid == Ref(reports[m].sid, {s \in SessionIds : sessions'[s].row = "live"})
           dev == Ref(reports[m].device, {d \in DeviceIds : devices'[d].row = "live"})
           card == Ref(reports[m].card, {c \in CardIds : cards'[c].row = "live"})
<1>3. reports'[m] = [reports[m] EXCEPT !.sid = sid, !.device = dev, !.card = card]
  BY <1>2 DEF ReportsDetached
<1>4. sid \in {reports[m].sid, None}
  BY DEF Ref
<1> HIDE DEF sid, dev, card
<1> QED
  BY <1>1, <1>3, <1>4 DEF ReportRow

(* Only a commit adds a report.                                            *)
LEMMA ThinOrCommit ==
    ASSUME ReportTypeOK, [ReportNext]_reportVars
    PROVE  /\ now' \in {now, now + 1}
           /\ \/ ReportsThin
              \/ \E r \in reporting, m \in Reports : ReportCommit(r, m)
<1> DEFINE Goal == /\ now' \in {now, now + 1}
                   /\ \/ ReportsThin
                      \/ \E r \in reporting, m \in Reports : ReportCommit(r, m)
<1>1. ASSUME reports' = reports, now' = now PROVE Goal
  BY <1>1 DEF ReportsThin
<1>2. ASSUME ClientAuthStep PROVE Goal
  BY <1>2, Arrivals, DetachedThin DEF ClientAuthStep, Arrives
<1>3. ASSUME SecurityReport PROVE Goal
  <2>1. ASSUME NEW w, NEW s, NEW n, NEW i, NEW addr, ReportPrepare(w, s, n, i, addr)
        PROVE  Goal
    BY <1>1, <2>1 DEF ReportPrepare, vars, reportTables
  <2>2. ASSUME NEW r, ReportLookup(r) \/ ReportDecide(r) PROVE Goal
    BY <1>1, <2>2 DEF ReportLookup, ReportDecide, vars, reportTables
  <2>3. ASSUME NEW r, ReportRotateAgain(r) PROVE Goal
    BY <1>1, <2>3 DEF ReportRotateAgain, reportTables
  <2>4. ASSUME NEW r \in reporting, NEW m \in Reports, ReportCommit(r, m) PROVE Goal
    <3>1. now' = now
      BY <2>4 DEF ReportCommit
    <3> QED
      BY <2>4, <3>1
  <2> QED
    BY <1>3, <2>1, <2>2, <2>3, <2>4 DEF SecurityReport
<1>4. ASSUME MessageCentre PROVE Goal
  <2>1. ASSUME NEW w, NEW m, NEW action, ActRead(w, m, action) PROVE Goal
    BY <1>1, <2>1 DEF ActRead, vars, reportTables
  <2>2. ASSUME NEW r, ActWrite(r) PROVE Goal
    BY <1>1, <2>2 DEF ActWrite
  <2>3. ASSUME NEW S, NEW status, MarkMessages(S, status) \/ DeleteMessages(S) PROVE Goal
    BY <1>1, <2>3 DEF MarkMessages, DeleteMessages, vars
  <2>4. ASSUME ClearActivity PROVE Goal
    BY <2>4 DEF ClearActivity, vars, ReportsThin, NoReport
  <2> QED
    BY <1>4, <2>1, <2>2, <2>3, <2>4 DEF MessageCentre
<1>5. ASSUME Retention PROVE Goal
  <2>1. ASSUME NEW r, SweepReports(r) PROVE Goal
    BY <2>1, DetachedThin DEF SweepReports, vars
  <2> QED
    BY <1>1, <1>5, <2>1 DEF Retention, SweepRead, SweepMessages, vars, reportTables
<1>6. ASSUME NEW p, SetPolicy(p) \/ ReportDrop \/ UNCHANGED reportVars PROVE Goal
  BY <1>1, <1>6 DEF SetPolicy, ReportDrop, reportVars, vars, reportTables
<1> QED
  BY <1>2, <1>3, <1>4, <1>5, <1>6 DEF ReportNext

(* What a step does to the session of a report in flight.                  *)
LEMMA TokensGrow ==
    ASSUME ReportTypeOK, [ReportNext]_reportVars, NEW s \in SessionIds,
           sessions[s].row # "unborn"
    PROVE  /\ sessions'[s].row # "unborn"
           /\ sessions'[s].row = "live" =>
                 /\ sessions[s].row = "live"
                 /\ sessions'[s].token \in {sessions[s].token, sessions[s].token + 1}
<1> DEFINE Goal == /\ sessions'[s].row # "unborn"
                   /\ sessions'[s].row = "live" =>
                         /\ sessions[s].row = "live"
                         /\ sessions'[s].token \in {sessions[s].token, sessions[s].token + 1}
<1>0. TypeOK /\ sessions[s] \in SessionRow
  BY DEF ReportTypeOK, TypeOK
<1>1. ASSUME sessions'[s] = sessions[s] PROVE Goal
  BY <1>1
<1>2. ASSUME NEW r, r.sid \in SessionIds, RotateSession(r) PROVE Goal
  <2>1. CASE r.sid = s
    <3>1. /\ sessions'[s].row = sessions[s].row
          /\ sessions'[s].token = sessions[s].token + 1
      BY <1>0, <1>2, <2>1 DEF RotateSession, Rotated, TypeOK, SessionRow
    <3> QED
      BY <3>1
  <2>2. CASE r.sid # s
    <3>1. sessions'[s] = sessions[s]
      BY <1>0, <1>2, <2>2 DEF RotateSession, Rotated, TypeOK
    <3> QED
      BY <1>1, <3>1
  <2> QED
    BY <2>1, <2>2
<1>3. ASSUME NEW S, sessions' = Revoked(S) PROVE Goal
  <2>1. /\ sessions'[s].row = sessions[s].row
        /\ sessions'[s].token = sessions[s].token
    BY <1>0, <1>3 DEF Revoked, SessionRow
  <2> QED
    BY <2>1
<1>4. ASSUME ClientAuthStep PROVE Goal
  <2>1. Next
    BY <1>4 DEF ClientAuthStep
  <2>2. CASE Weakened(s)
    BY <2>2 DEF Weakened
  <2>3. CASE Erased(s)
    BY <2>3 DEF Erased
  <2>4. ~Opened(s)
    <3>1. ASSUME NEW r \in logins, NEW c \in CardIds, LoginCommit(r, c, s) PROVE FALSE
      BY <1>0, <3>1, LoginOpens
    <3>2. ASSUME NEW r \in logins, NEW d \in DeviceIds, LoginCommitVirtual(r, d, s)
          PROVE  FALSE
      BY <1>0, <3>2, VirtualOpens
    <3> QED
      BY <3>1, <3>2 DEF Opened
  <2>5. CASE Renewed(s)
    BY <1>2, <2>5 DEF Renewed, Rotate
  <2> QED
    BY <1>0, <2>1, <2>2, <2>3, <2>4, <2>5, SessionWrites
<1>5. ASSUME SecurityReport PROVE Goal
  <2>0. \A r \in reporting : r.sid \in SessionIds
    BY DEF ReportTypeOK, ReportRequest
  <2>1. ASSUME NEW w, NEW x, NEW n, NEW i, NEW addr, ReportPrepare(w, x, n, i, addr)
        PROVE  Goal
    BY <1>1, <2>1 DEF ReportPrepare, vars, tables
  <2>2. ASSUME NEW r, ReportLookup(r) \/ ReportDecide(r) PROVE Goal
    BY <1>1, <2>2 DEF ReportLookup, ReportDecide, vars, tables
  <2>3. ASSUME NEW r \in reporting, ReportRotateAgain(r) PROVE Goal
    BY <1>2, <2>0, <2>3 DEF ReportRotateAgain
  <2>4. ASSUME NEW r \in reporting, NEW m, ReportCommit(r, m) PROVE Goal
    BY <1>1, <1>2, <1>3, <2>0, <2>4, SessionsAfterRevoke DEF ReportCommit
  <2> QED
    BY <1>5, <2>1, <2>2, <2>3, <2>4 DEF SecurityReport
<1>6. ASSUME MessageCentre PROVE Goal
  <2>1. ASSUME NEW w, NEW m, NEW action, ActRead(w, m, action) PROVE Goal
    BY <1>1, <2>1 DEF ActRead, vars, tables
  <2>2. ASSUME NEW r, ActWrite(r) PROVE Goal
    BY <1>1, <1>3, <2>2, SessionsAfterRevoke DEF ActWrite
  <2>3. ASSUME NEW S, NEW status,
               MarkMessages(S, status) \/ DeleteMessages(S) \/ ClearActivity
        PROVE  Goal
    BY <1>1, <2>3 DEF MarkMessages, DeleteMessages, ClearActivity, vars, tables
  <2> QED
    BY <1>6, <2>1, <2>2, <2>3 DEF MessageCentre
<1>7. ASSUME NEW p, SetPolicy(p) \/ Retention \/ ReportDrop \/ UNCHANGED reportVars
      PROVE  Goal
  BY <1>1, <1>7 DEF SetPolicy, Retention, SweepRead, SweepMessages, SweepReports,
              ReportDrop, reportVars, vars, tables
<1> QED
  BY <1>4, <1>5, <1>6, <1>7 DEF ReportNext

(* The reports of a session that left it alive only go.                    *)
SparedThin(s) ==
    \A m \in Spared(s)' :
        /\ m \in Spared(s)
        /\ reports'[m].at = reports[m].at
        /\ reports'[m].input = reports[m].input

LEMMA ThinSpares ==
    ASSUME ReportsThin, NEW s \in SessionIds
    PROVE  SparedThin(s)
<1> SUFFICES ASSUME NEW m \in Spared(s)'
             PROVE  /\ m \in Spared(s)
                    /\ reports'[m].at = reports[m].at
                    /\ reports'[m].input = reports[m].input
  BY DEF SparedThin
<1>1. /\ m \in Reports
      /\ reports'[m].row = "live"
      /\ reports'[m].sid = s
      /\ reports'[m].action \notin Revoking
  BY DEF Spared, KeptReports
<1>2. /\ reports[m].row = "live"
      /\ reports'[m].at = reports[m].at
      /\ reports'[m].action = reports[m].action
      /\ reports'[m].input = reports[m].input
      /\ reports'[m].sid \in {reports[m].sid, None}
  BY <1>1 DEF ReportsThin
<1> QED
  BY <1>1, <1>2, NoneIsNoReport DEF Spared, KeptReports

(* Fewer reports, counted later, exceed no limit.                          *)
LEMMA ThinKeepsRates ==
    ASSUME ReportTypeOK, IsFiniteSet(KeptReports), NEW s \in SessionIds,
           SparedThin(s), now' \in {now, now + 1}
    PROVE  /\ \A t \in Nat : WindowHolds(s, t) => WindowHolds(s, t)'
           /\ \A r : r.sid = s /\ Admitted(r) => Admitted(r)'
<1>0. /\ now \in Nat
      /\ RateWindow \in Nat
      /\ SessionRate \in Nat
      /\ \A m \in Reports : reports[m].at \in Nat
  BY ReportConstants DEF ReportTypeOK, TypeOK, ReportRow
<1>1. \A m \in Spared(s) : m \in KeptReports /\ m \in Reports
  BY DEF Spared, KeptReports
<1>2. ASSUME NEW t \in Nat, WindowHolds(s, t) PROVE WindowHolds(s, t)'
  <2> DEFINE W == Window(s, t)
  <2>1. Window(s, t)' \subseteq W
    BY DEF Window, SparedThin
  <2>2. IsFiniteSet(W)
    <3>1. W \in SUBSET KeptReports
      BY <1>1 DEF Window
    <3> QED
      BY <3>1, FS_Subset
  <2> DEFINE V == Window(s, t)'
  <2>3. V \in SUBSET W
    BY <2>1
  <2>4. \A m \in V : IsCritical(m)' <=> IsCritical(m)
    BY DEF Window, SparedThin, IsCritical
  <2>5. WindowHolds(s, t) <=>
          \/ Cardinality(W) <= SessionRate
          \/ /\ Cardinality(W) <= SessionRate + 1
             /\ \E m \in W : IsCritical(m)
    BY DEF WindowHolds
  <2>6. WindowHolds(s, t)' <=>
          \/ Cardinality(V) <= SessionRate
          \/ /\ Cardinality(V) <= SessionRate + 1
             /\ \E m \in V : IsCritical(m)'
    BY DEF WindowHolds
  <2> HIDE DEF V, W
  <2>7. /\ Cardinality(V) <= Cardinality(W)
        /\ Cardinality(V) = Cardinality(W) => V = W
        /\ Cardinality(V) \in Nat
        /\ Cardinality(W) \in Nat
    BY <2>2, <2>3, FS_Subset, FS_CardinalityType
  <2>8. CASE Cardinality(V) = Cardinality(W)
    BY <1>0, <1>2, <2>4, <2>5, <2>6, <2>7, <2>8
  <2>9. CASE Cardinality(V) # Cardinality(W)
    <3>1. Cardinality(V) < Cardinality(W)
      BY <2>7, <2>9
    <3>2. Cardinality(W) <= SessionRate + 1
      BY <1>0, <1>2, <2>5, <2>7
    <3>3. Cardinality(V) <= SessionRate
      BY <1>0, <2>7, <3>1, <3>2
    <3> QED
      BY <2>6, <3>3
  <2> QED
    BY <2>8, <2>9
<1>3. ASSUME NEW r, r.sid = s, Admitted(r) PROVE Admitted(r)'
  <2> DEFINE W == Counted(s)
             V == Counted(s)'
  <2>1. V \in SUBSET W
    <3> SUFFICES ASSUME NEW m \in V PROVE m \in W
      OBVIOUS
    <3>1. /\ m \in Spared(s)
          /\ reports'[m].at = reports[m].at
          /\ reports'[m].at + RateWindow >= now'
      BY DEF Counted, SparedThin
    <3>2. reports[m].at \in Nat
      BY <1>0, <1>1, <3>1
    <3> QED
      BY <1>0, <3>1, <3>2 DEF Counted
  <2>2. W \in SUBSET KeptReports
    BY <1>1 DEF Counted
  <2>4. \A m \in V : IsCritical(m)' <=> IsCritical(m)
    BY DEF Counted, SparedThin, IsCritical
  <2>5. \/ Cardinality(W) < SessionRate
        \/ r.input.risk = "critical" /\ \A m \in W : ~IsCritical(m)
    BY <1>3 DEF Admitted
  <2>6. Admitted(r)' <=>
          \/ Cardinality(V) < SessionRate
          \/ r.input.risk = "critical" /\ \A m \in V : ~IsCritical(m)'
    BY <1>3 DEF Admitted
  <2> HIDE DEF V, W
  <2>7. /\ Cardinality(V) <= Cardinality(W)
        /\ Cardinality(V) \in Nat
        /\ Cardinality(W) \in Nat
    BY <2>1, <2>2, FS_Subset, FS_CardinalityType
  <2> QED
    BY <1>0, <2>1, <2>4, <2>5, <2>6, <2>7
<1> QED
  BY <1>2, <1>3

(* A report enters with the token of its session, and is decided within    *)
(* the rates.                                                              *)
Enters(r) ==
    /\ UNCHANGED <<sessions, reports, now>>
    /\ r.stage = "decided" => Admitted(r)
    /\ \/ sessions[r.sid].row = "live" /\ r.token = sessions[r.sid].token
       \/ \E q \in reporting : q.sid = r.sid /\ q.token = r.token

LEMMA DecidedIsAdmitted ==
    ASSUME ReportTypeOK, IsFiniteSet(KeptReports), NEW r \in ReportRequest,
           WithinRates(r)
    PROVE  Admitted(r)
<1>0. /\ now \in Nat
      /\ RateWindow \in Nat
      /\ CriticalWindow \in Nat
      /\ RateWindow <= CriticalWindow
      /\ SessionRate \in Nat
      /\ \A m \in Reports : reports[m].at \in Nat
  BY ReportConstants DEF ReportTypeOK, TypeOK, ReportRow
<1> DEFINE W == Counted(r.sid)
           B == BySession(r, RateWindow)
<1>1. W \in SUBSET B /\ B \in SUBSET KeptReports
  BY DEF Counted, Spared, BySession, RecentReports
<1>2. W \in SUBSET BySession(r, CriticalWindow)
  <2> SUFFICES ASSUME NEW m \in W PROVE m \in BySession(r, CriticalWindow)
    OBVIOUS
  <2>1. /\ m \in KeptReports
        /\ m \in Reports
        /\ reports[m].sid = r.sid
        /\ reports[m].at + RateWindow >= now
    BY DEF Counted, Spared, KeptReports
  <2>2. reports[m].at \in Nat
    BY <1>0, <2>1
  <2>3. reports[m].at + CriticalWindow >= now
    BY <1>0, <2>1, <2>2
  <2> QED
    BY <2>1, <2>3 DEF BySession, RecentReports
<1>3. CASE CriticalFallback(r)
  BY <1>2, <1>3 DEF CriticalFallback, Admitted, IsCritical
<1>4. CASE Cardinality(BySession(r, RateWindow)) < SessionRate
  <2>1. IsFiniteSet(B)
    BY <1>1, FS_Subset
  <2>2. /\ Cardinality(W) <= Cardinality(B)
        /\ Cardinality(W) \in Nat
        /\ Cardinality(B) \in Nat
    <3> HIDE DEF W, B
    <3> QED
      BY <1>1, <2>1, FS_Subset, FS_CardinalityType
  <2>3. Cardinality(W) < SessionRate
    BY <1>0, <1>4, <2>2
  <2> QED
    BY <2>3 DEF Admitted
<1> QED
  BY <1>3, <1>4 DEF WithinRates

LEMMA Entrances ==
    ASSUME ReportTypeOK, IsFiniteSet(KeptReports), [ReportNext]_reportVars,
           NEW r \in reporting', r \notin reporting
    PROVE  Enters(r)
<1>0. \A q \in reporting : q \in ReportRequest
  BY DEF ReportTypeOK
<1>1. ASSUME reporting' \subseteq reporting PROVE Enters(r)
  BY <1>1
<1>2. ASSUME SecurityReport PROVE Enters(r)
  <2>1. ASSUME NEW w, NEW s \in SessionIds, NEW n, NEW i, NEW addr,
               ReportPrepare(w, s, n, i, addr)
        PROVE  Enters(r)
    <3>1. /\ r.sid = s
          /\ r.stage = "prepared"
          /\ r.token = sessions[s].token
      BY <2>1 DEF ReportPrepare
    <3>2. sessions[s].row = "live"
      BY <2>1 DEF ReportPrepare, SessionAccepted, Active, LiveSessions
    <3>3. UNCHANGED <<sessions, reports, now>>
      BY <2>1 DEF ReportPrepare, vars, tables, reportTables
    <3> QED
      BY <3>1, <3>2, <3>3 DEF Enters
  <2>2. ASSUME NEW q \in reporting, ReportLookup(q) PROVE Enters(r)
    <3>1. r = [q EXCEPT !.stage = "duplicate"]
      BY <2>2 DEF ReportLookup
    <3>2. /\ r.sid = q.sid
          /\ r.token = q.token
          /\ r.stage = "duplicate"
      BY <1>0, <3>1 DEF ReportRequest
    <3>3. UNCHANGED <<sessions, reports, now>>
      BY <2>2 DEF ReportLookup, vars, tables, reportTables
    <3> QED
      BY <3>2, <3>3 DEF Enters
  <2>3. ASSUME NEW q \in reporting, ReportDecide(q) PROVE Enters(r)
    <3>1. PICK a : r = [q EXCEPT !.stage = "decided", !.action = a]
      BY <2>3 DEF ReportDecide
    <3>2. /\ r.sid = q.sid
          /\ r.token = q.token
          /\ r.input = q.input
      BY <1>0, <3>1 DEF ReportRequest
    <3>3. UNCHANGED <<sessions, reports, now>>
      BY <2>3 DEF ReportDecide, vars, tables, reportTables
    <3>4. Admitted(q)
      BY <1>0, <2>3, DecidedIsAdmitted DEF ReportDecide
    <3>5. Admitted(r)
      BY <3>2, <3>4 DEF Admitted
    <3> QED
      BY <3>2, <3>3, <3>5 DEF Enters
  <2>4. ASSUME NEW q \in reporting, NEW m, ReportRotateAgain(q) \/ ReportCommit(q, m)
        PROVE  Enters(r)
    BY <1>1, <2>4 DEF ReportRotateAgain, ReportCommit
  <2> QED
    BY <1>2, <2>1, <2>2, <2>3, <2>4 DEF SecurityReport
<1>3. ASSUME ClientAuthStep PROVE Enters(r)
  BY <1>1, <1>3 DEF ClientAuthStep, reportInflight
<1>4. ASSUME MessageCentre PROVE Enters(r)
  BY <1>1, <1>4 DEF MessageCentre, ActRead, ActWrite, MarkMessages, DeleteMessages,
                    ClearActivity, reportInflight
<1>5. ASSUME NEW p, SetPolicy(p) \/ Retention \/ ReportDrop \/ UNCHANGED reportVars
      PROVE  Enters(r)
  BY <1>1, <1>5 DEF SetPolicy, Retention, SweepRead, SweepMessages, SweepReports,
              ReportDrop, reportVars, reportInflight
<1> QED
  BY <1>2, <1>3, <1>4, <1>5 DEF ReportNext

(* What a commit adds to the reports.                                      *)
LEMMA CommitAdds ==
    ASSUME ReportTypeOK, NEW r \in reporting, NEW m \in Reports, ReportCommit(r, m)
    PROVE  /\ KeptReports' = KeptReports \cup {m}
           /\ m \notin KeptReports
           /\ reports'[m].sid = r.sid
           /\ reports'[m].action = r.action
           /\ reports'[m].input = r.input
           /\ reports'[m].at = now
           /\ \A k \in Reports \ {m} : reports'[k] = reports[k]
BY DEF ReportCommit, KeptReports, ReportTypeOK

LEMMA CommitKeepsWindows ==
    ASSUME ReportTypeOK, IsFiniteSet(KeptReports), NEW r \in reporting,
           NEW m \in Reports, ReportCommit(r, m), Admitted(r),
           r.action \notin Revoking, NEW t \in Nat, WindowHolds(r.sid, t)
    PROVE  WindowHolds(r.sid, t)'
<1> DEFINE s == r.sid
           W == Window(s, t)
           V == Window(s, t)'
<1>0. /\ now \in Nat
      /\ RateWindow \in Nat
      /\ SessionRate \in Nat
      /\ \A k \in Reports : reports[k].at \in Nat
  BY ReportConstants DEF ReportTypeOK, TypeOK, ReportRow
<1>1. \A k \in Spared(s) : k \in KeptReports /\ k \in Reports
  BY DEF Spared, KeptReports
<1>2. V = IF now \in t..(t + RateWindow) THEN W \cup {m} ELSE W
  <2>1. Spared(s)' = Spared(s) \cup {m}
    BY CommitAdds DEF Spared, KeptReports
  <2> QED
    BY <1>1, <2>1, CommitAdds DEF Window
<1>3. IsFiniteSet(W) /\ m \notin W
  <2>1. W \in SUBSET KeptReports
    BY <1>1 DEF Window
  <2> QED
    BY <2>1, FS_Subset, CommitAdds
<1>4. /\ \A k \in W : IsCritical(k)' <=> IsCritical(k)
      /\ IsCritical(m)' <=> r.input.risk = "critical"
  BY <1>1, <1>3, CommitAdds DEF Window, IsCritical
<1>5. WindowHolds(s, t)' <=>
        \/ Cardinality(V) <= SessionRate
        \/ /\ Cardinality(V) <= SessionRate + 1
           /\ \E k \in V : IsCritical(k)'
  BY DEF WindowHolds
<1>6. \/ Cardinality(W) <= SessionRate
      \/ /\ Cardinality(W) <= SessionRate + 1
         /\ \E k \in W : IsCritical(k)
  BY DEF WindowHolds
<1>7. CASE now \notin t..(t + RateWindow)
  BY <1>2, <1>4, <1>5, <1>6, <1>7
<1>8. CASE now \in t..(t + RateWindow)
  <2> DEFINE C == Counted(s)
  <2>1. W \in SUBSET C
    BY <1>0, <1>1, <1>8 DEF Window, Counted
  <2>2. C \in SUBSET KeptReports
    BY <1>1 DEF Counted
  <2>3. \/ Cardinality(C) < SessionRate
        \/ r.input.risk = "critical" /\ \A k \in C : ~IsCritical(k)
    BY DEF Admitted
  <2>4. V = W \cup {m}
    BY <1>2, <1>8
  <2> HIDE DEF V, W, C, s
  <2>5. /\ Cardinality(W) <= Cardinality(C)
        /\ Cardinality(W) \in Nat
        /\ Cardinality(C) \in Nat
    BY <2>1, <2>2, FS_Subset, FS_CardinalityType
  <2>6. Cardinality(V) = Cardinality(W) + 1
    BY <1>3, <2>4, FS_AddElement
  <2>7. CASE Cardinality(C) < SessionRate
    <3>1. Cardinality(V) <= SessionRate
      BY <1>0, <2>5, <2>6, <2>7
    <3> QED
      BY <1>5, <3>1 DEF s
  <2>8. CASE r.input.risk = "critical" /\ \A k \in C : ~IsCritical(k)
    <3>1. Cardinality(W) <= SessionRate
      BY <1>6, <2>1, <2>8
    <3>2. Cardinality(V) <= SessionRate + 1
      BY <1>0, <2>5, <2>6, <3>1
    <3>3. m \in V /\ IsCritical(m)'
      BY <1>4, <2>4, <2>8
    <3> QED
      BY <1>5, <3>2, <3>3 DEF s
  <2> QED
    BY <2>3, <2>7, <2>8
<1> QED
  BY <1>7, <1>8

(* A commit adds to the reports of a live session only, whose token it     *)
(* takes, so that no other report counted before it passes.                *)
LEMMA CommitSpares ==
    ASSUME ReportTypeOK, NEW r \in reporting, NEW m \in Reports, ReportCommit(r, m),
           NEW s \in SessionIds
    PROVE  \/ SparedThin(s)
           \/ /\ s = r.sid
              /\ r.action \notin Revoking
              /\ Presented(r)
              /\ sessions'[s].token = sessions[s].token + 1
<1>1. CASE s = r.sid /\ r.action \notin Revoking
  <2>1. RotateSession(r)
    BY <1>1 DEF ReportCommit
  <2>2. sessions[s] \in SessionRow /\ sessions \in [SessionIds -> SessionRow]
    BY DEF ReportTypeOK, TypeOK
  <2>3. Presented(r)
    BY <2>1 DEF Presented, RotateSession, StillCurrent, LiveSessions
  <2>4. sessions'[s].token = sessions[s].token + 1
    BY <1>1, <2>1, <2>2 DEF RotateSession, Rotated, SessionRow
  <2> QED
    BY <1>1, <2>3, <2>4
<1>2. CASE s # r.sid \/ r.action \in Revoking
  <2>1. \A k \in Spared(s)' : k \in Reports \ {m} /\ k \in KeptReports
    BY <1>2, CommitAdds DEF Spared, KeptReports
  <2> QED
    BY <2>1, CommitAdds DEF SparedThin, Spared, KeptReports
<1> QED
  BY <1>1, <1>2

LEMMA RateStep == RateInv /\ [ReportNext]_reportVars => RateInv'
<1> SUFFICES ASSUME RateInv, [ReportNext]_reportVars PROVE RateInv'
  OBVIOUS
<1>0. /\ ReportTypeOK
      /\ IsFiniteSet(KeptReports)
      /\ \A s \in SessionIds, t \in Nat : WindowHolds(s, t)
  BY DEF RateInv
<1>1. ReportTypeOK'
  BY <1>0, ReportTypeStep
<1>2. /\ now' \in {now, now + 1}
      /\ \/ ReportsThin
         \/ \E r \in reporting, m \in Reports : ReportCommit(r, m)
  BY <1>0, ThinOrCommit
<1>3. IsFiniteSet(KeptReports)'
  <2>1. CASE ReportsThin
    <3>1. KeptReports' \in SUBSET KeptReports
      BY <2>1 DEF KeptReports, ReportsThin
    <3> QED
      BY <1>0, <3>1, FS_Subset
  <2>2. ASSUME NEW r \in reporting, NEW m \in Reports, ReportCommit(r, m)
        PROVE  IsFiniteSet(KeptReports)'
    <3>1. KeptReports' = KeptReports \cup {m}
      BY <1>0, <2>2, CommitAdds
    <3> QED
      BY <1>0, <3>1, FS_AddElement
  <2> QED
    BY <1>2, <2>1, <2>2
<1>4. \A r \in reporting : /\ r \in ReportRequest
                           /\ r.sid \in SessionIds
                           /\ r.token \in Nat
                           /\ sessions[r.sid] \in SessionRow
                           /\ sessions[r.sid].token \in Nat
  BY <1>0 DEF ReportTypeOK, ReportRequest, TypeOK, SessionRow
(* What was admitted and is still presented is still admitted.             *)
<1>5. ASSUME NEW r \in reporting, Presented(r)', r.stage = "decided"
      PROVE  Presented(r) /\ Admitted(r)'
  <2>1. /\ sessions[r.sid].row = "live"
        /\ sessions'[r.sid].token \in {sessions[r.sid].token, sessions[r.sid].token + 1}
        /\ sessions'[r.sid].token = r.token
    BY <1>0, <1>4, <1>5, TokensGrow DEF RateInv, Presented
  <2>2. r.token <= sessions[r.sid].token
    BY <2>1 DEF RateInv
  <2>3. sessions'[r.sid].token = sessions[r.sid].token
    BY <1>4, <2>1, <2>2
  <2>4. Presented(r) /\ Admitted(r)
    BY <1>5, <2>1, <2>3 DEF Presented, RateInv
  <2>5. SparedThin(r.sid)
    <3>1. CASE ReportsThin
      BY <1>4, <3>1, ThinSpares
    <3>2. ASSUME NEW q \in reporting, NEW m \in Reports, ReportCommit(q, m)
          PROVE  SparedThin(r.sid)
      BY <1>0, <1>4, <2>3, <3>2, CommitSpares
    <3> QED
      BY <1>2, <3>1, <3>2
  <2> QED
    BY <1>0, <1>2, <1>4, <2>4, <2>5, ThinKeepsRates
<1>6. ASSUME NEW s \in SessionIds, NEW t \in Nat PROVE WindowHolds(s, t)'
  <2>1. WindowHolds(s, t)
    BY <1>0
  <2>2. CASE SparedThin(s)
    BY <1>0, <1>2, <2>1, <2>2, ThinKeepsRates
  <2>3. ASSUME NEW r \in reporting, NEW m \in Reports, ReportCommit(r, m),
               s = r.sid, r.action \notin Revoking, Presented(r)
        PROVE  WindowHolds(s, t)'
    <3>1. Admitted(r)
      BY <2>3 DEF RateInv, ReportCommit
    <3> QED
      BY <1>0, <2>1, <2>3, <3>1, CommitKeepsWindows
  <2> QED
    BY <1>0, <1>2, <2>2, <2>3, ThinSpares, CommitSpares
<1>7. ASSUME NEW r \in reporting'
      PROVE  /\ sessions'[r.sid].row # "unborn"
             /\ sessions'[r.sid].row = "live" => r.token <= sessions'[r.sid].token
             /\ r.stage = "decided" /\ Presented(r)' => Admitted(r)'
  <2>1. CASE r \in reporting
    <3>1. /\ sessions[r.sid].row # "unborn"
          /\ sessions[r.sid].row = "live" => r.token <= sessions[r.sid].token
      BY <2>1 DEF RateInv
    <3>2. /\ sessions'[r.sid].row # "unborn"
          /\ sessions'[r.sid].row = "live" =>
                /\ sessions[r.sid].row = "live"
                /\ sessions'[r.sid].token
                      \in {sessions[r.sid].token, sessions[r.sid].token + 1}
      BY <1>0, <1>4, <2>1, <3>1, TokensGrow
    <3>3. sessions'[r.sid].row = "live" => r.token <= sessions'[r.sid].token
      BY <1>4, <2>1, <3>1, <3>2
    <3> QED
      BY <1>5, <2>1, <3>2, <3>3
  <2>2. CASE r \notin reporting
    <3>1. Enters(r)
      BY <1>0, <2>2, Entrances
    <3>2. UNCHANGED <<sessions, reports, now>>
      BY <3>1 DEF Enters
    <3>3. r.stage = "decided" => Admitted(r)'
      <4>1. Admitted(r) => Admitted(r)'
        BY <3>2 DEF Admitted, Counted, Spared, KeptReports, IsCritical
      <4> QED
        BY <3>1, <4>1 DEF Enters
    <3>4. CASE sessions[r.sid].row = "live" /\ r.token = sessions[r.sid].token
      <4>1. r.sid \in SessionIds
        BY <1>1 DEF ReportTypeOK, ReportRequest
      <4>2. sessions[r.sid].token \in Nat
        BY <1>0, <4>1 DEF ReportTypeOK, TypeOK, SessionRow
      <4> QED
        BY <3>2, <3>3, <3>4, <4>2
    <3>5. ASSUME NEW q \in reporting, q.sid = r.sid, q.token = r.token
          PROVE  /\ sessions[r.sid].row # "unborn"
                 /\ sessions[r.sid].row = "live" => r.token <= sessions[r.sid].token
      BY <3>5 DEF RateInv
    <3> QED
      BY <3>1, <3>2, <3>3, <3>4, <3>5 DEF Enters
  <2> QED
    BY <2>1, <2>2
<1> QED
  BY <1>1, <1>3, <1>6, <1>7 DEF RateInv

(* Of the reports that let their session live, no minute holds more than   *)
(* the session limit and one critical report: those counted side by side   *)
(* present one token, and the first that is inserted takes it.             *)
THEOREM ReportRatesHold == ReportSpec => []ReportRateHolds
<1>1. ReportInit => RateInv
  <2> SUFFICES ASSUME ReportInit PROVE RateInv
    OBVIOUS
  <2>1. ReportTypeOK
    BY ReportTypeInit
  <2>2. KeptReports = {}
    BY DEF ReportInit, KeptReports, NoReport
  <2>3. IsFiniteSet({}) /\ Cardinality({}) = 0
    BY FS_EmptySet
  <2>4. ASSUME NEW s \in SessionIds, NEW t \in Nat PROVE WindowHolds(s, t)
    <3>1. Window(s, t) = {}
      BY <2>2 DEF Window, Spared
    <3>2. SessionRate \in Nat
      BY ReportConstants
    <3> QED
      BY <2>3, <3>1, <3>2 DEF WindowHolds
  <2> QED
    BY <2>1, <2>2, <2>3, <2>4 DEF RateInv, ReportInit
<1>2. RateInv => ReportRateHolds
  <2> SUFFICES ASSUME RateInv, NEW s \in SessionIds, NEW t \in 1..now
               PROVE  Cardinality({m \in KeptReports :
                          /\ reports[m].sid = s
                          /\ reports[m].action \notin Revoking
                          /\ reports[m].at \in t..(t + RateWindow)}) <= SessionRate + 1
    BY DEF ReportRateHolds
  <2> DEFINE W == Window(s, t)
  <2>1. W = {m \in KeptReports :
                /\ reports[m].sid = s
                /\ reports[m].action \notin Revoking
                /\ reports[m].at \in t..(t + RateWindow)}
    BY DEF Window, Spared
  <2>2. t \in Nat /\ SessionRate \in Nat
    BY ReportConstants DEF RateInv, ReportTypeOK, TypeOK
  <2>3. W \in SUBSET KeptReports /\ IsFiniteSet(KeptReports)
    BY <2>1 DEF RateInv
  <2>4. Cardinality(W) <= SessionRate \/ Cardinality(W) <= SessionRate + 1
    BY <2>2 DEF RateInv, WindowHolds
  <2> HIDE DEF W
  <2>5. Cardinality(W) \in Nat
    BY <2>3, FS_Subset, FS_CardinalityType
  <2>6. Cardinality(W) <= SessionRate + 1
    BY <2>2, <2>4, <2>5
  <2> QED
    BY <2>1, <2>6
<1> QED
  BY <1>1, <1>2, RateStep, PTL DEF ReportSpec

-----------------------------------------------------------------------------
(* Decisions                                                               *)

LEMMA BoundedRank ==
    ASSUME NEW p \in Policy, NEW i \in ReportInput, NEW score
    PROVE  /\ BoundedAction(p, i, score) \in SecurityAction
           /\ \/ Rank[BoundedAction(p, i, score)] <= 1
              \/ Rank[BoundedAction(p, i, score)] <= Rank[p.maxAction]
<1>1. /\ i.asked \in {"record_only", "kick_session", "disable_device", "disable_card"}
      /\ p.maxAction \in SecurityAction
  BY DEF ReportInput, Policy, SecurityAction
<1>2. \A a \in SecurityAction : Rank[a] \in 0..4
  BY DEF SecurityAction, Rank
<1>3. \/ BoundedAction(p, i, score) \in {"record_only", "manual_review"}
      \/ /\ BoundedAction(p, i, score) = i.asked
         /\ ~(Rank[i.asked] > Rank[p.maxAction])
  BY DEF BoundedAction
<1>4. Rank["record_only"] = 0 /\ Rank["manual_review"] = 1
  BY DEF Rank
<1>5. Rank[i.asked] \in 0..4 /\ Rank[p.maxAction] \in 0..4
  BY <1>1, <1>2 DEF SecurityAction
<1>6. i.asked \in SecurityAction
  BY <1>1 DEF SecurityAction
<1>7. {"record_only", "manual_review"} \subseteq SecurityAction
  BY DEF SecurityAction
<1> QED
  BY <1>3, <1>4, <1>5, <1>6, <1>7

(* The target an action falls back to is no stronger than the action.      *)
LEMMA TargetRank ==
    ASSUME NEW r, NEW a \in SecurityAction
    PROVE  /\ Rank[TargetAction(r, a)] <= Rank[a]
           /\ r.type = "count" => TargetAction(r, a) # "disable_device"
<1>1. \/ TargetAction(r, a) = a
      \/ TargetAction(r, a) = "kick_session" /\ a \in {"disable_device", "disable_card"}
  BY DEF TargetAction
<1>2. /\ Rank["kick_session"] = 2
      /\ Rank["disable_device"] = 3
      /\ Rank["disable_card"] = 4
      /\ Rank[a] \in 0..4
  BY DEF Rank, SecurityAction
<1>3. Rank[TargetAction(r, a)] <= Rank[a]
  BY <1>1, <1>2
<1>4. r.type = "count" => TargetAction(r, a) # "disable_device"
  BY DEF TargetAction
<1> QED
  BY <1>3, <1>4

LEMMA DecidesWithinPolicy ==
    ASSUME ReportTypeOK, NEW q \in reporting, NEW r,
           ReportDecide(q), r \in reporting', r \notin reporting
    PROVE  /\ policy.mode = "bounded_client" =>
                 Rank[r.action] <= Larger(Rank[policy.maxAction], 1)
           /\ r.type = "count" => r.action # "disable_device"
<1> DEFINE score == Score(q)
           wanted == PolicyAction(policy, q.input, score)
<1>1. policy \in Policy /\ q \in ReportRequest /\ q.input \in ReportInput
  BY PolicyType, ReportConstants DEF ReportTypeOK, ReportRequest
<1>2. r = [q EXCEPT !.stage = "decided", !.action = TargetAction(q, wanted)]
  BY DEF ReportDecide
<1> HIDE DEF score
<1>3. r.action = TargetAction(q, wanted) /\ r.type = q.type
  <2> HIDE DEF wanted
  <2> QED
    BY <1>1, <1>2 DEF ReportRequest
<1>4. wanted \in SecurityAction
  <2>1. {"kick_session", "record_only"} \subseteq SecurityAction
    BY DEF SecurityAction
  <2>2. BoundedAction(policy, q.input, score) \in SecurityAction
    BY <1>1, BoundedRank
  <2>3. /\ policy.critical \in SecurityAction
        /\ policy.high \in SecurityAction
        /\ policy.medium \in SecurityAction
        /\ policy.low \in SecurityAction
    BY <1>1 DEF Policy
  <2>4. ServerAction(policy, score) \in SecurityAction
    BY <2>1, <2>3 DEF ServerAction
  <2>5. q.input.asked \in SecurityAction
    BY <1>1 DEF ReportInput
  <2> QED
    BY <2>1, <2>2, <2>4, <2>5 DEF PolicyAction
<1>5. ASSUME policy.mode = "bounded_client"
      PROVE  Rank[r.action] <= Larger(Rank[policy.maxAction], 1)
  <2>1. /\ \A a \in SecurityAction : Rank[a] \in 0..4
        /\ Rank["record_only"] = 0
    BY DEF Rank, SecurityAction
  <2>2. wanted \in {"record_only", BoundedAction(policy, q.input, score)}
    BY <1>5 DEF PolicyAction
  <2>3. Rank[wanted] <= 1 \/ Rank[wanted] <= Rank[policy.maxAction]
    BY <1>1, <2>1, <2>2, BoundedRank
  <2> HIDE DEF wanted
  <2>4. Rank[TargetAction(q, wanted)] <= Rank[wanted]
    BY <1>4, TargetRank
  <2>5. Rank[wanted] \in 0..4 /\ Rank[policy.maxAction] \in 0..4
    BY <1>1, <1>4, <2>1 DEF Policy
  <2>6. TargetAction(q, wanted) \in SecurityAction
    BY <1>4 DEF TargetAction, SecurityAction
  <2>7. Rank[TargetAction(q, wanted)] \in 0..4
    BY <2>1, <2>6
  <2>8. Rank[r.action] <= 1 \/ Rank[r.action] <= Rank[policy.maxAction]
    BY <1>3, <2>3, <2>4, <2>5, <2>7
  <2> QED
    BY <1>3, <2>5, <2>7, <2>8 DEF Larger
<1>6. r.type = "count" => r.action # "disable_device"
  <2> HIDE DEF wanted
  <2> QED
    BY <1>3, <1>4, TargetRank
<1> QED
  BY <1>5, <1>6

(* Only ReportDecide puts a decided report in flight.                      *)
LEMMA OnlyDecided ==
    ASSUME ReportTypeOK, [ReportNext]_reportVars, NEW r \in reporting',
           r \notin reporting, r.stage = "decided"
    PROVE  \E q \in reporting : ReportDecide(q)
<1>0. \A q \in reporting : q \in ReportRequest
  BY DEF ReportTypeOK
<1>1. ~(reporting' \subseteq reporting)
  OBVIOUS
<1>2. ASSUME SecurityReport PROVE \E q \in reporting : ReportDecide(q)
  <2>1. ASSUME NEW w, NEW s, NEW n, NEW i, NEW addr, ReportPrepare(w, s, n, i, addr)
        PROVE  FALSE
    <3>1. r.stage = "prepared"
      BY <2>1 DEF ReportPrepare
    <3> QED
      BY <3>1
  <2>2. ASSUME NEW q \in reporting, ReportLookup(q) PROVE FALSE
    <3>1. r = [q EXCEPT !.stage = "duplicate"]
      BY <2>2 DEF ReportLookup
    <3>2. r.stage = "duplicate"
      BY <1>0, <3>1 DEF ReportRequest
    <3> QED
      BY <3>2
  <2>3. ASSUME NEW q \in reporting, NEW m, ReportRotateAgain(q) \/ ReportCommit(q, m)
        PROVE  FALSE
    BY <1>1, <2>3 DEF ReportRotateAgain, ReportCommit
  <2> QED
    BY <1>2, <2>1, <2>2, <2>3 DEF SecurityReport
<1>3. ~ClientAuthStep
  BY <1>1 DEF ClientAuthStep, reportInflight
<1>4. ~MessageCentre
  BY <1>1 DEF MessageCentre, ActRead, ActWrite, MarkMessages, DeleteMessages,
              ClearActivity, reportInflight
<1>5. ASSUME NEW p, SetPolicy(p) \/ Retention \/ ReportDrop \/ UNCHANGED reportVars
      PROVE  FALSE
  BY <1>1, <1>5 DEF SetPolicy, Retention, SweepRead, SweepMessages, SweepReports,
              ReportDrop, reportVars, reportInflight
<1> QED
  BY <1>2, <1>3, <1>4, <1>5 DEF ReportNext

(* Where the policy bounds the client, no decision goes further than its   *)
(* strongest action, whatever was reported and however it scored; and no   *)
(* decision disables a device for a count card.                            *)
THEOREM DecisionsWithinPolicy == ReportSpec => DecisionWithinPolicy
<1>1. ASSUME ReportTypeOK, [ReportNext]_reportVars
      PROVE  \A r \in reporting' \ reporting : r.stage = "decided" =>
                /\ policy.mode = "bounded_client" =>
                      Rank[r.action] <= Larger(Rank[policy.maxAction], 1)
                /\ r.type = "count" => r.action # "disable_device"
  BY <1>1, OnlyDecided, DecidesWithinPolicy
<1> QED
  BY <1>1, ReportTypeCorrect, PTL DEF ReportSpec, DecisionWithinPolicy


-----------------------------------------------------------------------------
(* The client API and the console, with reports beside them                *)

(* The columns of a card, a device and a session that a step which is none *)
(* of ClientAuth may change: reports and dispositions disable cards and    *)
(* devices and end sessions, and a report rotates the token of its own     *)
(* session while that is in force.                                         *)
CardAside(c) ==
    /\ cards'[c].row = cards[c].row
    /\ cards'[c].type = cards[c].type
    /\ cards'[c].usedAt = cards[c].usedAt
    /\ cards'[c].total = cards[c].total
    /\ cards'[c].remaining = cards[c].remaining
    /\ cards'[c].unbindLimit = cards[c].unbindLimit
    /\ cards'[c].unbindCount = cards[c].unbindCount
    /\ cards'[c].status = 2 =>
          IF cards[c].status = 2 THEN disabledAt'[c] = disabledAt[c]
                                 ELSE disabledAt'[c] = now

DeviceAside(d) ==
    /\ devices'[d].row = devices[d].row
    /\ devices'[d].key = devices[d].key
    /\ devices'[d].status = 0 =>
          \/ devices[d].status = 0
          \/ \A s \in SessionIds :
                sessions[s].row = "live" /\ sessions[s].device = d =>
                    sessions'[s].status = 0

SessionRotated(s) ==
    \E r \in reporting :
        /\ r.sid = s
        /\ sessions[s].row = "live"
        /\ sessions[s].status = 1
        /\ sessions'[s].status = 1
        /\ sessions'[s].expires = r.expires
        /\ sessions[s].expires < now => s \in late'

SessionAside(s) ==
    /\ sessions'[s].row = sessions[s].row
    /\ sessions'[s].card = sessions[s].card
    /\ sessions'[s].hash = sessions[s].hash
    /\ sessions'[s].device = sessions[s].device
    /\ \/ /\ sessions'[s].token = sessions[s].token
          /\ sessions'[s].counter = sessions[s].counter
          /\ sessions'[s].expires = sessions[s].expires
          /\ sessions'[s].status \in {sessions[s].status, 0}
       \/ SessionRotated(s)

Aside ==
    /\ UNCHANGED <<app, nonces, now, inflight, granted, fair, accepted>>
    /\ late \subseteq late'
    /\ \A c \in CardIds : CardAside(c)
    /\ \A d \in DeviceIds : DeviceAside(d)
    /\ \A s \in SessionIds : SessionAside(s)

LEMMA StandingCard ==
    ASSUME NEW c, cards'[c] = cards[c], disabledAt'[c] = disabledAt[c]
    PROVE  CardAside(c)
BY DEF CardAside

LEMMA StandingDevice == ASSUME NEW d, devices'[d] = devices[d] PROVE DeviceAside(d)
BY DEF DeviceAside

LEMMA StandingSession == ASSUME NEW s, sessions'[s] = sessions[s] PROVE SessionAside(s)
BY DEF SessionAside

LEMMA EndedSession ==
    ASSUME TypeOK, NEW S, sessions' = Revoked(S), NEW s \in SessionIds
    PROVE  SessionAside(s)
<1>1. sessions[s] \in SessionRow
  BY DEF TypeOK
<1>2. sessions'[s] = [sessions[s] EXCEPT !.status = 0] \/ sessions'[s] = sessions[s]
  BY DEF Revoked
<1> QED
  BY <1>1, <1>2 DEF SessionAside, SessionRow

LEMMA RotatedSessions ==
    ASSUME TypeOK, NEW r \in reporting, r.sid \in SessionIds, RotateSession(r),
           NEW s \in SessionIds
    PROVE  SessionAside(s)
<1>1. CASE s # r.sid
  BY <1>1, StandingSession DEF RotateSession, Rotated, TypeOK
<1>2. CASE s = r.sid
  <2>1. sessions[s] \in SessionRow
    BY DEF TypeOK
  <2>2. /\ sessions'[s].row = sessions[s].row
        /\ sessions'[s].card = sessions[s].card
        /\ sessions'[s].hash = sessions[s].hash
        /\ sessions'[s].device = sessions[s].device
        /\ sessions'[s].status = sessions[s].status
        /\ sessions'[s].expires = r.expires
    BY <1>2, <2>1 DEF RotateSession, Rotated, TypeOK, SessionRow
  <2>3. sessions[s].status = 1 /\ sessions[s].row = "live"
    BY <1>2 DEF RotateSession, StillCurrent, LiveSessions
  <2>4. sessions[s].expires < now => s \in late'
    BY <1>2 DEF RotateSession
  <2>5. SessionRotated(s)
    BY <1>2, <2>2, <2>3, <2>4 DEF SessionRotated
  <2> QED
    BY <2>2, <2>5 DEF SessionAside
<1> QED
  BY <1>1, <1>2

(* What a disposition does to one card and to one device.                  *)
LEMMA DisposedCard ==
    ASSUME TypeOK, NEW action, NEW s, NEW d, NEW c0, NEW h,
           Dispose(action, s, d, c0, h), NEW c \in CardIds
    PROVE  CardAside(c)
<1>1. cards[c] \in CardRow
  BY DEF TypeOK
<1> DEFINE off == c \in DisabledCard(action, c0)
<1>2. /\ cards'[c] = IF off THEN [cards[c] EXCEPT !.status = 2] ELSE cards[c]
      /\ disabledAt'[c] = IF off /\ cards[c].status # 2 THEN now ELSE disabledAt[c]
  BY DEF Dispose
<1> HIDE DEF off
<1>3. CASE off
  BY <1>1, <1>2, <1>3 DEF CardAside, CardRow
<1>4. CASE ~off
  BY <1>2, <1>4, StandingCard
<1> QED
  BY <1>3, <1>4

LEMMA DisposedDevice ==
    ASSUME TypeOK, NEW action, NEW s, NEW d0, NEW c, NEW h,
           Dispose(action, s, d0, c, h), sessions' = SessionsAfter(action, s, d0, c, h),
           NEW d \in DeviceIds
    PROVE  DeviceAside(d)
<1>1. devices[d] \in DeviceRow
  BY DEF TypeOK
<1>2. CASE action = "disable_device" /\ d = d0 /\ d \in LiveDevices
  <2>1. devices'[d] = [devices[d] EXCEPT !.status = 0]
    BY <1>2 DEF Dispose, DevicesWithStatus
  <2>2. sessions' = Revoked(SessionsOn({d}))
    BY <1>2 DEF SessionsAfter
  <2>3. \A x \in SessionIds :
            sessions[x].row = "live" /\ sessions[x].device = d => sessions'[x].status = 0
    BY <2>2 DEF Revoked, SessionsOn, LiveSessions, TypeOK, SessionRow
  <2> QED
    BY <1>1, <2>1, <2>3 DEF DeviceAside, DeviceRow
<1>3. CASE ~(action = "disable_device" /\ d = d0 /\ d \in LiveDevices)
  <2>1. devices'[d] = devices[d]
    BY <1>3 DEF Dispose, DevicesWithStatus
  <2> QED
    BY <2>1, StandingDevice
<1> QED
  BY <1>2, <1>3

LEMMA EndedSessions ==
    ASSUME TypeOK, NEW action, NEW s0, NEW d, NEW c, NEW h,
           sessions' = SessionsAfter(action, s0, d, c, h), NEW s \in SessionIds
    PROVE  SessionAside(s)
<1>1. CASE sessions' = sessions
  BY <1>1, StandingSession
<1>2. ASSUME NEW S, sessions' = Revoked(S) PROVE SessionAside(s)
  BY <1>2, EndedSession
<1> QED
  BY <1>1, <1>2, SessionsAfterRevoke

(* Every step is one of ClientAuth, or one aside.                          *)
LEMMA ClientOrAside ==
    ASSUME ReportTypeOK, [ReportNext]_reportVars
    PROVE  [Next]_vars \/ Aside
<1>0. TypeOK /\ reporting \subseteq ReportRequest
  BY DEF ReportTypeOK
<1>1. ASSUME NEW action, NEW s, NEW d, NEW c, NEW h, Dispose(action, s, d, c, h),
             sessions' = SessionsAfter(action, s, d, c, h), late' = late,
             UNCHANGED <<app, nonces, now, inflight, granted, fair, accepted>>
      PROVE  Aside
  BY <1>0, <1>1, DisposedCard, DisposedDevice, EndedSessions DEF Aside
<1>2. ASSUME NEW r \in reporting, RotateSession(r), UNCHANGED <<app, nonces, now>>,
             UNCHANGED <<inflight, granted, fair, accepted>>,
             \A c \in CardIds : CardAside(c), devices' = devices
      PROVE  Aside
  <2>1. r.sid \in SessionIds
    BY <1>0 DEF ReportRequest
  <2>2. late \subseteq late'
    BY <1>2 DEF RotateSession
  <2> QED
    BY <1>0, <1>2, <2>1, <2>2, RotatedSessions, StandingDevice DEF Aside
<1>3. CASE ClientAuthStep
  BY <1>3 DEF ClientAuthStep
<1>4. CASE SecurityReport
  <2>1. ASSUME NEW w, NEW s, NEW n, NEW i, NEW addr, ReportPrepare(w, s, n, i, addr)
        PROVE  UNCHANGED vars
    BY <2>1 DEF ReportPrepare
  <2>2. ASSUME NEW r, ReportLookup(r) \/ ReportDecide(r)
        PROVE  UNCHANGED vars
    BY <2>2 DEF ReportLookup, ReportDecide
  <2>3. ASSUME NEW r \in reporting, ReportRotateAgain(r) PROVE Aside
    BY <1>2, <2>3, StandingCard DEF ReportRotateAgain
  <2>4. ASSUME NEW r \in reporting, NEW m, ReportCommit(r, m) PROVE Aside
    <3>1. /\ Dispose(r.action, r.sid, r.device, r.card, r.hash)
          /\ UNCHANGED <<app, nonces, now, inflight, granted, fair, accepted>>
      BY <2>4 DEF ReportCommit
    <3>2. CASE /\ sessions' = SessionsAfter(r.action, r.sid, r.device, r.card, r.hash)
               /\ late' = late
      BY <1>1, <3>1, <3>2
    <3>3. CASE RotateSession(r) /\ r.action \notin Revoking
      <4>1. devices' = devices
        BY <3>1, <3>3 DEF Dispose, Revoking
      <4>2. \A c \in CardIds : CardAside(c)
        BY <1>0, <3>1, DisposedCard
      <4> QED
        BY <1>2, <3>1, <3>3, <4>1, <4>2
    <3> QED
      BY <2>4, <3>2, <3>3 DEF ReportCommit
  <2> QED
    BY <1>4, <2>1, <2>2, <2>3, <2>4 DEF SecurityReport
<1>5. CASE MessageCentre
  <2>1. ASSUME NEW w, NEW m, NEW action, NEW S, NEW status,
               \/ ActRead(w, m, action) \/ MarkMessages(S, status)
               \/ DeleteMessages(S) \/ ClearActivity
        PROVE  UNCHANGED vars
    BY <2>1 DEF ActRead, MarkMessages, DeleteMessages, ClearActivity
  <2>2. ASSUME NEW r, ActWrite(r) PROVE Aside
    BY <1>1, <2>2 DEF ActWrite
  <2> QED
    BY <1>5, <2>1, <2>2 DEF MessageCentre
<1>6. ASSUME NEW p, SetPolicy(p) \/ Retention \/ ReportDrop \/ UNCHANGED reportVars
      PROVE  UNCHANGED vars
  BY <1>6 DEF SetPolicy, Retention, SweepRead, SweepMessages, SweepReports,
              ReportDrop, reportVars
<1> QED
  BY <1>3, <1>4, <1>5, <1>6 DEF ReportNext

LEMMA AsideStaysSingle ==
    ASSUME ReportTypeOK, SingleLogin, Aside
    PROVE  SingleLogin'
<1> SUFFICES ASSUME AlwaysSingle PROVE SingleLogin'
  BY DEF SingleLogin, AlwaysSingle
<1>1. ASSUME NEW s \in SessionIds, Active(s)'
      PROVE  Kept(s) \/ s \in late'
  <2>1. SessionAside(s) /\ now' = now
    BY DEF Aside
  <2>2. sessions[s].expires \in Nat /\ now \in Nat
    BY DEF ReportTypeOK, TypeOK, SessionRow
  <2>3. sessions'[s].row = "live" /\ sessions'[s].status = 1 /\ sessions'[s].expires >= now
    BY <1>1, <2>1 DEF Active, LiveSessions
  <2>4. CASE SessionRotated(s)
    BY <2>1, <2>2, <2>4 DEF SessionRotated, SessionAside, Kept, Active, LiveSessions
  <2>5. CASE ~SessionRotated(s)
    <3>1. /\ sessions[s].row = "live" /\ sessions[s].status = 1
          /\ sessions[s].expires >= now
          /\ sessions'[s].hash = sessions[s].hash
          /\ sessions'[s].device = sessions[s].device
      BY <2>1, <2>3, <2>5 DEF SessionAside
    <3> QED
      BY <3>1 DEF Kept, Active, LiveSessions
  <2> QED
    BY <2>4, <2>5
<1> QED
  BY <1>1, NoneAddedStaysSingle DEF Aside

(* Reports rotate tokens and end sessions and so keep single login: with   *)
(* them, too, two devices use one card only through a late rotation.       *)
THEOREM ReportsKeepSingleLogin == ReportSpec => []SingleLogin
<1>1. ReportInit => SingleLogin
  BY DEF ReportInit, Init, SingleLogin, SharedBy, Active, LiveSessions, NoSession
<1>2. ReportTypeOK /\ SingleLogin /\ [ReportNext]_reportVars => SingleLogin'
  BY ClientOrAside, AsideStaysSingle, SingleLoginStep DEF ReportTypeOK
<1> QED
  BY <1>1, <1>2, ReportTypeCorrect, PTL DEF ReportSpec

(* A report that was counted and judged before its session was revoked     *)
(* writes nothing to its row afterwards, and a disposition only ends it.   *)
THEOREM ReportsReviveNothing == ReportSpec => RevokedForever
<1> DEFINE Final ==
      \A s \in LiveSessions :
          (sessions[s].status = 0 /\ sessions'[s].row = "live") =>
              /\ sessions'[s].status = 0
              /\ sessions'[s].token = sessions[s].token
              /\ sessions'[s].counter = sessions[s].counter
              /\ sessions'[s].expires = sessions[s].expires
<1>1. TypeOK /\ [Next]_vars => Final
  BY RevokedStaysRevoked
<1>2. Aside => Final
  <2> SUFFICES ASSUME Aside, NEW s \in LiveSessions, sessions[s].status = 0
               PROVE  /\ sessions'[s].status = 0
                      /\ sessions'[s].token = sessions[s].token
                      /\ sessions'[s].counter = sessions[s].counter
                      /\ sessions'[s].expires = sessions[s].expires
    OBVIOUS
  <2>1. SessionAside(s)
    BY DEF Aside, LiveSessions
  <2>2. ~SessionRotated(s)
    BY DEF SessionRotated
  <2> QED
    BY <2>1, <2>2 DEF SessionAside
<1>3. ReportTypeOK /\ [ReportNext]_reportVars => Final
  BY <1>1, <1>2, ClientOrAside DEF ReportTypeOK
<1> QED
  BY <1>3, ReportTypeCorrect, PTL DEF ReportSpec, RevokedForever

(* With reports and dispositions added a count card never grants more      *)
(* logins than it was filled with.                                         *)
THEOREM ReportsConserveCounts == ReportSpec => []CountConserved
<1>1. ReportInit => CountInv
  BY DEF ReportInit, Init, CountInv, CountConserved, LiveCards, NoCard
<1>2. CountInv => CountConserved
  BY DEF CountInv
<1>3. ASSUME CountInv, Aside PROVE CountInv'
  <2>1. \A c \in CardIds :
            /\ cards'[c].row = cards[c].row
            /\ cards'[c].type = cards[c].type
            /\ cards'[c].total = cards[c].total
            /\ cards'[c].remaining = cards[c].remaining
            /\ granted'[c] = granted[c]
    BY <1>3 DEF Aside, CardAside
  <2> QED
    BY <1>3, <2>1 DEF CountInv, CountConserved, LiveCards
<1>4. ReportTypeOK /\ CountInv /\ [ReportNext]_reportVars => CountInv'
  BY <1>3, CountStep, ClientOrAside DEF ReportTypeOK
<1> QED
  BY <1>1, <1>2, <1>4, ReportTypeCorrect, PTL DEF ReportSpec

(* Nor does it touch the unbinds of a card: none goes over the limit, and  *)
(* none is charged without the device it removes.                          *)
THEOREM ReportsKeepUnbinds ==
    ReportSpec => []UnbindWithinLimit /\ UnbindPaysForDevice
<1> DEFINE Paid ==
      \A c \in LiveCards :
          (/\ cards'[c].row = "live"
           /\ cards'[c].unbindCount # cards[c].unbindCount) =>
              /\ cards'[c].unbindCount = cards[c].unbindCount + 1
              /\ \E d \in LiveDevices, r \in unbinds :
                    /\ devices'[d].row = "deleted"
                    /\ r \notin unbinds'
                    /\ devices[d].inst = r.inst
                    /\ devices[d].key = r.key
<1>1. ReportInit => UnbindWithinLimit
  BY DEF ReportInit, Init, UnbindWithinLimit, LiveCards, NoCard
<1>2. ASSUME Aside
      PROVE  \A c \in CardIds :
                /\ cards'[c].row = cards[c].row
                /\ cards'[c].unbindLimit = cards[c].unbindLimit
                /\ cards'[c].unbindCount = cards[c].unbindCount
  BY <1>2 DEF Aside, CardAside
<1>3. UnbindWithinLimit /\ Aside => UnbindWithinLimit'
  BY <1>2 DEF UnbindWithinLimit, LiveCards
<1>4. Aside => Paid
  BY <1>2 DEF LiveCards
<1>5. TypeOK /\ [Next]_vars => Paid
  BY UnbindPaid
<1>6. ReportTypeOK /\ UnbindWithinLimit /\ [ReportNext]_reportVars => UnbindWithinLimit'
  BY <1>3, UnbindStep, ClientOrAside DEF ReportTypeOK
<1>7. ReportTypeOK /\ [ReportNext]_reportVars => Paid
  BY <1>4, <1>5, ClientOrAside DEF ReportTypeOK
<1> QED
  BY <1>1, <1>6, <1>7, ReportTypeCorrect, PTL DEF ReportSpec, UnbindPaysForDevice

(* Reports take part in no login: a challenge authorises one while it is   *)
(* valid.                                                                  *)
THEOREM ReportsKeepChallenges == ReportSpec => ChallengeOncePerLife
<1> DEFINE Once ==
      \A ch \in Challenges :
          (ch.id # None /\ now <= ch.expires /\ accepted'[ch] # accepted[ch])
              => accepted[ch] = 0
<1>1. ReportInit => Reserved
  BY DEF ReportInit, Init, Reserved
<1>2. Reserved /\ Aside => Reserved'
  BY DEF Reserved, Aside
<1>3. Aside => Once
  BY DEF Aside
<1>4. TypeOK /\ Reserved /\ [Next]_vars => Once
  BY ReservedAcceptsOnce
<1>5. ReportTypeOK /\ Reserved /\ [ReportNext]_reportVars => Reserved'
  BY <1>2, ReservedStep, ClientOrAside DEF ReportTypeOK
<1>6. ReportTypeOK /\ Reserved /\ [ReportNext]_reportVars => Once
  BY <1>3, <1>4, ClientOrAside DEF ReportTypeOK
<1> QED
  BY <1>1, <1>5, <1>6, ReportTypeCorrect, PTL DEF ReportSpec, ChallengeOncePerLife

(* Disabling a device leaves its key, so that it cannot be registered with *)
(* another one to get round the disposition.                               *)
THEOREM ReportsKeepKeys == ReportSpec => KeySticky
<1> DEFINE Sticks ==
      \A d \in LiveDevices :
          (devices[d].key # None /\ devices'[d].row = "live") =>
              devices'[d].key = devices[d].key
<1>1. TypeOK /\ [Next]_vars => Sticks
  BY KeyStays
<1>2. Aside => Sticks
  BY DEF Aside, DeviceAside, LiveDevices
<1>3. ReportTypeOK /\ [ReportNext]_reportVars => Sticks
  BY <1>1, <1>2, ClientOrAside DEF ReportTypeOK
<1> QED
  BY <1>3, ReportTypeCorrect, PTL DEF ReportSpec, KeySticky

(* A card that was reset has no session left to use, also when one of its  *)
(* sessions was reporting at the time.                                     *)
THEOREM ReportsKeepResets == ReportSpec => []UnusedCardHasNoSession
<1>1. ReportInit => UnusedInv
  BY DEF ReportInit, Init, UnusedInv, SessionsNameCards, UnusedCardHasNoSession,
         LiveCards, LiveSessions, NoCard, NoSession
<1>2. UnusedInv => UnusedCardHasNoSession
  BY DEF UnusedInv
<1>3. ASSUME ReportTypeOK, UnusedInv, Aside PROVE UnusedInv'
  <2>1. \A c \in CardIds : cards'[c].row = cards[c].row /\ cards'[c].usedAt = cards[c].usedAt
    BY <1>3 DEF Aside, CardAside
  <2>2. \A s \in SessionIds : /\ sessions'[s].row = sessions[s].row
                              /\ sessions'[s].card = sessions[s].card
    BY <1>3 DEF Aside, SessionAside
  <2>3. ASSUME NEW s \in SessionIds, sessions[s].status = 0 PROVE sessions'[s].status = 0
    BY <1>3, <2>3 DEF Aside, SessionAside, SessionRotated
  <2>4. \A s \in SessionIds : sessions[s].card \in CardIds \cup {None}
    BY <1>3 DEF ReportTypeOK, TypeOK, SessionRow
  <2>5. SessionsNameCards'
    BY <1>3, <2>1, <2>2, <2>4 DEF UnusedInv, SessionsNameCards
  <2>6. UnusedCardHasNoSession'
    BY <1>3, <2>1, <2>2, <2>3
       DEF UnusedInv, UnusedCardHasNoSession, LiveCards, LiveSessions
  <2>7. now' = now /\ logins' = logins
    BY <1>3 DEF Aside, inflight
  <2> QED
    BY <1>3, <2>5, <2>6, <2>7 DEF UnusedInv
<1>4. ReportTypeOK /\ UnusedInv /\ [ReportNext]_reportVars => UnusedInv'
  BY <1>3, UnusedStep, ClientOrAside DEF ReportTypeOK
<1> QED
  BY <1>1, <1>2, <1>4, ReportTypeCorrect, PTL DEF ReportSpec

(* A device that a disposition disables loses its sessions in the same     *)
(* transaction: there are no two statements between which one could slip.  *)
THEOREM ReportsKeepDevicesQuiet ==
    ASSUME "drop" \notin Ops
    PROVE  ReportSpec => []DisabledDeviceIsQuiet
<1>1. ReportInit => DisabledDeviceIsQuiet
  BY DEF ReportInit, Init, DisabledDeviceIsQuiet, LiveDevices, NoDevice
<1>2. ASSUME ReportTypeOK, DisabledDeviceIsQuiet, Aside PROVE DisabledDeviceIsQuiet'
  <2> SUFFICES ASSUME NEW d \in DeviceIds, devices'[d].row = "live",
                      devices'[d].status = 0, ~\E r \in revokes' : r.device = d,
                      NEW s \in SessionIds, sessions'[s].row = "live",
                      sessions'[s].device = d
               PROVE  sessions'[s].status = 0
    BY DEF DisabledDeviceIsQuiet, LiveDevices, LiveSessions
  <2>1. DeviceAside(d) /\ SessionAside(s) /\ revokes' = revokes
    BY <1>2 DEF Aside, inflight
  <2>2. /\ devices[d].row = "live"
        /\ sessions[s].row = "live" /\ sessions[s].device = d
    BY <2>1 DEF DeviceAside, SessionAside
  <2>3. CASE devices[d].status = 0
    <3>1. sessions[s].status = 0
      BY <1>2, <2>1, <2>2, <2>3 DEF DisabledDeviceIsQuiet, LiveDevices, LiveSessions
    <3> QED
      BY <2>1, <3>1 DEF SessionAside, SessionRotated
  <2>4. CASE devices[d].status # 0
    BY <2>1, <2>2, <2>4 DEF DeviceAside
  <2> QED
    BY <2>3, <2>4
<1>3. ReportTypeOK /\ DisabledDeviceIsQuiet /\ [ReportNext]_reportVars
        => DisabledDeviceIsQuiet'
  BY <1>2, QuietStep, ClientOrAside DEF ReportTypeOK
<1> QED
  BY <1>1, <1>3, ReportTypeCorrect, PTL DEF ReportSpec
-----------------------------------------------------------------------------
(* Disabled cards, with reports in flight                                  *)

(* A report, too, carries to its rotation what was read at its start: at   *)
(* most one session TTL from now, and no more than one session TTL from    *)
(* the moment the card of its session was disabled.                        *)
ReportHorizon == \A r \in reporting : r.expires <= now + SessionTTL

ReportsDrain ==
    \A r \in reporting, c \in LiveCards :
        cards[c].status = 2 /\ sessions[r.sid].card = c =>
            r.expires <= disabledAt[c] + SessionTTL

ReportDrainInv == DrainInv /\ ReportHorizon /\ ReportsDrain

(* A report whose card is in force now.                                    *)
JustChecked(r) ==
    /\ CardAllowsUntil(r.sid) # 0
    /\ r.expires = Smaller(now + SessionTTL, CardAllowsUntil(r.sid))

(* Whatever a report goes through, it keeps the expiry it was given.       *)
LEMMA ReportsArrive ==
    ASSUME ReportTypeOK, [ReportNext]_reportVars, NEW r \in reporting'
    PROVE  \/ \E q \in reporting : r.sid = q.sid /\ r.expires = q.expires
           \/ JustChecked(r) /\ UNCHANGED vars
<1>1. ASSUME reporting' \subseteq reporting PROVE r \in reporting
  BY <1>1
<1>2. ASSUME NEW p, \/ ClientAuthStep \/ Retention \/ ReportDrop \/ MessageCentre
                    \/ SetPolicy(p) \/ UNCHANGED reportVars
      PROVE  reporting' \subseteq reporting
  BY <1>2 DEF ClientAuthStep, Retention, SweepRead, SweepMessages, SweepReports,
              ReportDrop, MessageCentre, ActRead, ActWrite, MarkMessages,
              DeleteMessages, ClearActivity, SetPolicy, reportVars, reportInflight
<1>3. CASE SecurityReport
  <2>1. ASSUME NEW w, NEW s \in SessionIds, NEW n, NEW i, NEW addr,
               ReportPrepare(w, s, n, i, addr)
        PROVE  r \in reporting \/ (JustChecked(r) /\ UNCHANGED vars)
    BY <2>1 DEF ReportPrepare, JustChecked
  <2>2. ASSUME NEW q \in reporting, ReportLookup(q) \/ ReportDecide(q)
        PROVE  r \in reporting \/ (r.sid = q.sid /\ r.expires = q.expires)
    <3>1. q \in ReportRequest
      BY DEF ReportTypeOK
    <3>2. CASE ReportLookup(q)
      <4>1. r \in reporting \/ r = [q EXCEPT !.stage = "duplicate"]
        BY <3>2 DEF ReportLookup
      <4> QED
        BY <3>1, <4>1 DEF ReportRequest
    <3>3. CASE ReportDecide(q)
      <4>1. r \in reporting
            \/ \E a : r = [q EXCEPT !.stage = "decided", !.action = a]
        BY <3>3 DEF ReportDecide
      <4> QED
        BY <3>1, <4>1 DEF ReportRequest
    <3> QED
      BY <2>2, <3>2, <3>3
  <2>3. ASSUME NEW q, NEW m, ReportRotateAgain(q) \/ ReportCommit(q, m)
        PROVE  reporting' \subseteq reporting
    BY <2>3 DEF ReportRotateAgain, ReportCommit
  <2> QED
    BY <1>1, <1>3, <2>1, <2>2, <2>3 DEF SecurityReport
<1> QED
  BY <1>1, <1>2, <1>3 DEF ReportNext

(* Time passes in a step of ClientAuth only, and only forward.             *)
LEMMA ReportHorizonStep ==
    ASSUME ReportTypeOK, ReportHorizon, [ReportNext]_reportVars
    PROVE  ReportHorizon'
<1>0. TypeOK /\ now \in Nat /\ SessionTTL \in Nat
  BY Bounds DEF ReportTypeOK, TypeOK
<1>1. now' \in {now, now + 1}
  <2>1. CASE Aside
    BY <2>1 DEF Aside
  <2>2. CASE [Next]_vars
    BY <2>2, Arrivals DEF Arrives
  <2> QED
    BY <2>1, <2>2, ClientOrAside
<1>2. ASSUME NEW r \in reporting' PROVE r.expires <= now' + SessionTTL
  <2>1. CASE \E q \in reporting : r.sid = q.sid /\ r.expires = q.expires
    <3>1. PICK q \in reporting : r.expires = q.expires
      BY <2>1
    <3>2. q.expires \in Nat
      BY DEF ReportTypeOK, ReportRequest
    <3>3. q.expires <= now + SessionTTL
      BY DEF ReportHorizon
    <3> QED
      BY <1>0, <1>1, <3>1, <3>2, <3>3
  <2>2. CASE JustChecked(r)
    <3>1. r.sid \in SessionIds
      BY ReportTypeStep DEF ReportTypeOK, ReportRequest
    <3>2. CardAllowsUntil(r.sid) \in Nat
      BY <1>0, <3>1, CardAllowsType
    <3> QED
      BY <1>0, <1>1, <2>2, <3>2 DEF JustChecked, Smaller
  <2> QED
    BY <1>2, <2>1, <2>2, ReportsArrive
<1> QED
  BY <1>2 DEF ReportHorizon
(* A card that is disabled after the step is either newly disabled, in a   *)
(* step that takes no time, or was disabled all along; and a session names *)
(* the card that it named before.                                          *)
LEMMA DisabledAlongside ==
    ASSUME ReportTypeOK, [ReportNext]_reportVars, NEW c \in CardIds,
           cards'[c].row = "live", cards'[c].status = 2
    PROVE  /\ \/ /\ c \in LiveCards /\ cards[c].status = 2
                 /\ disabledAt'[c] = disabledAt[c]
              \/ disabledAt'[c] = now /\ now' = now
           /\ \A s \in SessionIds : sessions'[s].card = c => sessions[s].card = c
<1>0. TypeOK
  BY DEF ReportTypeOK
<1>1. CASE [Next]_vars
  BY <1>0, <1>1, Disabling, SameCard
<1>2. CASE Aside
  <2>1. CardAside(c) /\ now' = now
    BY <1>2 DEF Aside
  <2>2. \A s \in SessionIds : sessions'[s].card = sessions[s].card
    BY <1>2 DEF Aside, SessionAside
  <2> QED
    BY <2>1, <2>2 DEF CardAside, LiveCards
<1> QED
  BY <1>1, <1>2, ClientOrAside

LEMMA ReportsDrainStep ==
    ASSUME ReportTypeOK, ReportDrainInv, [ReportNext]_reportVars, ReportHorizon'
    PROVE  ReportsDrain'
<1>0. reporting' \subseteq ReportRequest
  BY ReportTypeStep DEF ReportTypeOK
<1>1. ASSUME NEW r \in reporting', NEW c \in CardIds, cards'[c].row = "live",
             cards'[c].status = 2, sessions'[r.sid].card = c
      PROVE  r.expires <= disabledAt'[c] + SessionTTL
  <2>1. CASE disabledAt'[c] = now /\ now' = now
    <3>1. r.expires <= now' + SessionTTL
      BY DEF ReportHorizon
    <3> QED
      BY <2>1, <3>1
  <2>2. CASE c \in LiveCards /\ cards[c].status = 2 /\ disabledAt'[c] = disabledAt[c]
    <3>1. sessions[r.sid].card = c
      BY <1>0, <1>1, DisabledAlongside DEF ReportRequest
    <3>2. CASE \E q \in reporting : r.sid = q.sid /\ r.expires = q.expires
      <4>1. PICK q \in reporting : r.sid = q.sid /\ r.expires = q.expires
        BY <3>2
      <4>2. q.expires <= disabledAt[c] + SessionTTL
        BY <2>2, <3>1, <4>1 DEF ReportDrainInv, ReportsDrain
      <4> QED
        BY <2>2, <4>1, <4>2
    <3>3. ~JustChecked(r)
      BY <2>2, <3>1, NoneIsNothing DEF JustChecked, CardAllowsUntil, CardInForce
    <3> QED
      BY <1>1, <3>2, <3>3, ReportsArrive
  <2> QED
    BY <1>1, <2>1, <2>2, DisabledAlongside
<1> QED
  BY <1>1 DEF ReportsDrain, LiveCards

(* A report rotates its session to an expiry within both bounds.           *)
LEMMA DrainAside ==
    ASSUME ReportTypeOK, ReportDrainInv, [ReportNext]_reportVars, Aside
    PROVE  DrainInv'
<1>0. now' = now /\ now \in Nat /\ SessionTTL \in Nat
  BY Bounds DEF Aside, ReportTypeOK, TypeOK
<1>1. ASSUME NEW s \in SessionIds
      PROVE  \/ sessions'[s].expires = sessions[s].expires
             \/ \E r \in reporting :
                    r.sid = s /\ sessions'[s].expires = r.expires
  <2>1. SessionAside(s)
    BY DEF Aside
  <2> QED
    BY <2>1 DEF SessionAside, SessionRotated
<1>2. \A s \in SessionIds :
          sessions'[s].row = sessions[s].row /\ sessions'[s].card = sessions[s].card
  BY DEF Aside, SessionAside
<1>3. logins' = logins /\ calls' = calls
  BY DEF Aside, inflight
<1>4. ASSUME NEW s \in SessionIds, sessions'[s].row = "live"
      PROVE  sessions'[s].expires <= now + SessionTTL
  BY <1>1, <1>2, <1>4 DEF ReportDrainInv, DrainInv, Horizon, ReportHorizon
<1>5. Horizon'
  BY <1>0, <1>3, <1>4 DEF ReportDrainInv, DrainInv, Horizon
<1>6. calls \subseteq SessionCall
  BY DEF ReportTypeOK, TypeOK
<1>7. ASSUME NEW c \in CardIds, cards'[c].row = "live", cards'[c].status = 2,
             NEW s \in SessionIds, sessions'[s].card = c
      PROVE  /\ \A r \in calls : r.sid = s => r.expires <= disabledAt'[c] + SessionTTL
             /\ sessions'[s].row = "live" =>
                    sessions'[s].expires <= disabledAt'[c] + SessionTTL
  <2>1. CASE disabledAt'[c] = now
    BY <1>4, <2>1 DEF ReportDrainInv, DrainInv, Horizon
  <2>2. CASE c \in LiveCards /\ cards[c].status = 2 /\ disabledAt'[c] = disabledAt[c]
    <3>1. sessions[s].card = c
      BY <1>2, <1>7
    <3>2. \A r \in calls : r.sid = s => r.expires <= disabledAt[c] + SessionTTL
      BY <2>2, <3>1 DEF ReportDrainInv, DrainInv, CallsDrain
    <3>3. \A r \in reporting : r.sid = s => r.expires <= disabledAt[c] + SessionTTL
      BY <2>2, <3>1 DEF ReportDrainInv, ReportsDrain
    <3>4. sessions[s].row = "live" => sessions[s].expires <= disabledAt[c] + SessionTTL
      BY <2>2, <3>1 DEF ReportDrainInv, DrainInv, DisabledCardDrains, LiveSessions
    <3> QED
      BY <1>1, <1>2, <2>2, <3>2, <3>3, <3>4
  <2> QED
    BY <1>7, <2>1, <2>2, DisabledAlongside
<1>8. CallsDrain'
  BY <1>3, <1>6, <1>7 DEF CallsDrain, LiveCards, SessionCall
<1>9. DisabledCardDrains'
  BY <1>7 DEF DisabledCardDrains, LiveCards, LiveSessions
<1> QED
  BY <1>5, <1>8, <1>9 DEF DrainInv

(* The rotation of a report that was in flight lets a disabled card run    *)
(* out no later than a heartbeat would.                                    *)
THEOREM ReportsDrainCards == ReportSpec => []DisabledCardDrains
<1>1. ReportInit => ReportDrainInv
  BY DEF ReportInit, Init, ReportDrainInv, DrainInv, Horizon, CallsDrain,
         DisabledCardDrains, ReportHorizon, ReportsDrain, LiveCards, LiveSessions,
         NoCard, NoSession
<1>2. ReportDrainInv => DisabledCardDrains
  BY DEF ReportDrainInv, DrainInv
<1>3. ASSUME ReportTypeOK, ReportDrainInv, [ReportNext]_reportVars
      PROVE  ReportDrainInv'
  <2>1. ReportHorizon'
    BY <1>3, ReportHorizonStep DEF ReportDrainInv
  <2>2. ReportsDrain'
    BY <1>3, <2>1, ReportsDrainStep
  <2>3. DrainInv'
    BY <1>3, ClientOrAside, DrainAside, DrainStep DEF ReportDrainInv, ReportTypeOK
  <2> QED
    BY <2>1, <2>2, <2>3 DEF ReportDrainInv
<1> QED
  BY <1>1, <1>2, <1>3, ReportTypeCorrect, PTL DEF ReportSpec
=============================================================================
