-------------------------- MODULE SecurityReports --------------------------
(***************************************************************************)
(* Security reports of clients, the policy that decides what is done about *)
(* them, and the message centre in which an operator decides again: the    *)
(* security_report handler (src/src/service/client.rs), the message and    *)
(* policy handlers (src/src/service/admin.rs) and their transactions       *)
(* (src/src/repository/mod.rs), on top of the tables of ClientAuth.        *)
(*                                                                         *)
(* A report passes the session checks, is looked up, counted and judged    *)
(* with several reads (ReportLookup, ReportDecide), and is applied in one  *)
(* transaction (ReportCommit).  An operator's disposition reads the        *)
(* message (ActRead) and is applied in another (ActWrite).  The retention  *)
(* cleanup selects rows (SweepRead) and deletes them by id, messages first *)
(* (SweepMessages, SweepReports).                                          *)
(*                                                                         *)
(* The message of a report is inserted with it and gets its id, and rows   *)
(* of message actions and of the audit log are left out.                   *)
(***************************************************************************)
EXTENDS ClientAuth

CONSTANTS
    Reports,        \* ids of auth_security_reports and of their messages
    Events,         \* event ids clients choose
    Addresses,      \* client addresses
    Inputs,         \* what clients may report
    Policies,       \* the policies an operator may set
    SessionRate,    \* SECURITY_SESSION_RATE_LIMIT
    CardRate,       \* SECURITY_CARD_RATE_LIMIT
    DeviceRate,     \* SECURITY_DEVICE_RATE_LIMIT
    AddressRate,    \* SECURITY_IP_RATE_LIMIT
    RateWindow,     \* the 60 seconds of assert_security_report_rate_limit
    CriticalWindow, \* SECURITY_CRITICAL_FALLBACK_SECONDS
    ScoreWindow,    \* the 600 seconds of security_risk_score
    HandledDays     \* the 365 days of handled_security_message_cleanup_ids

SecurityAction == {"record_only", "manual_review", "kick_session",
                   "disable_device", "disable_card"}

(* security_action_revokes_session *)
Revoking == {"kick_session", "disable_device", "disable_card"}

RiskLevel == {"low", "medium", "high", "critical"}

(* security_event_base_score and security_risk_level_score                 *)
EventScore ==
    [debugger_detected |-> 70, tracer_detected |-> 75, hook_detected |-> 85,
     instrumentation_detected |-> 90, module_tampered |-> 90,
     signature_mismatch |-> 95, attestation_failed |-> 95,
     emulator_detected |-> 55, root_detected |-> 60, policy_violation |-> 65]

RiskScore == [low |-> 20, medium |-> 50, high |-> 75, critical |-> 90]

(* security_action_rank *)
Rank == [record_only |-> 0, manual_review |-> 1, kick_session |-> 2,
         disable_device |-> 3, disable_card |-> 4]

(* security_report_input.  A client may not ask for a manual review; failed *)
(* is the verdict attestation_failed finds in evidence and attestation.     *)
ReportInput ==
    [event : Events, type : DOMAIN EventScore, risk : RiskLevel,
     confidence : 0..100, asked : SecurityAction \ {"manual_review"},
     failed : BOOLEAN]

Policy ==
    [enabled : BOOLEAN, mode : {"honor_client", "bounded_client", "server_score"},
     minConfidence : 0..100, maxAction : SecurityAction,
     allowed : SUBSET SecurityAction,
     kickScore : 0..255, deviceScore : 0..255, cardScore : 0..255,
     clientDeviceScore : 0..255, clientCardScore : 0..255, rate : 1..1000,
     critical : SecurityAction, high : SecurityAction,
     medium : SecurityAction, low : SecurityAction,
     reportDays : Nat, messageDays : Nat]

(* security_policy_from_row, for an application without a policy row.      *)
DefaultPolicy ==
    [enabled |-> TRUE, mode |-> "honor_client",
     minConfidence |-> 0, maxAction |-> "disable_card",
     allowed |-> SecurityAction \ {"manual_review"},
     kickScore |-> 80, deviceScore |-> 95, cardScore |-> 120,
     clientDeviceScore |-> 80, clientCardScore |-> 95, rate |-> 20,
     critical |-> "disable_card", high |-> "disable_device",
     medium |-> "manual_review", low |-> "record_only",
     reportDays |-> 90, messageDays |-> 180]

ASSUME ReportConstants ==
    /\ Inputs \subseteq ReportInput
    /\ Policies \subseteq Policy
    /\ {SessionRate, CardRate, DeviceRate, AddressRate, RateWindow,
        CriticalWindow, ScoreWindow, HandledDays} \subseteq Nat
    /\ RateWindow <= CriticalWindow

ASSUME NoneIsNoReport == None \notin SessionIds \cup Reports

VARIABLES
    policy,    \* auth_security_policies
    reports,   \* auth_security_reports
    messages,  \* auth_messages
    reporting, \* security_report requests in flight
    acts,      \* act_message requests in flight
    sweeps,    \* cleanups between selecting rows and deleting them
    \* History variables.
    quieted,   \* cards a disposition has disabled and nobody enabled since
    disposed   \* sessions named by a report or message that was enforced

reportTables == <<policy, reports, messages>>
reportInflight == <<reporting, acts, sweeps>>
reportHistory == <<quieted, disposed>>
reportVars == <<vars, reportTables, reportInflight, reportHistory>>

-----------------------------------------------------------------------------
ReportRow == [row : RowState, sid : SessionIds \cup {None},
              device : DeviceIds \cup {None}, card : CardIds \cup {None},
              hash : Hashes \cup {None}, input : Inputs \cup {None},
              action : SecurityAction, addr : Addresses \cup {None}, at : Nat]

MessageRow == [row : RowState, report : Reports \cup {None},
               sid : SessionIds \cup {None}, device : DeviceIds \cup {None},
               card : CardIds \cup {None}, severity : RiskLevel,
               status : {"unread", "read", "handling", "handled", "archived"},
               at : Nat]

NoReport == [row |-> "unborn", sid |-> None, device |-> None, card |-> None,
             hash |-> None, input |-> None, action |-> "record_only",
             addr |-> None, at |-> 0]

NoMessage == [row |-> "unborn", report |-> None, sid |-> None,
              device |-> None, card |-> None, severity |-> "low",
              status |-> "unread", at |-> 0]

(* PreparedClientSession, and in the end the action decided.               *)
ReportRequest ==
    [w : Workers, stage : {"prepared", "decided", "duplicate"},
     sid : SessionIds, device : DeviceIds \cup {None},
     card : CardIds \cup {None}, hash : Hashes \cup {None}, type : CardType,
     token : Nat, counter : Nat, at : Nat, expires : Nat,
     input : Inputs, addr : Addresses, action : SecurityAction]

(* The message an operator acts on, as find_message_detail returned it.    *)
ActRequest ==
    [w : Workers, message : Reports, sid : SessionIds \cup {None},
     device : DeviceIds \cup {None}, card : CardIds \cup {None},
     hash : Hashes \cup {None}, action : SecurityAction]

(* The rows a cleanup has selected and not deleted yet.                    *)
Sweep == [w : Workers, messages : SUBSET Reports, reports : SUBSET Reports]

KeptReports == {m \in Reports : reports[m].row = "live"}
LiveMessages == {m \in Reports : messages[m].row = "live"}

ReportBusy ==
    {r.w : r \in reporting} \cup {r.w : r \in acts} \cup {r.w : r \in sweeps}

Free(w) == w \notin Busy \cup ReportBusy

ReportInit ==
    /\ Init
    /\ policy = DefaultPolicy
    /\ reports = [m \in Reports |-> NoReport]
    /\ messages = [m \in Reports |-> NoMessage]
    /\ reporting = {} /\ acts = {} /\ sweeps = {}
    /\ quieted = {} /\ disposed = {}

-----------------------------------------------------------------------------
(* What the decision counts                                                *)

RecentReports(window) == {m \in KeptReports : reports[m].at + window >= now}

BySession(r, window) == {m \in RecentReports(window) : reports[m].sid = r.sid}

(* card_security_rate_filters                                              *)
ByCard(r, window) ==
    {m \in RecentReports(window) :
        IF r.card # None THEN reports[m].card = r.card
                         ELSE reports[m].hash = r.hash}

ByDevice(r, window) ==
    {m \in RecentReports(window) :
        r.device # None /\ reports[m].device = r.device}

ByAddress(r, window) == {m \in RecentReports(window) : reports[m].addr = r.addr}

(* critical_report_fallback_available                                      *)
CriticalFallback(r) ==
    /\ r.input.risk = "critical"
    /\ \A m \in BySession(r, CriticalWindow) : reports[m].input.risk # "critical"

(* assert_security_report_rate_limit                                       *)
WithinRates(r) ==
    \/ /\ Cardinality(BySession(r, RateWindow)) < SessionRate
       /\ Cardinality(ByCard(r, RateWindow)) < Smaller(CardRate, policy.rate)
       /\ Cardinality(ByDevice(r, RateWindow)) < DeviceRate
       /\ Cardinality(ByAddress(r, RateWindow)) < AddressRate
    \/ CriticalFallback(r)

(* count_distinct_security_report_cards                                    *)
CardsAccusedFrom(addr) ==
    {reports[m].hash : m \in {k \in RecentReports(ScoreWindow) :
        reports[k].addr = addr /\ reports[k].input.risk \in {"high", "critical"}}}

When(condition, points) == IF condition THEN points ELSE 0

(* security_risk_score                                                     *)
Score(r) ==
    LET i == r.input
    IN  Smaller(255,
            Larger(EventScore[i.type], RiskScore[i.risk])
            + When(i.confidence >= 90, 10)
            + When(i.type = "attestation_failed" \/ i.failed, 30)
            + When(Cardinality({m \in ByCard(r, ScoreWindow) :
                                   reports[m].input.type = i.type}) >= 2, 15)
            + When(Cardinality(CardsAccusedFrom(r.addr)) >= 4, 20)
            + When(r.type = "count"
                   /\ Cardinality(ByCard(r, ScoreWindow)) >= 2, 15))

-----------------------------------------------------------------------------
(* What the policy makes of it                                             *)

(* The score a policy wants before it does what the client asks for.       *)
ScoreFor(p, action) ==
    IF action = "kick_session" THEN p.kickScore
    ELSE IF action = "disable_device" THEN p.clientDeviceScore
    ELSE IF action = "disable_card" THEN p.clientCardScore
    ELSE 0

UncappedAction(p, i, score) ==
    IF i.asked = "record_only" THEN "record_only"
    ELSE IF \/ i.confidence < p.minConfidence
            \/ i.asked \notin p.allowed \cup {"record_only"}
            \/ score < ScoreFor(p, i.asked)
    THEN "manual_review"
    ELSE i.asked

(* bounded_client_security_action                                          *)
BoundedAction(p, i, score) ==
    IF i.asked = "record_only" THEN "record_only"
    ELSE IF \/ i.confidence < p.minConfidence
            \/ i.asked \notin p.allowed \cup {"record_only"}
            \/ score < ScoreFor(p, i.asked)
            \/ Rank[i.asked] > Rank[p.maxAction]
    THEN "manual_review"
    ELSE i.asked

(* server_score_security_action                                            *)
ServerAction(p, score) ==
    IF score >= p.cardScore THEN p.critical
    ELSE IF score >= p.deviceScore THEN p.high
    ELSE IF score >= p.kickScore THEN "kick_session"
    ELSE IF score >= 60 THEN p.medium
    ELSE p.low

PolicyAction(p, i, score) ==
    IF ~p.enabled THEN "record_only"
    ELSE IF p.mode = "bounded_client" THEN BoundedAction(p, i, score)
    ELSE IF p.mode = "server_score" THEN ServerAction(p, score)
    ELSE i.asked

(* security_target_action: an action without its target ends the session.  *)
TargetAction(r, action) ==
    IF \/ action = "disable_device" /\ (r.type = "count" \/ r.device = None)
       \/ action = "disable_card" /\ r.card = None
    THEN "kick_session"
    ELSE action

-----------------------------------------------------------------------------
(* What an action does.  The updates of the transaction find the row of    *)
(* the device or the card, or fall back to ending the session.             *)

CardOnly(action, s, d, c, h) ==
    IF action = "disable_device" /\ d \in LiveDevices THEN Revoked(SessionsOn({d}))
    ELSE IF action \in Revoking THEN Revoked({s})
    ELSE sessions

NoFallback(action, s, d, c, h) ==
    IF action = "disable_device" THEN Revoked(SessionsOn({d} \ {None}))
    ELSE IF action = "disable_card"
    THEN Revoked({x \in SessionIds : OnCard(x, c, h)})
    ELSE IF action \in Revoking THEN Revoked({s})
    ELSE sessions

SessionsAfter(action, s, d, c, h) ==
    IF action = "disable_device" /\ d \in LiveDevices THEN Revoked(SessionsOn({d}))
    ELSE IF action = "disable_card" /\ c \in LiveCards
    THEN Revoked({x \in SessionIds : OnCard(x, c, h)})
    ELSE IF action \in Revoking THEN Revoked({s})
    ELSE sessions

DisabledCard(action, c) ==
    {x \in LiveCards : x = c /\ action = "disable_card"}

(* apply_client_security_action_in_transaction and                         *)
(* apply_message_action_in_transaction                                     *)
Dispose(action, s, d, c, h) ==
    LET off == DisabledCard(action, c)
    IN  /\ devices' = IF action = "disable_device"
                      THEN DevicesWithStatus({d} \cap LiveDevices, 0) ELSE devices
        /\ cards' = [x \in CardIds |->
              IF x \in off THEN [cards[x] EXCEPT !.status = 2] ELSE cards[x]]
        /\ disabledAt' = [x \in CardIds |->
              IF x \in off /\ cards[x].status # 2 THEN now ELSE disabledAt[x]]
        /\ quieted' = quieted \cup off
        /\ disposed' = IF action \in Revoking
                       THEN disposed \cup ({s} \cap LiveSessions) ELSE disposed

(***************************************************************************)
(* Client: security_report                                                 *)
(***************************************************************************)

TypeOfCard(c) == IF c = None THEN "time" ELSE cards[c].type

(* prepare_client_session                                                  *)
ReportPrepare(w, s, counter, i, addr) ==
    /\ Free(w)
    /\ SessionAccepted(s, counter)
    /\ CardAllowsUntil(s) # 0
    /\ reporting' = reporting \cup
          {[w |-> w, stage |-> "prepared", sid |-> s,
            device |-> sessions[s].device, card |-> sessions[s].card,
            hash |-> sessions[s].hash, type |-> TypeOfCard(sessions[s].card),
            token |-> sessions[s].token, counter |-> counter, at |-> now,
            expires |-> Smaller(now + SessionTTL, CardAllowsUntil(s)),
            input |-> i, addr |-> addr, action |-> "record_only"]}
    /\ UNCHANGED <<vars, reportTables, acts, sweeps, reportHistory>>

(* The unique key uk_auth_security_reports_event, NULL equal to nothing.   *)
SameEvent(r) ==
    {m \in KeptReports :
        reports[m].sid = r.sid /\ reports[m].input.event = r.input.event}

(* duplicate_security_report_response: if the first report has ended the   *)
(* session the answer is all there is, or else the token is rotated.       *)
ReportLookup(r) ==
    /\ r \in reporting
    /\ r.stage = "prepared"
    /\ \E m \in SameEvent(r) :
          reporting' = (reporting \ {r}) \cup
              {[r EXCEPT !.stage = "duplicate"] :
                  x \in {k \in {m} : reports[k].action \notin Revoking}}
    /\ UNCHANGED <<vars, reportTables, acts, sweeps, reportHistory>>

ReportRotateAgain(r) ==
    /\ r \in reporting
    /\ r.stage = "duplicate"
    /\ RotateSession(r)
    /\ reporting' = reporting \ {r}
    /\ UNCHANGED <<app, cards, devices, nonces, now, inflight, granted, fair,
                   disabledAt, accepted, reportTables, acts, sweeps,
                   reportHistory>>

(* security_policy, assert_security_report_rate_limit, security_decision   *)
ReportDecide(r) ==
    /\ r \in reporting
    /\ r.stage = "prepared"
    /\ SameEvent(r) = {}
    /\ WithinRates(r)
    /\ reporting' = (reporting \ {r}) \cup
          {[r EXCEPT !.stage = "decided",
                     !.action = TargetAction(r,
                                    PolicyAction(policy, r.input, Score(r)))]}
    /\ UNCHANGED <<vars, reportTables, acts, sweeps, reportHistory>>

(* The foreign keys of the report and of its message.                      *)
RowsExist(r) ==
    /\ r.sid \in LiveSessions
    /\ r.device \in LiveDevices \cup {None}
    /\ r.card \in LiveCards \cup {None}

(* create_client_security_report: the report, its message, the action and  *)
(* the rotation, or nothing.  A report that does not end the session has   *)
(* to find its token current; one that does compares no token.             *)
ReportCommit(r, m) ==
    /\ r \in reporting
    /\ r.stage = "decided"
    /\ reports[m].row = "unborn"
    /\ SameEvent(r) = {}
    /\ RowsExist(r)
    /\ reports' = [reports EXCEPT ![m] =
          [row |-> "live", sid |-> r.sid, device |-> r.device, card |-> r.card,
           hash |-> r.hash, input |-> r.input, action |-> r.action,
           addr |-> r.addr, at |-> now]]
    /\ messages' = [messages EXCEPT ![m] =
          [row |-> "live", report |-> m, sid |-> r.sid, device |-> r.device,
           card |-> r.card, severity |-> r.input.risk, status |-> "unread",
           at |-> now]]
    /\ Dispose(r.action, r.sid, r.device, r.card, r.hash)
    /\ \/ /\ r.action \in Revoking
          /\ sessions' = SessionsAfter(r.action, r.sid, r.device, r.card, r.hash)
          /\ UNCHANGED <<late, spent>>
       \/ r.action \notin Revoking /\ RotateSession(r)
    /\ reporting' = reporting \ {r}
    /\ UNCHANGED <<app, nonces, now, inflight, granted, fair, accepted, policy,
                   acts, sweeps>>

(***************************************************************************)
(* Operator console: policy and message centre                             *)
(***************************************************************************)

(* set_security_policy *)
SetPolicy(p) ==
    /\ policy' = p
    /\ UNCHANGED <<vars, reports, messages, reportInflight, reportHistory>>

(* act_message: the message is read with the card hash of its report ...   *)
ActRead(w, m, action) ==
    LET msg == messages[m]
    IN  /\ Free(w)
        /\ m \in LiveMessages
        /\ acts' = acts \cup
              {[w |-> w, message |-> m, sid |-> msg.sid, device |-> msg.device,
                card |-> msg.card, action |-> action,
                hash |-> IF msg.report = None THEN None
                                              ELSE reports[msg.report].hash]}
        /\ UNCHANGED <<vars, reportTables, reporting, sweeps, reportHistory>>

(* message_card_hash_in_transaction *)
HashOf(r) == IF r.hash = None /\ r.card \in LiveCards THEN cards[r.card].hash
                                                      ELSE r.hash

(* ... and disposed of, if it is still there for the action to be noted.   *)
ActWrite(r) ==
    /\ r \in acts
    /\ r.message \in LiveMessages
    /\ Dispose(r.action, r.sid, r.device, r.card, HashOf(r))
    /\ sessions' = SessionsAfter(r.action, r.sid, r.device, r.card, HashOf(r))
    /\ messages' = [messages EXCEPT ![r.message].status = "handled"]
    /\ acts' = acts \ {r}
    /\ UNCHANGED <<app, nonces, now, inflight, late, spent, granted, fair,
                   accepted, policy, reports, reporting, sweeps>>

(* update_messages_status, with a note for each message.                   *)
MarkMessages(S, status) ==
    /\ S \subseteq LiveMessages
    /\ messages' = [m \in Reports |->
          IF m \in S THEN [messages[m] EXCEPT !.status = status] ELSE messages[m]]
    /\ UNCHANGED <<vars, policy, reports, reportInflight, reportHistory>>

MessagesWithout(S) ==
    [m \in Reports |->
        IF m \in S THEN [NoMessage EXCEPT !.row = "deleted"] ELSE messages[m]]

DeleteMessages(S) ==
    /\ messages' = MessagesWithout(S \cap LiveMessages)
    /\ UNCHANGED <<vars, policy, reports, reportInflight, reportHistory>>

(* clear_app_activity_data: reports, messages, notes and audit log.        *)
ClearActivity ==
    /\ messages' = MessagesWithout(LiveMessages)
    /\ reports' = [m \in Reports |->
          IF m \in KeptReports THEN [NoReport EXCEPT !.row = "deleted"]
                              ELSE reports[m]]
    /\ UNCHANGED <<vars, policy, reportInflight, reportHistory>>

-----------------------------------------------------------------------------
(* The steps of ClientAuth, and what they mean for these tables            *)

DanglingRef(x, live) == x

Ref(x, live) == IF x \in live THEN x ELSE None

(* ON DELETE SET NULL of reports and messages, for what the step deletes:  *)
(* reports, messages (gone) or the rows of ClientAuth they refer to.       *)
ReportsDetached(gone) ==
    reports' = [m \in Reports |->
        IF m \in gone THEN [NoReport EXCEPT !.row = "deleted"]
        ELSE [reports[m] EXCEPT
                 !.sid = Ref(@, {s \in SessionIds : sessions'[s].row = "live"}),
                 !.device = Ref(@, {d \in DeviceIds : devices'[d].row = "live"}),
                 !.card = Ref(@, {c \in CardIds : cards'[c].row = "live"})]]

MessagesDetached(gone, goneReports) ==
    messages' = [m \in Reports |->
        IF m \in gone THEN [NoMessage EXCEPT !.row = "deleted"]
        ELSE [messages[m] EXCEPT
                 !.report = Ref(@, Reports \ goneReports),
                 !.sid = Ref(@, {s \in SessionIds : sessions'[s].row = "live"}),
                 !.device = Ref(@, {d \in DeviceIds : devices'[d].row = "live"}),
                 !.card = Ref(@, {c \in CardIds : cards'[c].row = "live"})]]

StillDisabled == {c \in quieted : cards'[c].row = "live" /\ cards'[c].status = 2}

(* A request has a worker of its own, whatever kind of request it is.      *)
ClientAuthStep ==
    /\ Next
    /\ Busy' \cap ReportBusy = {}
    /\ ReportsDetached({})
    /\ MessagesDetached({}, {})
    /\ quieted' = StillDisabled
    /\ UNCHANGED <<policy, reportInflight, disposed>>

(* security_report_cleanup_ids, archived_security_message_cleanup_ids and  *)
(* handled_security_message_cleanup_ids                                    *)
DueReports == {m \in KeptReports : reports[m].at + policy.reportDays < now}

DueMessages ==
    {m \in LiveMessages :
        \/ /\ messages[m].status = "archived"
           /\ messages[m].severity \in {"low", "medium"}
           /\ messages[m].at + policy.messageDays < now
        \/ /\ messages[m].status \in {"handled", "archived"}
           /\ messages[m].severity \in {"high", "critical"}
           /\ messages[m].at + HandledDays < now}

(* cleanup_security_data: the rows are selected ...                        *)
SweepRead(w) ==
    /\ Free(w)
    /\ sweeps' = sweeps \cup
          {[w |-> w, messages |-> DueMessages, reports |-> DueReports]}
    /\ UNCHANGED <<vars, reportTables, reporting, acts, reportHistory>>

(* ... and deleted, whatever their status has become, messages first.      *)
SweepMessages(r) ==
    /\ r \in sweeps
    /\ r.messages # {}
    /\ messages' = MessagesWithout(r.messages \cap LiveMessages)
    /\ sweeps' = (sweeps \ {r}) \cup {[r EXCEPT !.messages = {}]}
    /\ UNCHANGED <<vars, policy, reports, reporting, acts, reportHistory>>

SweepReports(r) ==
    LET gone == r.reports \cap KeptReports
    IN  /\ r \in sweeps
        /\ r.messages = {}
        /\ UNCHANGED <<vars, policy, reporting, acts, reportHistory>>
        /\ ReportsDetached(gone)
        /\ MessagesDetached({}, gone)
        /\ sweeps' = sweeps \ {r}

(* A request refused, cut off or forgotten by a process that stopped.      *)
ReportDrop ==
    /\ \/ \E r \in reporting : reporting' = reporting \ {r} /\ UNCHANGED <<acts, sweeps>>
       \/ \E r \in acts : acts' = acts \ {r} /\ UNCHANGED <<reporting, sweeps>>
       \/ \E r \in sweeps : sweeps' = sweeps \ {r} /\ UNCHANGED <<reporting, acts>>
    /\ UNCHANGED <<vars, reportTables, reportHistory>>

-----------------------------------------------------------------------------
SecurityReport ==
    \/ \E w \in Workers, s \in SessionIds, n \in 1..MaxCounter,
          i \in Inputs, addr \in Addresses : ReportPrepare(w, s, n, i, addr)
    \/ \E r \in reporting :
          \/ ReportLookup(r)
          \/ ReportRotateAgain(r)
          \/ ReportDecide(r)
          \/ \E m \in Reports : ReportCommit(r, m)

MessageCentre ==
    \/ /\ "act" \in Ops
       /\ \E w \in Workers, m \in Reports, action \in SecurityAction :
             ActRead(w, m, action)
    \/ \E r \in acts : ActWrite(r)
    \/ /\ "mark" \in Ops
       /\ \E S \in Batches(LiveMessages),
             status \in {"read", "handling", "handled", "archived"} :
                MarkMessages(S, status)
    \/ /\ "deleteMessages" \in Ops
       /\ \E S \in Batches(LiveMessages) : DeleteMessages(S)
    \/ "clear" \in Ops /\ ClearActivity

Retention ==
    \/ "cleanup" \in Ops /\ \E w \in Workers : SweepRead(w)
    \/ \E r \in sweeps : SweepMessages(r) \/ SweepReports(r)

ReportNext ==
    \/ ClientAuthStep
    \/ SecurityReport
    \/ MessageCentre
    \/ \E p \in Policies \ {policy} : SetPolicy(p)
    \/ Retention
    \/ "drop" \in Ops /\ ReportDrop

ReportSpec == ReportInit /\ [][ReportNext]_reportVars

-----------------------------------------------------------------------------
(* The rows that reports and messages name exist.                          *)
ForeignKeys ==
    /\ \A m \in KeptReports :
          /\ reports[m].sid \in LiveSessions \cup {None}
          /\ reports[m].device \in LiveDevices \cup {None}
          /\ reports[m].card \in LiveCards \cup {None}
    /\ \A m \in LiveMessages :
          /\ messages[m].report \in KeptReports \cup {None}
          /\ messages[m].sid \in LiveSessions \cup {None}
          /\ messages[m].device \in LiveDevices \cup {None}
          /\ messages[m].card \in LiveCards \cup {None}

(* Type invariant: rows and requests in flight carry what their types say, *)
(* and reports and messages name rows that exist (their foreign keys).     *)
ReportTypeOK ==
    /\ TypeOK
    /\ policy \in Policies \cup {DefaultPolicy}
    /\ reports \in [Reports -> ReportRow]
    /\ messages \in [Reports -> MessageRow]
    /\ reporting \subseteq ReportRequest
    /\ acts \subseteq ActRequest
    /\ sweeps \subseteq Sweep
    /\ quieted \subseteq CardIds
    /\ disposed \subseteq SessionIds
    /\ ForeignKeys

(* A card that a report or an operator's disposition disabled is out of    *)
(* use at once, not after a session TTL: until it is enabled again none of *)
(* its sessions is in force, whatever logins, heartbeats and reports were  *)
(* in flight.                                                              *)
EnforcedIsQuiet ==
    \A c \in quieted, s \in LiveSessions :
        sessions[s].card = c => sessions[s].status = 0

(* An enforced action ends the session that was reported for good, also    *)
(* when its target was gone, its report cleaned up, or the decision raced  *)
(* with another report, a heartbeat or an enabling operator.               *)
DisposedStayEnded == \A s \in disposed : ~InForce(s)

(* Reports that leave their session alive come no faster than the session  *)
(* limit, one critical report excepted, though reports of one session run  *)
(* side by side and are counted before they are inserted: the token lets   *)
(* only one of those that counted the same reports pass.                   *)
ReportRateHolds ==
    \A s \in SessionIds, t \in 1..now :
        Cardinality({m \in KeptReports :
            /\ reports[m].sid = s
            /\ reports[m].action \notin Revoking
            /\ reports[m].at \in t..(t + RateWindow)}) <= SessionRate + 1

(* Where the policy bounds the client, no decision goes further than its   *)
(* strongest action (a manual review excepted), and no decision disables a *)
(* device for a count card.                                                *)
DecisionWithinPolicy ==
    [][\A r \in reporting' \ reporting : r.stage = "decided" =>
          /\ policy.mode = "bounded_client" =>
                Rank[r.action] <= Larger(Rank[policy.maxAction], 1)
          /\ r.type = "count" => r.action # "disable_device"]_reportVars
=============================================================================
