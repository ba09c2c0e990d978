----------------------------- MODULE ClientAuth -----------------------------
(***************************************************************************)
(* Card, device and session state of one application, as the client API   *)
(* (src/src/service/client.rs), the operator console                       *)
(* (src/src/service/admin.rs) and the transactions of                      *)
(* src/src/repository/mod.rs change it.                                    *)
(*                                                                         *)
(* A handler reads, checks, and then writes in a database transaction (or  *)
(* in one autocommitted UPDATE).  Between its reads and its write any      *)
(* number of other handlers may run, so a handler is a Prepare action that *)
(* puts a record into one of the in-flight sets (logins, calls, unbinds,   *)
(* enables, adjusts, revokes) and an action that consumes it.  It may also *)
(* be dropped: the request was refused, its connection closed, or the      *)
(* process was restarted; a transaction that did not commit leaves no      *)
(* trace.  Rows locked FOR UPDATE by a transaction are why a commit is one *)
(* step; the one path that locks no card row (verification disabled) is    *)
(* split where its stale read is (LoginSnapshot).                          *)
(*                                                                         *)
(* A definition that stands just before another and differs from it by a   *)
(* slip (RivalsById and Rivals, UnbindOneTooMany and UnbindAllowed, ...)   *)
(* is not part of the model: it is what the definition would be with a     *)
(* plausible bug, and the properties are tested against it.                *)
(*                                                                         *)
(* Row ids are model values that are never used twice (AUTO_INCREMENT).    *)
(* A NULL id, key or region is None, a NULL time is 0; time starts at 1.   *)
(***************************************************************************)
EXTENDS Naturals, FiniteSets

CONSTANTS
    Hashes,       \* card keys, by hash
    CardIds,      \* ids of auth_cards
    DeviceIds,    \* ids of auth_devices
    SessionIds,   \* ids of auth_sessions
    Installs,     \* client installations
    Keys,         \* device public keys
    Regions,      \* what login_ip_binding_key makes of an address
    Workers,      \* bound on the requests in flight at once
    None,         \* SQL NULL, and the empty string of the source's columns
    Settings,     \* the settings the application may be given
    CardSpecs,    \* the cards an operator may create
    Challenges,   \* the login challenges clients hold
    Amounts,      \* durations an operator types in
    Ops,          \* the operations this instance of the system receives
    MinDuration,  \* MIN_CARD_DURATION_SECONDS
    MaxDuration,  \* MAX_CARD_DURATION_SECONDS
    SessionTTL,   \* max(heartbeat_interval, 300)
    TicketTTL,    \* EPHEMERAL_TICKET_TTL_SECONDS
    DeviceFloor,  \* the literal 50 of client_card_device_limit
    Forever,      \* 9999-12-31 23:59:59
    MaxTime,      \* bound on the clock
    MaxCounter    \* bound on a session's request counter

Setting == [verify : BOOLEAN, binding : BOOLEAN, shared : BOOLEAN,
            ipBinding : BOOLEAN, maxDevices : Nat, interval : Nat,
            deductSeconds : Nat, deductUses : Nat]

CardType == {"time", "permanent", "count"}

CardSpec == [hash : Hashes, type : CardType, duration : Nat, total : Nat,
             maxDevices : Nat, unbindLimit : Nat]

(* A challenge binds an installation and its key (None: ephemeral mode).   *)
(* A challenge without an id is never presented twice, or registers no     *)
(* nonce at all (direct ephemeral).                                        *)
Challenge == [id : Nat \cup {None}, inst : Installs,
              key : Keys \cup {None}, expires : Nat]

ASSUME ConstantTypes ==
    /\ Settings \subseteq Setting
    /\ CardSpecs \subseteq CardSpec
    /\ Challenges \subseteq Challenge
    /\ Amounts \subseteq Nat
    /\ {MinDuration, MaxDuration, SessionTTL, TicketTTL, DeviceFloor,
        Forever, MaxTime, MaxCounter} \subseteq Nat
    /\ MinDuration > 0
    /\ SessionTTL > 0

ASSUME NoneIsNothing ==
    None \notin Hashes \cup CardIds \cup DeviceIds \cup Keys \cup Regions
                \cup Nat

ASSUME ForeverIsLate == Forever > MaxTime + SessionTTL

VARIABLES
    app,       \* auth_apps: the settings in force
    cards,     \* auth_cards
    devices,   \* auth_devices
    sessions,  \* auth_sessions
    nonces,    \* auth_nonces: the challenges reserved
    now,       \* the clock of the server and of the database
    logins,    \* logins past their checks, not yet committed
    calls,     \* session requests past assert_client_session
    unbinds,   \* unbind requests past their signature check
    enables,   \* set_card_status(enable) between its read and its write
    adjusts,   \* adjust_card_duration between its read and its write
    revokes,   \* set_device_status(disable) between its two statements
    \* History variables: what the properties remember of the past.
    late,       \* sessions rotated after they had expired
    spent,      \* per session, the tokens exchanged for a successor
    granted,    \* per count card, logins since it was last (re)filled
    fair,       \* per card, the duration had no update been lost
    disabledAt, \* per card, when it was last disabled
    accepted    \* per challenge, how many logins it has authorised

tables == <<app, cards, devices, sessions, nonces>>
inflight == <<logins, calls, unbinds, enables, adjusts, revokes>>
history == <<late, spent, granted, fair, disabledAt, accepted>>
vars == <<tables, now, inflight, history>>

-----------------------------------------------------------------------------
(* Rows                                                                    *)

RowState == {"unborn", "live", "deleted"}

CardRow == [row : RowState, hash : Hashes \cup {None}, type : CardType,
            status : 0..2, usedAt : Nat, duration : Nat, total : Nat,
            remaining : Nat, maxDevices : Nat, unbindLimit : Nat,
            unbindCount : Nat, lastUnbound : Nat]

DeviceRow == [row : RowState, inst : Installs \cup {None}, status : 0..1,
              card : CardIds \cup {None}, hash : Hashes \cup {None},
              key : Keys \cup {None}, region : Regions \cup {None}]

SessionRow == [row : RowState, status : 0..1, token : Nat, counter : Nat,
               expires : Nat, device : DeviceIds \cup {None},
               card : CardIds \cup {None}, hash : Hashes \cup {None},
               ephemeral : BOOLEAN, ticketUntil : Nat]

NoCard == [row |-> "unborn", hash |-> None, type |-> "time", status |-> 0,
           usedAt |-> 0, duration |-> 0, total |-> 0, remaining |-> 0,
           maxDevices |-> 0, unbindLimit |-> 0, unbindCount |-> 0,
           lastUnbound |-> 0]

NoDevice == [row |-> "unborn", inst |-> None, status |-> 0, card |-> None,
             hash |-> None, key |-> None, region |-> None]

NoSession == [row |-> "unborn", status |-> 0, token |-> 0, counter |-> 0,
              expires |-> 0, device |-> None, card |-> None, hash |-> None,
              ephemeral |-> FALSE, ticketUntil |-> 0]

LiveCards == {c \in CardIds : cards[c].row = "live"}
LiveDevices == {d \in DeviceIds : devices[d].row = "live"}
LiveSessions == {s \in SessionIds : sessions[s].row = "live"}

DevicesOf(i) == {d \in LiveDevices : devices[d].inst = i}

(* Requests in flight: what each handler carries from its reads to its     *)
(* write.                                                                  *)
LoginRequest == [w : Workers, app : Settings, hash : Hashes, inst : Installs,
                 key : Keys \cup {None}, region : Regions \cup {None},
                 ch : Challenges, at : Nat, alone : BOOLEAN]

SessionCall == [w : Workers, kind : {"rotate", "logout"}, sid : SessionIds,
                token : Nat, counter : Nat, at : Nat, expires : Nat]

UnbindRequest == [w : Workers, app : Settings, hash : Hashes, inst : Installs,
                  key : Keys, at : Nat]

EnableEdit == [w : Workers, card : CardIds, value : 0..1]

AdjustEdit == [w : Workers, card : CardIds, value : Nat, amount : Amounts,
               up : BOOLEAN]

RevokeEdit == [w : Workers, device : DeviceIds]

Busy == {r.w : r \in logins} \cup {r.w : r \in calls}
        \cup {r.w : r \in unbinds} \cup {r.w : r \in enables}
        \cup {r.w : r \in adjusts} \cup {r.w : r \in revokes}

Idle(w) == w \notin Busy

-----------------------------------------------------------------------------
Larger(m, n) == IF m >= n THEN m ELSE n
Smaller(m, n) == IF m <= n THEN m ELSE n

(* GREATEST(..., 0) and max(0) of the source. *)
Minus(m, n) == IF m >= n THEN m - n ELSE 0

(* A time card runs from its first use, or from the time of asking when it *)
(* has none yet; the others do not expire.                                 *)
ExpiryOf(card, usedAt, asked) ==
    IF card.type = "time"
    THEN (IF usedAt = 0 THEN asked ELSE usedAt) + Larger(card.duration, 1)
    ELSE Forever

(* assert_client_card_usable: what a handler asks of a card before it      *)
(* starts its transaction.                                                 *)
Usable(c, h) ==
    /\ c \in LiveCards
    /\ cards[c].hash = h
    /\ cards[c].status # 2
    /\ ExpiryOf(cards[c], cards[c].usedAt, now) >= now

(* Sessions a statement finds for a card: by id or by hash, and for the    *)
(* virtual card of a login without verification by hash where the id is    *)
(* NULL.                                                                   *)
OnCard(s, c, h) ==
    IF c = None THEN sessions[s].card = None /\ sessions[s].hash = h
                ELSE sessions[s].card = c \/ sessions[s].hash = h

Active(s) ==
    /\ s \in LiveSessions
    /\ sessions[s].status = 1
    /\ sessions[s].expires >= now

(* Sessions that keep device d (or no device) from using the card.         *)
RivalsById(c, h, d) ==
    {s \in SessionIds : Active(s) /\ sessions[s].card = c /\ sessions[s].device # d}

Rivals(c, h, d) ==
    {s \in SessionIds : Active(s) /\ OnCard(s, c, h) /\ sessions[s].device # d}

Revoked(S) ==
    [s \in SessionIds |->
        IF s \in S /\ s \in LiveSessions THEN [sessions[s] EXCEPT !.status = 0]
                                         ELSE sessions[s]]

(* DELETE on auth_devices takes the sessions of the device with it.        *)
WithoutDevices(S) ==
    [s \in SessionIds |->
        IF s \in LiveSessions /\ sessions[s].device \in S
        THEN [NoSession EXCEPT !.row = "deleted"]
        ELSE sessions[s]]

DevicesRemoved(S) ==
    [d \in DeviceIds |->
        IF d \in S THEN [NoDevice EXCEPT !.row = "deleted"] ELSE devices[d]]

-----------------------------------------------------------------------------
Init ==
    /\ app \in Settings
    /\ cards = [c \in CardIds |-> NoCard]
    /\ devices = [d \in DeviceIds |-> NoDevice]
    /\ sessions = [s \in SessionIds |-> NoSession]
    /\ nonces = {}
    /\ now = 1
    /\ logins = {} /\ calls = {} /\ unbinds = {}
    /\ enables = {} /\ adjusts = {} /\ revokes = {}
    /\ late = {}
    /\ spent = [s \in SessionIds |-> {}]
    /\ granted = [c \in CardIds |-> 0]
    /\ fair = [c \in CardIds |-> 0]
    /\ disabledAt = [c \in CardIds |-> 0]
    /\ accepted = [ch \in Challenges |-> 0]

(***************************************************************************)
(* Login                                                                   *)
(***************************************************************************)

(* login_proof_for_card: a login proves the key of its challenge, except    *)
(* that a count card is logged in without a device key.                    *)
ProvenKey(h, ch) ==
    IF app.verify /\ \E c \in CardIds : Usable(c, h) /\ cards[c].type = "count"
    THEN None ELSE ch.key

(* The handler up to create_plain_ephemeral_login: the challenge has not   *)
(* expired and the card looks usable.                                      *)
LoginPrepare(w, h, ch, region) ==
    /\ Idle(w)
    /\ ch.id # None => ch.expires >= now
    /\ app.verify => \E c \in CardIds :
          /\ Usable(c, h)
          /\ cards[c].type = "count" => cards[c].remaining > 0
    /\ logins' = logins \cup
          {[w |-> w, app |-> app, hash |-> h, inst |-> ch.inst,
            key |-> ProvenKey(h, ch),
            region |-> IF app.ipBinding THEN region ELSE None,
            ch |-> ch, at |-> now, alone |-> FALSE]}
    /\ UNCHANGED <<tables, now, calls, unbinds, enables, adjusts, revokes,
                   history>>

ChallengeIgnored(r) == TRUE

(* reserve_client_login_challenge: the unique key of auth_nonces.          *)
ChallengeUnused(r) == r.ch.id # None => r.ch \notin nonces

KeyNotCompared(r, dev) ==
    /\ dev.status = 1
    /\ r.app.ipBinding => dev.region \in {None, r.region}

(* assert_client_device_can_login                                          *)
DeviceCanLogin(r, dev) ==
    /\ dev.status = 1
    /\ r.app.ipBinding => dev.region \in {None, r.region}
    /\ r.key = None => dev.key = None
    /\ r.key # None => dev.key \in {None, r.key}

ActiveDevices(h) ==
    {d \in LiveDevices : devices[d].hash = h /\ devices[d].status = 1}

DeviceLimit(r, maxDevices) ==
    Larger(DeviceFloor, Larger(maxDevices, r.app.maxDevices))

(* d is the row upsert_client_login_device returns: the row of this        *)
(* installation, or a new one if the card has room for it.                 *)
Admits(r, d, mayAdd) ==
    \/ d \in DevicesOf(r.inst) /\ DeviceCanLogin(r, devices[d])
    \/ DevicesOf(r.inst) = {} /\ devices[d].row = "unborn" /\ mayAdd

BoundDevice(r, c, dev) ==
    [row |-> "live", inst |-> r.inst, status |-> 1, card |-> c,
     hash |-> r.hash, key |-> r.key,
     region |-> IF r.region = None \/ dev.region = None THEN r.region
                                                        ELSE dev.region]

(* The new session; an older one of the same device and card is revoked.   *)
OpenSession(r, c, d, s, expiry) ==
    LET replaced == {x \in LiveSessions :
                        /\ d # None
                        /\ sessions[x].device = d
                        /\ OnCard(x, c, r.hash)}
    IN  /\ sessions[s].row = "unborn"
        /\ sessions' = [Revoked(replaced) EXCEPT ![s] =
              [row |-> "live", status |-> 1, token |-> 0, counter |-> 0,
               expires |-> Smaller(r.at + SessionTTL, expiry),
               device |-> d, card |-> c, hash |-> r.hash,
               ephemeral |-> r.key = None,
               ticketUntil |-> IF r.key = None THEN r.at + TicketTTL ELSE 0]]

Uncounted(card) == TRUE

(* A count card has a use left.                                            *)
HasUse(card) == card.type = "count" => card.remaining > 0

(* mark_client_login_card_used and consume_client_count_card_use.          *)
ChargedCard(card, at) ==
    LET first == card.status = 0 \/ card.usedAt = 0
    IN  [card EXCEPT
            !.status = IF first THEN 1 ELSE @,
            !.usedAt = IF first /\ @ = 0 THEN at ELSE @,
            !.remaining = IF card.type = "count" THEN Minus(@, 1) ELSE @]

(* create_plain_ephemeral_login with verification enabled.  The card row   *)
(* is locked from the second statement on.                                 *)
LoginCommit(r, c, s) ==
    LET card   == cards[c]
        first  == card.status = 0 \/ card.usedAt = 0
        expiry == ExpiryOf(card, IF first THEN r.at ELSE card.usedAt, r.at)
        mayAdd(d) == \/ first
                     \/ ~(r.app.binding /\ ~r.app.shared)
                     \/ Cardinality(ActiveDevices(r.hash))
                            < DeviceLimit(r, card.maxDevices)
    IN  /\ r \in logins
        /\ r.app.verify
        /\ ChallengeUnused(r)
        /\ c \in LiveCards /\ card.hash = r.hash /\ card.status # 2
        /\ HasUse(card)
        /\ expiry >= r.at
        /\ \/ /\ card.type = "count"
              /\ devices' = devices
              /\ OpenSession(r, c, None, s, expiry)
              /\ granted' = [granted EXCEPT ![c] = @ + 1]
           \/ /\ card.type # "count"
              /\ \E d \in DeviceIds :
                    /\ Admits(r, d, mayAdd(d))
                    /\ r.app.shared \/ Rivals(c, r.hash, d) = {}
                    /\ devices' = [devices EXCEPT
                                      ![d] = BoundDevice(r, c, devices[d])]
                    /\ OpenSession(r, c, d, s, expiry)
              /\ granted' = granted
        /\ cards' = [cards EXCEPT ![c] = ChargedCard(card, r.at)]
        /\ nonces' = IF r.ch.id = None THEN nonces ELSE nonces \cup {r.ch}
        /\ accepted' = [accepted EXCEPT ![r.ch] = @ + 1]
        /\ logins' = logins \ {r}
        /\ UNCHANGED <<app, now, calls, unbinds, enables, adjusts, revokes,
                       late, spent, fair, disabledAt>>

(* With verification disabled there is no card row to lock: the sessions   *)
(* of the virtual card are listed from the transaction's snapshot, and a   *)
(* session another device opens meanwhile is not seen.                     *)
LoginSnapshot(r) ==
    /\ r \in logins
    /\ ~r.app.verify
    /\ ~r.alone
    /\ \/ r.app.shared
       \/ \A s \in SessionIds :
             (Active(s) /\ OnCard(s, None, r.hash)) =>
                 sessions[s].device \in DevicesOf(r.inst)
    /\ logins' = (logins \ {r}) \cup {[r EXCEPT !.alone = TRUE]}
    /\ UNCHANGED <<tables, now, calls, unbinds, enables, adjusts, revokes,
                   history>>

LoginCommitVirtual(r, d, s) ==
    /\ r \in logins
    /\ ~r.app.verify
    /\ r.alone
    /\ ChallengeUnused(r)
    /\ Admits(r, d, TRUE)
    /\ devices' = [devices EXCEPT ![d] = BoundDevice(r, None, devices[d])]
    /\ OpenSession(r, None, d, s, Forever)
    /\ nonces' = IF r.ch.id = None THEN nonces ELSE nonces \cup {r.ch}
    /\ accepted' = [accepted EXCEPT ![r.ch] = @ + 1]
    /\ logins' = logins \ {r}
    /\ UNCHANGED <<app, cards, now, calls, unbinds, enables, adjusts, revokes,
                   late, spent, granted, fair, disabledAt>>

(***************************************************************************)
(* Session requests                                                        *)
(***************************************************************************)

(* assert_client_session, for the holder of the current token              *)
SessionAccepted(s, counter) ==
    LET d == sessions[s].device
    IN  /\ Active(s)
        /\ d # None => devices[d].status = 1
        /\ counter > sessions[s].counter
        /\ IF sessions[s].ephemeral
           THEN sessions[s].ticketUntil >= now
           ELSE d # None /\ devices[d].key # None

CardUnexpired(c) == ExpiryOf(cards[c], cards[c].usedAt, now) >= now

CardInForce(c) ==
    /\ cards[c].status # 2
    /\ ExpiryOf(cards[c], cards[c].usedAt, now) >= now

(* card_from_session: until when the card allows the session to run; 0 if  *)
(* it does not.  A session without a card is one of a virtual card.        *)
CardAllowsUntil(s) ==
    LET c == sessions[s].card
    IN  IF c = None THEN IF app.verify THEN 0 ELSE Forever
        ELSE IF CardInForce(c) THEN ExpiryOf(cards[c], cards[c].usedAt, now)
        ELSE 0

(* prepare_client_session.  heartbeat, config, variable and cloud download *)
(* go on to rotate the token, logout to revoke.  The handler samples the   *)
(* clock right after it has read the session row: one instant here.        *)
SessionPrepare(w, s, kind, counter) ==
    /\ Idle(w)
    /\ SessionAccepted(s, counter)
    /\ CardAllowsUntil(s) # 0
    /\ calls' = calls \cup
          {[w |-> w, kind |-> kind, sid |-> s, token |-> sessions[s].token,
            counter |-> counter, at |-> now,
            expires |-> Smaller(now + SessionTTL, CardAllowsUntil(s))]}
    /\ UNCHANGED <<tables, now, logins, unbinds, enables, adjusts, revokes,
                   history>>

TokenNotCompared(r) ==
    sessions[r.sid].status = 1 /\ sessions[r.sid].counter < r.counter

StatusNotCompared(r) ==
    /\ sessions[r.sid].token = r.token
    /\ sessions[r.sid].counter < r.counter

(* WHERE id = ? AND token_hash = ? AND status = 1 AND request_counter < ?  *)
StillCurrent(r) ==
    /\ sessions[r.sid].token = r.token
    /\ sessions[r.sid].status = 1
    /\ sessions[r.sid].counter < r.counter

(* The session row after the rotation next_rotated_session has prepared.   *)
Rotated(r) ==
    [sessions EXCEPT
        ![r.sid].token = @ + 1,
        ![r.sid].counter = r.counter,
        ![r.sid].expires = r.expires,
        ![r.sid].ticketUntil = IF sessions[r.sid].ephemeral
                               THEN r.at + TicketTTL ELSE 0]

RotatesUnchecked(r) ==
    /\ r.sid \in LiveSessions
    /\ sessions' = Rotated(r)
    /\ late' = IF sessions[r.sid].expires < now THEN late \cup {r.sid} ELSE late
    /\ spent' = [spent EXCEPT ![r.sid] = @ \cup {r.token}]

(* rotate_client_session: neither the session's expiry nor its card is     *)
(* looked at again.                                                        *)
RotateSession(r) ==
    /\ r.sid \in LiveSessions
    /\ StillCurrent(r)
    /\ sessions' = Rotated(r)
    /\ late' = IF sessions[r.sid].expires < now THEN late \cup {r.sid} ELSE late
    /\ spent' = [spent EXCEPT ![r.sid] = @ \cup {r.token}]

Rotate(r) ==
    /\ r \in calls
    /\ r.kind = "rotate"
    /\ RotateSession(r)
    /\ calls' = calls \ {r}
    /\ UNCHANGED <<app, cards, devices, nonces, now, logins, unbinds, enables,
                   adjusts, revokes, granted, fair, disabledAt, accepted>>

Logout(r) ==
    /\ r \in calls
    /\ r.kind = "logout"
    /\ sessions' = Revoked({r.sid})
    /\ calls' = calls \ {r}
    /\ UNCHANGED <<app, cards, devices, nonces, now, logins, unbinds, enables,
                   adjusts, revokes, history>>

(***************************************************************************)
(* Client unbind                                                           *)
(***************************************************************************)

(* unbind up to its transaction: the request is signed with the key the    *)
(* device row holds.                                                       *)
UnbindPrepare(w, h, i) ==
    /\ Idle(w)
    /\ app.verify => \E c \in CardIds : Usable(c, h)
    /\ \E d \in DevicesOf(i) :
          /\ devices[d].key # None
          /\ unbinds' = unbinds \cup
                {[w |-> w, app |-> app, hash |-> h, inst |-> i,
                  key |-> devices[d].key, at |-> now]}
    /\ UNCHANGED <<tables, now, logins, calls, enables, adjusts, revokes,
                   history>>

UnbindOneTooMany(r, card) ==
    card.unbindLimit > 0 => card.unbindCount <= card.unbindLimit

(* assert_client_unbind_allowed                                            *)
UnbindAllowed(r, card) ==
    /\ card.unbindLimit > 0 => card.unbindCount < card.unbindLimit
    /\ \/ r.app.interval = 0
       \/ card.lastUnbound = 0
       \/ card.lastUnbound + r.app.interval <= r.at

Deducted(duration, seconds) == Larger(Minus(duration, seconds), MinDuration)

(* record_client_card_unbind_in_transaction                                *)
UnboundCard(r, card) ==
    [card EXCEPT
        !.duration = IF card.type = "time"
                     THEN Deducted(@, r.app.deductSeconds) ELSE @,
        !.remaining = IF card.type = "count"
                      THEN Minus(@, r.app.deductUses) ELSE @,
        !.unbindCount = @ + 1,
        !.lastUnbound = r.at]

AnyKey(r) == DevicesOf(r.inst)

(* The row of the installation, if it still holds the key that was checked *)
(* before the transaction.                                                 *)
SignedDevices(r) == {d \in DevicesOf(r.inst) : devices[d].key = r.key}

(* unbind_client_device: the device row is locked first, then the card.    *)
UnbindCommit(r) ==
    /\ r \in unbinds
    /\ \E d \in SignedDevices(r) :
          /\ devices' = DevicesRemoved({d})
          /\ sessions' = WithoutDevices({d})
    /\ \/ /\ r.app.verify
          /\ \E c \in LiveCards :
                LET card == cards[c]
                IN  /\ card.hash = r.hash
                    /\ card.status # 2
                    /\ ExpiryOf(card, card.usedAt, now) >= r.at
                    /\ UnbindAllowed(r, card)
                    /\ cards' = [cards EXCEPT ![c] = UnboundCard(r, card)]
                    /\ fair' = IF card.type = "time"
                               THEN [fair EXCEPT ![c] =
                                        Deducted(@, r.app.deductSeconds)]
                               ELSE fair
       \/ /\ ~r.app.verify
          /\ UNCHANGED <<cards, fair>>
    /\ unbinds' = unbinds \ {r}
    /\ UNCHANGED <<app, nonces, now, logins, calls, enables, adjusts, revokes,
                   late, spent, granted, disabledAt, accepted>>

(***************************************************************************)
(* Operator console: cards                                                 *)
(***************************************************************************)

NewCard(spec) ==
    [row |-> "live", hash |-> spec.hash, type |-> spec.type, status |-> 0,
     usedAt |-> 0, duration |-> spec.duration, total |-> spec.total,
     remaining |-> spec.total, maxDevices |-> spec.maxDevices,
     unbindLimit |-> spec.unbindLimit, unbindCount |-> 0, lastUnbound |-> 0]

(* create_cards and import_cards                                           *)
CreateCard(c, spec) ==
    /\ cards[c].row = "unborn"
    /\ \A x \in LiveCards : cards[x].hash # spec.hash
    /\ cards' = [cards EXCEPT ![c] = NewCard(spec)]
    /\ fair' = [fair EXCEPT ![c] = spec.duration]
    /\ UNCHANGED <<app, devices, sessions, nonces, now, inflight, late,
                   spent, granted, disabledAt, accepted>>

(* The cards activated in a range of dates.                                *)
Activated(from, to) ==
    {c \in LiveCards : cards[c].usedAt # 0 /\ cards[c].usedAt \in from..to}

(* Revoke one card, disable a batch, or disable an activation range.       *)
DisableCards(S) ==
    /\ S \subseteq LiveCards
    /\ cards' = [c \in CardIds |->
          IF c \in S THEN [cards[c] EXCEPT !.status = 2] ELSE cards[c]]
    /\ disabledAt' = [c \in CardIds |->
          IF c \in S /\ cards[c].status # 2 THEN now ELSE disabledAt[c]]
    /\ UNCHANGED <<app, devices, sessions, nonces, now, inflight, late,
                   spent, granted, fair, accepted>>

(* set_card_status(enable): the status to write is chosen from the row     *)
(* that was read (enabled_card_status) ...                                 *)
EnableCardRead(w, c) ==
    /\ Idle(w)
    /\ c \in LiveCards
    /\ enables' = enables \cup
          {[w |-> w, card |-> c, value |-> IF cards[c].usedAt # 0 THEN 1 ELSE 0]}
    /\ UNCHANGED <<tables, now, logins, calls, unbinds, adjusts, revokes,
                   history>>

(* ... and written whatever the row holds by then.                         *)
EnableCardWrite(r) ==
    /\ r \in enables
    /\ cards' = [c \in CardIds |->
          IF c = r.card /\ c \in LiveCards
          THEN [cards[c] EXCEPT !.status = r.value] ELSE cards[c]]
    /\ enables' = enables \ {r}
    /\ UNCHANGED <<app, devices, sessions, nonces, now, logins, calls, unbinds,
                   adjusts, revokes, history>>

EnableActivated(S) ==
    /\ cards' = [c \in CardIds |->
          IF c \in S THEN [cards[c] EXCEPT !.status = 1] ELSE cards[c]]
    /\ UNCHANGED <<app, devices, sessions, nonces, now, inflight, history>>

(* adjusted_card_duration, and the CASE / LEAST / GREATEST of the range    *)
(* statement.                                                              *)
Adjusted(duration, amount, up) ==
    IF up THEN Smaller(duration + amount, MaxDuration)
          ELSE Larger(Minus(duration, amount), MinDuration)

(* adjust_card_duration and batch_adjust_card_duration: the new duration   *)
(* is computed from the row that was read ...                              *)
AdjustRead(w, c, amount, up) ==
    /\ Idle(w)
    /\ c \in LiveCards
    /\ cards[c].type = "time"
    /\ adjusts' = adjusts \cup
          {[w |-> w, card |-> c, amount |-> amount, up |-> up,
            value |-> Adjusted(cards[c].duration, amount, up)]}
    /\ UNCHANGED <<tables, now, logins, calls, unbinds, enables, revokes,
                   history>>

(* ... and overwrites the column.                                          *)
AdjustWrite(r) ==
    /\ r \in adjusts
    /\ cards' = [c \in CardIds |->
          IF c = r.card /\ c \in LiveCards
          THEN [cards[c] EXCEPT !.duration = r.value] ELSE cards[c]]
    /\ fair' = [fair EXCEPT ![r.card] =
          IF r.card \in LiveCards THEN Adjusted(@, r.amount, r.up) ELSE @]
    /\ adjusts' = adjusts \ {r}
    /\ UNCHANGED <<app, devices, sessions, nonces, now, logins, calls, unbinds,
                   enables, revokes, late, spent, granted, disabledAt, accepted>>

TimeCards(S) == {c \in S : cards[c].type = "time"}

AdjustActivated(S, amount, up) ==
    /\ cards' = [c \in CardIds |->
          IF c \in TimeCards(S)
          THEN [cards[c] EXCEPT !.duration = Adjusted(@, amount, up)]
          ELSE cards[c]]
    /\ fair' = [c \in CardIds |->
          IF c \in TimeCards(S) THEN Adjusted(fair[c], amount, up) ELSE fair[c]]
    /\ UNCHANGED <<app, devices, sessions, nonces, now, inflight, late,
                   spent, granted, disabledAt, accepted>>

EndUnexpiredOf(S) ==
    Revoked({s \in SessionIds : Active(s) /\ \E c \in S :
                OnCard(s, c, cards[c].hash)})

(* revoke_card_sessions                                                    *)
EndSessionsOf(S) ==
    Revoked({s \in SessionIds : \E c \in S : OnCard(s, c, cards[c].hash)})

(* Back to an unused card of the given duration; the sessions of the card  *)
(* end.  One card or an activation range, in one transaction.              *)
ResetDuration(S, duration) ==
    /\ S \subseteq LiveCards
    /\ cards' = [c \in CardIds |->
          IF c \in TimeCards(S)
          THEN [cards[c] EXCEPT !.status = 0, !.usedAt = 0,
                                !.duration = duration]
          ELSE cards[c]]
    /\ sessions' = EndSessionsOf(TimeCards(S))
    /\ fair' = [c \in CardIds |->
          IF c \in TimeCards(S) THEN duration ELSE fair[c]]
    /\ UNCHANGED <<app, devices, nonces, now, inflight, late, spent, granted,
                   disabledAt, accepted>>

ResetUses(S) ==
    LET counted == {c \in S : cards[c].type = "count"}
    IN  /\ S \subseteq LiveCards
        /\ cards' = [c \in CardIds |->
              IF c \in counted
              THEN [cards[c] EXCEPT !.remaining = cards[c].total]
              ELSE cards[c]]
        /\ granted' = [c \in CardIds |->
              IF c \in counted THEN 0 ELSE granted[c]]
        /\ UNCHANGED <<app, devices, sessions, nonces, now, inflight, late,
                       spent, fair, disabledAt, accepted>>

(* Devices and sessions of a deleted card lose its id (ON DELETE SET NULL) *)
(* and keep its hash.                                                      *)
DeleteCards(S) ==
    /\ S \subseteq LiveCards
    /\ cards' = [c \in CardIds |->
          IF c \in S THEN [NoCard EXCEPT !.row = "deleted"] ELSE cards[c]]
    /\ devices' = [d \in DeviceIds |->
          IF devices[d].card \in S THEN [devices[d] EXCEPT !.card = None]
                                   ELSE devices[d]]
    /\ sessions' = [s \in SessionIds |->
          IF sessions[s].card \in S THEN [sessions[s] EXCEPT !.card = None]
                                    ELSE sessions[s]]
    /\ UNCHANGED <<app, nonces, now, inflight, history>>

(***************************************************************************)
(* Operator console: devices, settings, cleanup                            *)
(***************************************************************************)

DevicesWithStatus(S, status) ==
    [d \in DeviceIds |->
        IF d \in S THEN [devices[d] EXCEPT !.status = status] ELSE devices[d]]

ActiveOn(S) == {s \in LiveSessions : Active(s) /\ sessions[s].device \in S}

SessionsOn(S) == {s \in LiveSessions : sessions[s].device \in S}

(* set_device_status(disable): the device row in one statement ...         *)
DisableDevice(w, d) ==
    /\ Idle(w)
    /\ d \in LiveDevices
    /\ devices' = DevicesWithStatus({d}, 0)
    /\ revokes' = revokes \cup {[w |-> w, device |-> d]}
    /\ UNCHANGED <<app, cards, sessions, nonces, now, logins, calls, unbinds,
                   enables, adjusts, history>>

(* ... its sessions in the next.                                           *)
RevokeDevice(r) ==
    /\ r \in revokes
    /\ sessions' = Revoked(SessionsOn({r.device}))
    /\ revokes' = revokes \ {r}
    /\ UNCHANGED <<app, cards, devices, nonces, now, logins, calls, unbinds,
                   enables, adjusts, history>>

(* batch_card_devices_status(disable): both in one transaction.            *)
DisableDevices(S) ==
    /\ S \subseteq LiveDevices
    /\ devices' = DevicesWithStatus(S, 0)
    /\ sessions' = Revoked(SessionsOn(S))
    /\ UNCHANGED <<app, cards, nonces, now, inflight, history>>

EnableDevices(S) ==
    /\ S \subseteq LiveDevices
    /\ devices' = DevicesWithStatus(S, 1)
    /\ UNCHANGED <<app, cards, sessions, nonces, now, inflight, history>>

DeleteDevices(S) ==
    /\ S \subseteq LiveDevices
    /\ devices' = DevicesRemoved(S)
    /\ sessions' = WithoutDevices(S)
    /\ UNCHANGED <<app, cards, nonces, now, inflight, history>>

(* update_app_settings; switching the address check off forgets every      *)
(* bound region.                                                           *)
UpdateApp(setting) ==
    /\ app' = setting
    /\ devices' = [d \in DeviceIds |->
          IF setting.ipBinding THEN devices[d]
                               ELSE [devices[d] EXCEPT !.region = None]]
    /\ UNCHANGED <<cards, sessions, nonces, now, inflight, history>>

(* cleanup_nonces: one DELETE per table, with the time the handler started *)
(* at, and nothing that ties one to the next.                              *)
ForgetNonces(at) ==
    /\ nonces' = {ch \in nonces : ch.expires >= at}
    /\ UNCHANGED <<app, cards, devices, sessions, now, inflight, history>>

ForgetSessions(at) ==
    /\ sessions' = [s \in SessionIds |->
          IF s \in LiveSessions
             /\ (sessions[s].expires < at \/ sessions[s].status = 0)
          THEN [NoSession EXCEPT !.row = "deleted"]
          ELSE sessions[s]]
    /\ UNCHANGED <<app, cards, devices, nonces, now, inflight, history>>

Cleanup == \E at \in 1..now : ForgetNonces(at) \/ ForgetSessions(at)

Tick ==
    /\ now < MaxTime
    /\ now' = now + 1
    /\ UNCHANGED <<tables, inflight, history>>

(* A request in flight is refused by its transaction, finds its row gone,  *)
(* loses its connection, or the process stops.                             *)
Drop ==
    /\ \/ \E r \in logins : logins' = logins \ {r} /\ UNCHANGED <<calls, unbinds, enables, adjusts, revokes>>
       \/ \E r \in calls : calls' = calls \ {r} /\ UNCHANGED <<logins, unbinds, enables, adjusts, revokes>>
       \/ \E r \in unbinds : unbinds' = unbinds \ {r} /\ UNCHANGED <<logins, calls, enables, adjusts, revokes>>
       \/ \E r \in enables : enables' = enables \ {r} /\ UNCHANGED <<logins, calls, unbinds, adjusts, revokes>>
       \/ \E r \in adjusts : adjusts' = adjusts \ {r} /\ UNCHANGED <<logins, calls, unbinds, enables, revokes>>
       \/ \E r \in revokes : revokes' = revokes \ {r} /\ UNCHANGED <<logins, calls, unbinds, enables, adjusts>>
    /\ UNCHANGED <<tables, now, history>>

-----------------------------------------------------------------------------
Login ==
    \/ \E w \in Workers, h \in Hashes, ch \in Challenges, g \in Regions :
          LoginPrepare(w, h, ch, g)
    \/ \E r \in logins, s \in SessionIds :
          \/ \E c \in CardIds : LoginCommit(r, c, s)
          \/ \E d \in DeviceIds : LoginCommitVirtual(r, d, s)
    \/ \E r \in logins : LoginSnapshot(r)

SessionRequest ==
    \/ /\ "heartbeat" \in Ops
       /\ \E w \in Workers, s \in SessionIds, n \in 1..MaxCounter :
             SessionPrepare(w, s, "rotate", n)
    \/ /\ "logout" \in Ops
       /\ \E w \in Workers, s \in SessionIds, n \in 1..MaxCounter :
             SessionPrepare(w, s, "logout", n)
    \/ \E r \in calls : Rotate(r) \/ Logout(r)

Unbind ==
    \/ /\ "unbind" \in Ops
       /\ \E w \in Workers, h \in Hashes, i \in Installs : UnbindPrepare(w, h, i)
    \/ \E r \in unbinds : UnbindCommit(r)

Batches(S) == SUBSET S \ {{}}

CardEdit ==
    \/ \E c \in CardIds, spec \in CardSpecs : CreateCard(c, spec)
    \/ "disableCards" \in Ops /\ \E S \in Batches(LiveCards) : DisableCards(S)
    \/ /\ "enableCard" \in Ops
       /\ \E w \in Workers, c \in CardIds : EnableCardRead(w, c)
    \/ \E r \in enables : EnableCardWrite(r)
    \/ /\ "adjust" \in Ops
       /\ \E w \in Workers, c \in CardIds, n \in Amounts, up \in BOOLEAN :
             AdjustRead(w, c, n, up)
    \/ \E r \in adjusts : AdjustWrite(r)
    \/ /\ "resetDuration" \in Ops
       /\ \E c \in LiveCards, n \in Amounts : ResetDuration({c}, n)
    \/ "resetUses" \in Ops /\ \E S \in Batches(LiveCards) : ResetUses(S)
    \/ "deleteCards" \in Ops /\ \E S \in Batches(LiveCards) : DeleteCards(S)

RangeEdit ==
    /\ "range" \in Ops
    /\ \E from, to \in 1..now :
          LET S == Activated(from, to)
          IN  /\ S # {}
              /\ \/ EnableActivated(S)
                 \/ DisableCards(S)
                 \/ ResetUses(S)
                 \/ DeleteCards(S)
                 \/ \E n \in Amounts :
                       \/ ResetDuration(S, n)
                       \/ \E up \in BOOLEAN : AdjustActivated(S, n, up)

DeviceEdit ==
    \/ /\ "disableDevice" \in Ops
       /\ \E w \in Workers, d \in DeviceIds : DisableDevice(w, d)
    \/ \E r \in revokes : RevokeDevice(r)
    \/ "disableDevices" \in Ops /\ \E S \in Batches(LiveDevices) : DisableDevices(S)
    \/ "enableDevices" \in Ops /\ \E S \in Batches(LiveDevices) : EnableDevices(S)
    \/ "deleteDevices" \in Ops /\ \E S \in Batches(LiveDevices) : DeleteDevices(S)

Next ==
    \/ Login
    \/ SessionRequest
    \/ Unbind
    \/ CardEdit
    \/ RangeEdit
    \/ DeviceEdit
    \/ "updateApp" \in Ops /\ \E a \in Settings \ {app} : UpdateApp(a)
    \/ Tick
    \/ "cleanup" \in Ops /\ Cleanup
    \/ "drop" \in Ops /\ Drop

Spec == Init /\ [][Next]_vars

-----------------------------------------------------------------------------
(* Type invariant: every table holds rows of its schema and every request  *)
(* in flight carries what its handler carries.                             *)
TypeOK ==
    /\ app \in Settings
    /\ cards \in [CardIds -> CardRow]
    /\ devices \in [DeviceIds -> DeviceRow]
    /\ sessions \in [SessionIds -> SessionRow]
    /\ nonces \subseteq Challenges
    /\ now \in Nat
    /\ logins \subseteq LoginRequest
    /\ calls \subseteq SessionCall
    /\ unbinds \subseteq UnbindRequest
    /\ enables \subseteq EnableEdit
    /\ adjusts \subseteq AdjustEdit
    /\ revokes \subseteq RevokeEdit
    /\ late \subseteq SessionIds
    /\ spent \in [SessionIds -> SUBSET Nat]
    /\ granted \in [CardIds -> Nat]
    /\ fair \in [CardIds -> Nat]
    /\ disabledAt \in [CardIds -> Nat]
    /\ accepted \in [Challenges -> Nat]

(* Sessions of one card alive at once on two different devices.            *)
SharedBy(s, t) ==
    /\ Active(s) /\ Active(t)
    /\ sessions[s].hash = sessions[t].hash
    /\ sessions[s].device # None /\ sessions[t].device # None
    /\ sessions[s].device # sessions[t].device

AlwaysSingle == \A a \in Settings : a.verify /\ ~a.shared

(* Single login: where cards are verified and never shared, two devices    *)
(* hold live sessions of one card only if one of the sessions was rotated  *)
(* by a request that passed its checks before the session expired and      *)
(* wrote after.  assert_client_login_session_allowed checks at login time  *)
(* only; everything that happens later has to keep it.                     *)
SingleLogin ==
    AlwaysSingle =>
        \A s, t \in SessionIds : SharedBy(s, t) => s \in late \/ t \in late

(* What the schema promises of shared_cards_enabled = 0 ("single login"),  *)
(* with no exception for late rotations.                                   *)
SingleDevicePerCard ==
    (\A a \in Settings : ~a.shared) =>
        \A s, t \in SessionIds : ~SharedBy(s, t)

(* A count card never grants more logins than it was filled with, whatever *)
(* logins, unbind charges and refills run into each other.                 *)
CountConserved ==
    \A c \in LiveCards : cards[c].type = "count" =>
        granted[c] + cards[c].remaining <= cards[c].total

(* A disabled card runs dry: heartbeats prepared before the card was       *)
(* disabled may still be written, however late, but no session of the card *)
(* lasts longer than one session TTL after it was disabled.                *)
DisabledCardDrains ==
    \A c \in LiveCards, s \in LiveSessions :
        cards[c].status = 2 /\ sessions[s].card = c =>
            sessions[s].expires <= disabledAt[c] + SessionTTL

(* The sessions table seen as leases: a row with status 1 is held, whether *)
(* or not it has expired; it can still be rotated.                         *)
InForce(s) == s \in LiveSessions /\ sessions[s].status = 1

Leases ==
    [s \in SessionIds |->
        IF sessions[s].row = "unborn" THEN "none"
        ELSE IF InForce(s) THEN "held" ELSE "ended"]

Tokens == [s \in SessionIds |-> IF InForce(s) THEN sessions[s].token ELSE 0]

Lease == INSTANCE SessionLease WITH lease <- Leases, current <- Tokens

(* Sessions are leases: a token is exchanged for its successor once,       *)
(* however many requests present it side by side, and no request that was  *)
(* in flight brings back a session that was revoked, deleted or replaced.  *)
LeaseSpec == Lease!LeaseSpec

(* A request that passed its checks before a session was revoked writes    *)
(* nothing to its row afterwards: not a token, a counter or an expiry.     *)
RevokedForever ==
    [][\A s \in LiveSessions :
          (sessions[s].status = 0 /\ sessions'[s].row = "live") =>
              /\ sessions'[s].status = 0
              /\ sessions'[s].token = sessions[s].token
              /\ sessions'[s].counter = sessions[s].counter
              /\ sessions'[s].expires = sessions[s].expires]_vars

(* A login challenge authorises no second login while it is valid, though  *)
(* copies of it pass the handler's checks side by side.                    *)
ChallengeOncePerLife ==
    [][\A ch \in Challenges :
          (ch.id # None /\ now <= ch.expires /\ accepted'[ch] # accepted[ch])
              => accepted[ch] = 0]_vars

(* What the schema calls auth_nonces: protection against replay.           *)
ChallengeOnce == \A ch \in Challenges : ch.id # None => accepted[ch] <= 1

(* Concurrent unbinds never take a card over its unbind limit.             *)
UnbindWithinLimit ==
    \A c \in LiveCards :
        cards[c].unbindLimit > 0 => cards[c].unbindCount <= cards[c].unbindLimit

(* A card is charged for an unbind only in the step that removes a device  *)
(* row, and the row holds the key that signed the request: a repeated      *)
(* request, or one that finds the installation registered again under      *)
(* another key, costs nothing.                                             *)
UnbindPaysForDevice ==
    [][\A c \in LiveCards :
          (/\ cards'[c].row = "live"
           /\ cards'[c].unbindCount # cards[c].unbindCount) =>
              /\ cards'[c].unbindCount = cards[c].unbindCount + 1
              /\ \E d \in LiveDevices, r \in unbinds :
                    /\ devices'[d].row = "deleted"
                    /\ r \notin unbinds'
                    /\ devices[d].inst = r.inst
                    /\ devices[d].key = r.key]_vars

(* Once a device row has a key it keeps it until the row is deleted.       *)
KeySticky ==
    [][\A d \in LiveDevices :
          (devices[d].key # None /\ devices'[d].row = "live") =>
              devices'[d].key = devices[d].key]_vars

(* A disabled device has no session left to use once the operator's        *)
(* request is over: a login that slips between the two statements of       *)
(* set_device_status finds the device disabled.                            *)
DisabledDeviceIsQuiet ==
    \A d \in LiveDevices :
        (devices[d].status = 0 /\ ~\E r \in revokes : r.device = d) =>
            \A s \in LiveSessions :
                sessions[s].device = d => sessions[s].status = 0

(* Resetting a card ends every use of it: while a card counts as not yet   *)
(* used, no session that names it can be renewed or used, whatever         *)
(* heartbeats and logins were in flight when the operator reset it.        *)
UnusedCardHasNoSession ==
    \A c \in LiveCards, s \in LiveSessions :
        cards[c].usedAt = 0 /\ sessions[s].card = c => sessions[s].status = 0

(* The schema's reading of auth_cards.status: 0 is an unused card.         *)
UnusedIsUnactivated ==
    \A c \in LiveCards : cards[c].status = 0 => cards[c].usedAt = 0

(* Every deduction and every adjustment of a duration counts.              *)
NoLostAdjustment == \A c \in LiveCards : cards[c].duration = fair[c]
=============================================================================
