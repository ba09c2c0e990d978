------------------------- MODULE ClientAuth_proofs -------------------------
(* Proofs about ClientAuth: what its properties say holds for every value  *)
(* of the constants.                                                       *)
(*                                                                         *)
(* Type correctness and single login go action by action.  The others rest *)
(* on four lemmas that say what any step may do to one row of a table:     *)
(* SessionWrites, CardWrites, DeviceWrites, and Arrivals for the requests  *)
(* in flight and the challenges.  The last section shows that its sessions *)
(* implement the leases of SessionLease.                                   *)
EXTENDS ClientAuth, TLAPS

-----------------------------------------------------------------------------
(* Rows                                                                    *)

LEMMA Bounds ==
    /\ MinDuration \in Nat /\ MaxDuration \in Nat
    /\ SessionTTL \in Nat /\ TicketTTL \in Nat
    /\ DeviceFloor \in Nat /\ Forever \in Nat /\ MaxTime \in Nat
    /\ MaxCounter \in Nat
BY ConstantTypes

LEMMA Arithmetic ==
    ASSUME NEW m \in Nat, NEW n \in Nat
    PROVE  /\ Larger(m, n) \in Nat
           /\ Smaller(m, n) \in Nat
           /\ Minus(m, n) \in Nat
BY DEF Larger, Smaller, Minus

(* A card's expiry is a time.                                              *)
LEMMA ExpiryType ==
    ASSUME NEW card \in CardRow, NEW u \in Nat, NEW a \in Nat
    PROVE  ExpiryOf(card, u, a) \in Nat
BY Bounds DEF ExpiryOf, CardRow, Larger

LEMMA BlankRows ==
    /\ NoCard \in CardRow
    /\ NoDevice \in DeviceRow
    /\ NoSession \in SessionRow
BY DEF NoCard, NoDevice, NoSession, CardRow, DeviceRow, SessionRow, RowState,
       CardType

(* The bulk updates of the sessions table keep its schema.                 *)
LEMMA RevokedType ==
    ASSUME sessions \in [SessionIds -> SessionRow], NEW S
    PROVE  Revoked(S) \in [SessionIds -> SessionRow]
BY DEF Revoked, SessionRow

LEMMA GoneCardType == [NoCard EXCEPT !.row = "deleted"] \in CardRow
BY BlankRows DEF CardRow, RowState

LEMMA GoneDeviceType == [NoDevice EXCEPT !.row = "deleted"] \in DeviceRow
BY BlankRows DEF DeviceRow, RowState

LEMMA GoneSessionType == [NoSession EXCEPT !.row = "deleted"] \in SessionRow
BY BlankRows DEF SessionRow, RowState

LEMMA SessionColumns ==
    ASSUME NEW session \in SessionRow, NEW token \in Nat,
           NEW counter \in Nat, NEW expires \in Nat, NEW ticket \in Nat
    PROVE  [session EXCEPT !.token = token, !.counter = counter,
                !.expires = expires, !.ticketUntil = ticket] \in SessionRow
BY DEF SessionRow

LEMMA WithoutDevicesType ==
    ASSUME sessions \in [SessionIds -> SessionRow], NEW S
    PROVE  WithoutDevices(S) \in [SessionIds -> SessionRow]
BY GoneSessionType DEF WithoutDevices

LEMMA DevicesRemovedType ==
    ASSUME devices \in [DeviceIds -> DeviceRow], NEW S
    PROVE  DevicesRemoved(S) \in [DeviceIds -> DeviceRow]
BY GoneDeviceType DEF DevicesRemoved

(* Assigning one column of a card a value of its type.                     *)
LEMMA CardColumn ==
    ASSUME NEW card \in CardRow, NEW n \in Nat
    PROVE  /\ [card EXCEPT !.usedAt = n] \in CardRow
           /\ [card EXCEPT !.duration = n] \in CardRow
           /\ [card EXCEPT !.remaining = n] \in CardRow
           /\ [card EXCEPT !.unbindCount = n] \in CardRow
           /\ [card EXCEPT !.lastUnbound = n] \in CardRow
BY DEF CardRow

LEMMA CardStatus ==
    ASSUME NEW card \in CardRow, NEW n \in 0..2
    PROVE  [card EXCEPT !.status = n] \in CardRow
BY DEF CardRow

LEMMA ResetRow ==
    ASSUME NEW card \in CardRow, NEW n \in Nat
    PROVE  [card EXCEPT !.status = 0, !.usedAt = 0, !.duration = n] \in CardRow
<1> DEFINE a == [card EXCEPT !.status = 0]
           b == [a EXCEPT !.usedAt = 0]
<1>1. a \in CardRow
  BY 0 \in 0..2, CardStatus
<1> HIDE DEF a
<1>2. b \in CardRow
  BY <1>1, 0 \in Nat, CardColumn
<1> HIDE DEF b
<1>3. [b EXCEPT !.duration = n] \in CardRow
  BY <1>2, CardColumn
<1> QED
  BY <1>3 DEF a, b

LEMMA ChargedType ==
    ASSUME NEW card \in CardRow, NEW at \in Nat
    PROVE  ChargedCard(card, at) \in CardRow
<1> DEFINE first == card.status = 0 \/ card.usedAt = 0
           st == IF first THEN 1 ELSE card.status
           us == IF first /\ card.usedAt = 0 THEN at ELSE card.usedAt
           re == IF card.type = "count" THEN Minus(card.remaining, 1)
                                        ELSE card.remaining
<1>1. card.remaining \in Nat /\ Minus(card.remaining, 1) \in Nat
  BY Arithmetic DEF CardRow
<1>2. st \in 0..2 /\ us \in Nat /\ re \in Nat
  BY <1>1 DEF CardRow
<1> DEFINE a == [card EXCEPT !.status = st]
           b == [a EXCEPT !.usedAt = us]
<1>3. ChargedCard(card, at) = [b EXCEPT !.remaining = re]
  BY DEF ChargedCard
<1> HIDE DEF st, us, re
<1>4. a \in CardRow
  BY <1>2, CardStatus
<1> HIDE DEF a
<1>5. b \in CardRow
  BY <1>2, <1>4, CardColumn
<1> HIDE DEF b
<1> QED
  BY <1>2, <1>3, <1>5, CardColumn

LEMMA DeductedType ==
    ASSUME NEW n \in Nat, NEW m \in Nat
    PROVE  Deducted(n, m) \in Nat
BY Bounds DEF Deducted, Minus, Larger

LEMMA UnboundType ==
    ASSUME NEW card \in CardRow, NEW r \in UnbindRequest
    PROVE  UnboundCard(r, card) \in CardRow
<1>1. r.at \in Nat /\ r.app.deductSeconds \in Nat /\ r.app.deductUses \in Nat
  BY ConstantTypes DEF UnbindRequest, Setting
<1>2. card.duration \in Nat /\ card.remaining \in Nat
  BY DEF CardRow
<1>3. Deducted(card.duration, r.app.deductSeconds) \in Nat
  BY <1>1, <1>2, DeductedType
<1>4. Minus(card.remaining, r.app.deductUses) \in Nat
  BY <1>1, <1>2, Arithmetic
<1> DEFINE du == IF card.type = "time"
                 THEN Deducted(card.duration, r.app.deductSeconds)
                 ELSE card.duration
           re == IF card.type = "count"
                 THEN Minus(card.remaining, r.app.deductUses)
                 ELSE card.remaining
           un == card.unbindCount + 1
<1>5. du \in Nat /\ re \in Nat /\ un \in Nat
  BY <1>2, <1>3, <1>4 DEF CardRow
<1> DEFINE a == [card EXCEPT !.duration = du]
           b == [a EXCEPT !.remaining = re]
           c == [b EXCEPT !.unbindCount = un]
<1>6. UnboundCard(r, card) = [c EXCEPT !.lastUnbound = r.at]
  BY DEF UnboundCard
<1> HIDE DEF du, re, un
<1>7. a \in CardRow
  BY <1>5, CardColumn
<1> HIDE DEF a
<1>8. b \in CardRow
  BY <1>5, <1>7, CardColumn
<1> HIDE DEF b
<1>9. c \in CardRow
  BY <1>5, <1>8, CardColumn
<1> HIDE DEF c
<1> QED
  BY <1>1, <1>6, <1>9, CardColumn

LEMMA AdjustedType ==
    ASSUME NEW n \in Nat, NEW amount \in Amounts, NEW up \in BOOLEAN
    PROVE  Adjusted(n, amount, up) \in Nat
BY ConstantTypes DEF Adjusted, Larger, Smaller, Minus

LEMMA BoundDeviceType ==
    ASSUME NEW r \in LoginRequest, NEW dev \in DeviceRow,
           NEW c \in CardIds \cup {None}
    PROVE  BoundDevice(r, c, dev) \in DeviceRow
BY DEF BoundDevice, LoginRequest, DeviceRow, RowState

LEMMA OpenSessionType ==
    ASSUME sessions \in [SessionIds -> SessionRow],
           NEW r \in LoginRequest, NEW c \in CardIds \cup {None},
           NEW d \in DeviceIds \cup {None}, NEW s \in SessionIds,
           NEW expiry \in Nat, OpenSession(r, c, d, s, expiry)
    PROVE  sessions' \in [SessionIds -> SessionRow]
<1> DEFINE row == [row |-> "live", status |-> 1, token |-> 0, counter |-> 0,
                   expires |-> Smaller(r.at + SessionTTL, expiry),
                   device |-> d, card |-> c, hash |-> r.hash,
                   ephemeral |-> r.key = None,
                   ticketUntil |-> IF r.key = None THEN r.at + TicketTTL ELSE 0]
<1>1. row \in SessionRow
  <2>1. r.at \in Nat /\ r.hash \in Hashes
    BY DEF LoginRequest
  <2>2. Smaller(r.at + SessionTTL, expiry) \in Nat
    BY <2>1, Bounds DEF Smaller
  <2>3. (IF r.key = None THEN r.at + TicketTTL ELSE 0) \in Nat
    BY <2>1, Bounds
  <2> HIDE DEF Smaller
  <2> QED
    BY <2>1, <2>2, <2>3 DEF SessionRow, RowState
<1>2. \A S : Revoked(S) \in [SessionIds -> SessionRow]
  BY RevokedType
<1> QED
  BY <1>1, <1>2 DEF OpenSession

-----------------------------------------------------------------------------
(* Type correctness                                                        *)

LEMMA TypeInit == Init => TypeOK
BY BlankRows DEF Init, TypeOK

LEMMA LoginType == TypeOK /\ Login => TypeOK'
<1> SUFFICES ASSUME TypeOK, Login PROVE TypeOK'
  OBVIOUS
<1>1. ASSUME NEW w \in Workers, NEW h \in Hashes, NEW ch \in Challenges,
             NEW g \in Regions, LoginPrepare(w, h, ch, g)
      PROVE  TypeOK'
  <2>1. ch.inst \in Installs /\ ch.key \in Keys \cup {None}
    BY ConstantTypes DEF Challenge
  <2> DEFINE key == ProvenKey(h, ch)
             region == IF app.ipBinding THEN g ELSE None
             request == [w |-> w, app |-> app, hash |-> h, inst |-> ch.inst,
                         key |-> key, region |-> region, ch |-> ch,
                         at |-> now, alone |-> FALSE]
  <2>2. logins' \subseteq LoginRequest
    <3>1. logins' = logins \cup {request}
      BY <1>1 DEF LoginPrepare
    <3>2. key \in Keys \cup {None} /\ region \in Regions \cup {None}
      BY <2>1 DEF ProvenKey
    <3> HIDE DEF key, region
    <3>3. request \in LoginRequest
      BY <2>1, <3>2 DEF LoginRequest, TypeOK
    <3> QED
      BY <3>1, <3>3 DEF TypeOK
  <2> QED
    BY <1>1, <2>2 DEF LoginPrepare, TypeOK, tables, history
<1>2. ASSUME NEW r \in logins, NEW s \in SessionIds, NEW c \in CardIds,
             LoginCommit(r, c, s)
      PROVE  TypeOK'
  <2> DEFINE first == cards[c].status = 0 \/ cards[c].usedAt = 0
             expiry == ExpiryOf(cards[c], IF first THEN r.at ELSE cards[c].usedAt, r.at)
  <2>1. /\ r \in LoginRequest /\ r.at \in Nat /\ r.ch \in Challenges
        /\ cards[c] \in CardRow /\ cards[c].usedAt \in Nat
    BY DEF TypeOK, LoginRequest, CardRow
  <2>2. expiry \in Nat
    BY <2>1, ExpiryType
  <2>3. cards' \in [CardIds -> CardRow]
    BY <1>2, <2>1, ChargedType DEF LoginCommit, TypeOK
  <2>4. devices' \in [DeviceIds -> DeviceRow]
    <3>1. CASE cards[c].type = "count"
      BY <1>2, <3>1 DEF LoginCommit, TypeOK
    <3>2. CASE cards[c].type # "count"
      <4>1. PICK d \in DeviceIds :
                devices' = [devices EXCEPT ![d] = BoundDevice(r, c, devices[d])]
        BY <1>2, <3>2 DEF LoginCommit
      <4>2. BoundDevice(r, c, devices[d]) \in DeviceRow
        BY <2>1, BoundDeviceType DEF TypeOK
      <4> QED
        BY <4>1, <4>2 DEF TypeOK
    <3> QED
      BY <3>1, <3>2
  <2>5. \E d \in DeviceIds \cup {None} : OpenSession(r, c, d, s, expiry)
    <3>1. CASE cards[c].type = "count"
      BY <1>2, <3>1 DEF LoginCommit
    <3>2. CASE cards[c].type # "count"
      BY <1>2, <3>2 DEF LoginCommit
    <3> QED
      BY <3>1, <3>2
  <2> HIDE DEF expiry
  <2>6. sessions' \in [SessionIds -> SessionRow]
    BY <2>1, <2>2, <2>5, OpenSessionType DEF TypeOK
  <2>7. nonces' \subseteq Challenges /\ accepted' \in [Challenges -> Nat]
    BY <1>2, <2>1 DEF LoginCommit, TypeOK
  <2>8. granted' \in [CardIds -> Nat]
    <3>1. granted' = granted \/ granted' = [granted EXCEPT ![c] = @ + 1]
      BY <1>2 DEF LoginCommit
    <3> QED
      BY <3>1 DEF TypeOK
  <2>9. logins' \subseteq LoginRequest
    BY <1>2 DEF LoginCommit, TypeOK
  <2> QED
    BY <1>2, <2>3, <2>4, <2>6, <2>7, <2>8, <2>9 DEF LoginCommit, TypeOK
<1>3. ASSUME NEW r \in logins, NEW s \in SessionIds, NEW d \in DeviceIds,
             LoginCommitVirtual(r, d, s)
      PROVE  TypeOK'
  <2>1. r \in LoginRequest /\ r.ch \in Challenges /\ devices[d] \in DeviceRow
    BY DEF TypeOK, LoginRequest
  <2>2. devices' \in [DeviceIds -> DeviceRow]
    BY <1>3, <2>1, BoundDeviceType DEF LoginCommitVirtual, TypeOK
  <2>3. sessions' \in [SessionIds -> SessionRow]
    BY <1>3, <2>1, Bounds, OpenSessionType DEF LoginCommitVirtual, TypeOK
  <2>4. nonces' \subseteq Challenges /\ accepted' \in [Challenges -> Nat]
    BY <1>3, <2>1 DEF LoginCommitVirtual, TypeOK
  <2>5. logins' \subseteq LoginRequest
    BY <1>3 DEF LoginCommitVirtual, TypeOK
  <2> QED
    BY <1>3, <2>2, <2>3, <2>4, <2>5 DEF LoginCommitVirtual, TypeOK
<1>4. ASSUME NEW r \in logins, LoginSnapshot(r) PROVE TypeOK'
  <2>1. [r EXCEPT !.alone = TRUE] \in LoginRequest
    BY DEF TypeOK, LoginRequest
  <2>2. logins' \subseteq LoginRequest
    BY <1>4, <2>1 DEF LoginSnapshot, TypeOK
  <2> QED
    BY <1>4, <2>2 DEF LoginSnapshot, TypeOK, tables, history
<1> QED
  BY <1>1, <1>2, <1>3, <1>4 DEF Login

LEMMA CardAllowsType ==
    ASSUME TypeOK, NEW s \in SessionIds
    PROVE  CardAllowsUntil(s) \in Nat
<1>1. sessions[s] \in SessionRow /\ now \in Nat
  BY DEF TypeOK
<1>2. CASE sessions[s].card = None
  BY <1>2, Bounds DEF CardAllowsUntil
<1>3. CASE sessions[s].card # None
  <2>1. /\ cards[sessions[s].card] \in CardRow
        /\ cards[sessions[s].card].usedAt \in Nat
    BY <1>1, <1>3 DEF SessionRow, CardRow, TypeOK
  <2>2. ExpiryOf(cards[sessions[s].card], cards[sessions[s].card].usedAt,
                 now) \in Nat
    BY <1>1, <2>1, ExpiryType
  <2> QED
    BY <1>3, <2>2 DEF CardAllowsUntil
<1> QED
  BY <1>2, <1>3

(* Until when a session request lets its session run.                      *)
LEMMA RequestExpiryType ==
    ASSUME TypeOK, NEW s \in SessionIds
    PROVE  Smaller(now + SessionTTL, CardAllowsUntil(s)) \in Nat
<1>1. now + SessionTTL \in Nat
  BY Bounds DEF TypeOK
<1> QED
  BY <1>1, CardAllowsType, Arithmetic

(* A rotation, of whichever handler, keeps the types of what it changes.   *)
LEMMA RotateSessionType ==
    ASSUME TypeOK, NEW r, RotateSession(r), r.sid \in SessionIds,
           r.token \in Nat, r.counter \in Nat, r.at \in Nat, r.expires \in Nat
    PROVE  /\ sessions' \in [SessionIds -> SessionRow]
           /\ late' \subseteq SessionIds
           /\ spent' \in [SessionIds -> SUBSET Nat]
<1>1. sessions[r.sid] \in SessionRow
  BY DEF TypeOK
<1> DEFINE ticket == IF sessions[r.sid].ephemeral
                     THEN r.at + TicketTTL ELSE 0
           token == sessions[r.sid].token + 1
           row == [sessions[r.sid] EXCEPT !.token = token,
                      !.counter = r.counter, !.expires = r.expires,
                      !.ticketUntil = ticket]
<1>2. sessions' = [sessions EXCEPT ![r.sid] = row]
  BY <1>1 DEF RotateSession, Rotated, TypeOK
<1>3. ticket \in Nat /\ token \in Nat
  BY <1>1, Bounds DEF SessionRow
<1> HIDE DEF ticket, token
<1>4. row \in SessionRow
  BY <1>1, <1>3, SessionColumns
<1> HIDE DEF row
<1>5. sessions' \in [SessionIds -> SessionRow]
  BY <1>2, <1>4 DEF TypeOK
<1>6. late' \subseteq SessionIds
  <2>1. late' = late \/ late' = late \cup {r.sid}
    BY DEF RotateSession
  <2> QED
    BY <2>1 DEF TypeOK
<1>7. spent' \in [SessionIds -> SUBSET Nat]
  <2>1. spent' = [spent EXCEPT ![r.sid] = @ \cup {r.token}]
    BY DEF RotateSession
  <2> QED
    BY <2>1 DEF TypeOK
<1> QED
  BY <1>5, <1>6, <1>7

LEMMA SessionRequestType == TypeOK /\ SessionRequest => TypeOK'
<1> SUFFICES ASSUME TypeOK, SessionRequest PROVE TypeOK'
  OBVIOUS
<1>1. ASSUME NEW w \in Workers, NEW s \in SessionIds, NEW n \in 1..MaxCounter,
             NEW kind \in {"rotate", "logout"}, SessionPrepare(w, s, kind, n)
      PROVE  TypeOK'
  <2> DEFINE until == Smaller(now + SessionTTL, CardAllowsUntil(s))
             call == [w |-> w, kind |-> kind, sid |-> s,
                      token |-> sessions[s].token, counter |-> n, at |-> now,
                      expires |-> until]
  <2>1. until \in Nat
    BY RequestExpiryType
  <2>2. now \in Nat /\ n \in Nat /\ sessions[s].token \in Nat
    BY Bounds DEF TypeOK, SessionRow
  <2>3. calls' = calls \cup {call}
    BY <1>1 DEF SessionPrepare
  <2> HIDE DEF until
  <2>4. call \in SessionCall
    BY <2>1, <2>2 DEF SessionCall
  <2>5. calls' \subseteq SessionCall
    BY <2>3, <2>4 DEF TypeOK
  <2> QED
    BY <1>1, <2>5 DEF SessionPrepare, TypeOK, tables, history
<1>2. ASSUME NEW r \in calls, Rotate(r) PROVE TypeOK'
  <2>1. /\ r.sid \in SessionIds /\ r.token \in Nat /\ r.counter \in Nat
        /\ r.at \in Nat /\ r.expires \in Nat
    BY DEF SessionCall, TypeOK
  <2>2. /\ sessions' \in [SessionIds -> SessionRow]
        /\ late' \subseteq SessionIds
        /\ spent' \in [SessionIds -> SUBSET Nat]
    BY <1>2, <2>1, RotateSessionType DEF Rotate
  <2> QED
    BY <1>2, <2>2 DEF Rotate, TypeOK
<1>3. ASSUME NEW r \in calls, Logout(r) PROVE TypeOK'
  BY <1>3, RevokedType DEF Logout, TypeOK, history
<1> QED
  BY <1>1, <1>2, <1>3 DEF SessionRequest

LEMMA UnbindType == TypeOK /\ Unbind => TypeOK'
<1> SUFFICES ASSUME TypeOK, Unbind PROVE TypeOK'
  OBVIOUS
<1>1. ASSUME NEW w \in Workers, NEW h \in Hashes, NEW i \in Installs,
             UnbindPrepare(w, h, i)
      PROVE  TypeOK'
  <2>1. PICK d \in DevicesOf(i) :
            /\ devices[d].key # None
            /\ unbinds' = unbinds \cup
                   {[w |-> w, app |-> app, hash |-> h, inst |-> i,
                     key |-> devices[d].key, at |-> now]}
    BY <1>1 DEF UnbindPrepare
  <2>2. devices[d].key \in Keys
    BY <2>1 DEF DevicesOf, LiveDevices, DeviceRow, TypeOK
  <2>3. unbinds' \subseteq UnbindRequest
    BY <2>1, <2>2 DEF UnbindRequest, TypeOK
  <2> QED
    BY <1>1, <2>3 DEF UnbindPrepare, TypeOK, tables, history
<1>2. ASSUME NEW r \in unbinds, UnbindCommit(r) PROVE TypeOK'
  <2>1. r \in UnbindRequest /\ r.app \in Setting
    BY ConstantTypes DEF UnbindRequest, TypeOK
  <2>2. devices' \in [DeviceIds -> DeviceRow]
    BY <1>2, DevicesRemovedType DEF UnbindCommit, TypeOK
  <2>3. sessions' \in [SessionIds -> SessionRow]
    BY <1>2, WithoutDevicesType DEF UnbindCommit, TypeOK
  <2>4. cards' \in [CardIds -> CardRow] /\ fair' \in [CardIds -> Nat]
    <3>1. CASE ~r.app.verify
      BY <1>2, <3>1 DEF UnbindCommit, TypeOK
    <3>2. CASE r.app.verify
      <4>1. PICK c \in LiveCards :
                /\ cards' = [cards EXCEPT ![c] = UnboundCard(r, cards[c])]
                /\ fair' = IF cards[c].type = "time"
                           THEN [fair EXCEPT ![c] =
                                    Deducted(@, r.app.deductSeconds)]
                           ELSE fair
        BY <1>2, <3>2 DEF UnbindCommit
      <4>2. c \in CardIds /\ cards[c] \in CardRow /\ fair[c] \in Nat
        BY DEF LiveCards, TypeOK
      <4>3. r.app.deductSeconds \in Nat
        BY <2>1 DEF Setting
      <4>4. UnboundCard(r, cards[c]) \in CardRow
        BY <2>1, <4>2, UnboundType
      <4>5. Deducted(fair[c], r.app.deductSeconds) \in Nat
        BY <4>2, <4>3, DeductedType
      <4> QED
        BY <4>1, <4>2, <4>4, <4>5 DEF TypeOK
    <3> QED
      BY <3>1, <3>2
  <2>5. unbinds' \subseteq UnbindRequest
    BY <1>2 DEF UnbindCommit, TypeOK
  <2> QED
    BY <1>2, <2>2, <2>3, <2>4, <2>5 DEF UnbindCommit, TypeOK
<1> QED
  BY <1>1, <1>2 DEF Unbind

(* The operator's statements that touch whole sets of rows, wherever they  *)
(* are called from.                                                        *)
LEMMA BulkType ==
    ASSUME TypeOK, NEW S,
           \/ DisableCards(S)
           \/ EnableActivated(S)
           \/ ResetUses(S)
           \/ DeleteCards(S)
           \/ \E n \in Amounts : ResetDuration(S, n)
           \/ \E n \in Amounts, up \in BOOLEAN : AdjustActivated(S, n, up)
    PROVE  TypeOK'
<1>1. CASE DisableCards(S)
  <2>1. \A c \in CardIds : [cards[c] EXCEPT !.status = 2] \in CardRow
    BY 2 \in 0..2, CardStatus DEF TypeOK
  <2> QED
    BY <1>1, <2>1 DEF DisableCards, TypeOK, inflight
<1>2. CASE EnableActivated(S)
  <2>1. \A c \in CardIds : [cards[c] EXCEPT !.status = 1] \in CardRow
    BY 1 \in 0..2, CardStatus DEF TypeOK
  <2> QED
    BY <1>2, <2>1 DEF EnableActivated, TypeOK, inflight, history
<1>3. CASE ResetUses(S)
  <2>1. \A c \in CardIds :
            [cards[c] EXCEPT !.remaining = cards[c].total] \in CardRow
    BY CardColumn DEF CardRow, TypeOK
  <2> QED
    BY <1>3, <2>1 DEF ResetUses, TypeOK, inflight
<1>4. CASE DeleteCards(S)
  <2>1. cards' \in [CardIds -> CardRow]
    BY <1>4, GoneCardType DEF DeleteCards, TypeOK
  <2>2. devices' \in [DeviceIds -> DeviceRow]
    <3>1. \A d \in DeviceIds : [devices[d] EXCEPT !.card = None] \in DeviceRow
      BY DEF DeviceRow, TypeOK
    <3> QED
      BY <1>4, <3>1 DEF DeleteCards, TypeOK
  <2>3. sessions' \in [SessionIds -> SessionRow]
    BY <1>4 DEF DeleteCards, TypeOK, SessionRow
  <2> QED
    BY <1>4, <2>1, <2>2, <2>3 DEF DeleteCards, TypeOK, inflight, history
<1>5. ASSUME NEW n \in Amounts, ResetDuration(S, n) PROVE TypeOK'
  <2>1. n \in Nat
    BY ConstantTypes
  <2>2. \A c \in CardIds :
            [cards[c] EXCEPT !.status = 0, !.usedAt = 0, !.duration = n] \in CardRow
    BY <2>1, ResetRow DEF TypeOK
  <2>3. sessions' \in [SessionIds -> SessionRow]
    BY <1>5, RevokedType DEF ResetDuration, EndSessionsOf, TypeOK
  <2> QED
    BY <1>5, <2>1, <2>2, <2>3 DEF ResetDuration, TypeOK, inflight
<1>6. ASSUME NEW n \in Amounts, NEW up \in BOOLEAN, AdjustActivated(S, n, up)
      PROVE  TypeOK'
  <2>1. \A c \in CardIds :
            [cards[c] EXCEPT !.duration = Adjusted(cards[c].duration, n, up)]
                \in CardRow
    <3>1. \A c \in CardIds : cards[c] \in CardRow /\ cards[c].duration \in Nat
      BY DEF CardRow, TypeOK
    <3> QED
      BY <3>1, AdjustedType, CardColumn
  <2>2. \A c \in CardIds : Adjusted(fair[c], n, up) \in Nat
    BY AdjustedType DEF TypeOK
  <2> QED
    BY <1>6, <2>1, <2>2 DEF AdjustActivated, TypeOK, inflight
<1> QED
  BY <1>1, <1>2, <1>3, <1>4, <1>5, <1>6

LEMMA CardEditType == TypeOK /\ CardEdit => TypeOK'
<1> SUFFICES ASSUME TypeOK, CardEdit PROVE TypeOK'
  OBVIOUS
<1>1. ASSUME NEW c \in CardIds, NEW spec \in CardSpecs, CreateCard(c, spec)
      PROVE  TypeOK'
  <2>1. /\ spec.hash \in Hashes /\ spec.type \in CardType
        /\ spec.duration \in Nat /\ spec.total \in Nat
        /\ spec.maxDevices \in Nat /\ spec.unbindLimit \in Nat
    BY ConstantTypes DEF CardSpec
  <2>2. NewCard(spec) \in CardRow
    BY <2>1 DEF NewCard, CardRow, RowState
  <2>3. /\ cards' = [cards EXCEPT ![c] = NewCard(spec)]
        /\ fair' = [fair EXCEPT ![c] = spec.duration]
    BY <1>1 DEF CreateCard
  <2>4. cards' \in [CardIds -> CardRow] /\ fair' \in [CardIds -> Nat]
    BY <2>1, <2>2, <2>3 DEF TypeOK
  <2> QED
    BY <1>1, <2>4 DEF CreateCard, TypeOK, inflight
<1>2. ASSUME NEW w \in Workers, NEW c \in CardIds, EnableCardRead(w, c)
      PROVE  TypeOK'
  <2>1. enables' \subseteq EnableEdit
    BY <1>2 DEF EnableCardRead, EnableEdit, TypeOK
  <2> QED
    BY <1>2, <2>1 DEF EnableCardRead, TypeOK, tables, history
<1>3. ASSUME NEW r \in enables, EnableCardWrite(r) PROVE TypeOK'
  <2>1. r.value \in 0..2
    BY DEF EnableEdit, TypeOK
  <2>2. \A c \in CardIds : [cards[c] EXCEPT !.status = r.value] \in CardRow
    BY <2>1, CardStatus DEF TypeOK
  <2> QED
    BY <1>3, <2>2 DEF EnableCardWrite, TypeOK, history
<1>4. ASSUME NEW w \in Workers, NEW c \in CardIds, NEW n \in Amounts,
             NEW up \in BOOLEAN, AdjustRead(w, c, n, up)
      PROVE  TypeOK'
  <2>1. cards[c].duration \in Nat
    BY DEF CardRow, TypeOK
  <2>2. Adjusted(cards[c].duration, n, up) \in Nat
    BY <2>1, AdjustedType
  <2>3. adjusts' \subseteq AdjustEdit
    BY <1>4, <2>2 DEF AdjustRead, AdjustEdit, TypeOK
  <2> QED
    BY <1>4, <2>3 DEF AdjustRead, TypeOK, tables, history
<1>5. ASSUME NEW r \in adjusts, AdjustWrite(r) PROVE TypeOK'
  <2>1. /\ r.value \in Nat /\ r.card \in CardIds
        /\ r.amount \in Amounts /\ r.up \in BOOLEAN
    BY DEF AdjustEdit, TypeOK
  <2>2. \A c \in CardIds : [cards[c] EXCEPT !.duration = r.value] \in CardRow
    BY <2>1, CardColumn DEF TypeOK
  <2>3. Adjusted(fair[r.card], r.amount, r.up) \in Nat
    BY <2>1, AdjustedType DEF TypeOK
  <2>4. fair' \in [CardIds -> Nat]
    BY <1>5, <2>1, <2>3 DEF AdjustWrite, TypeOK
  <2>5. cards' \in [CardIds -> CardRow]
    BY <1>5, <2>2 DEF AdjustWrite, TypeOK
  <2> QED
    BY <1>5, <2>4, <2>5 DEF AdjustWrite, TypeOK
<1>6. ASSUME NEW S, \/ DisableCards(S) \/ ResetUses(S) \/ DeleteCards(S)
                    \/ \E n \in Amounts : ResetDuration(S, n)
      PROVE  TypeOK'
  BY <1>6, BulkType
<1> QED
  BY <1>1, <1>2, <1>3, <1>4, <1>5, <1>6 DEF CardEdit

LEMMA RangeEditType == TypeOK /\ RangeEdit => TypeOK'
<1> SUFFICES ASSUME TypeOK, RangeEdit PROVE TypeOK'
  OBVIOUS
<1>1. PICK from \in 1..now, to \in 1..now :
          LET S == Activated(from, to)
          IN  \/ EnableActivated(S)
              \/ DisableCards(S)
              \/ ResetUses(S)
              \/ DeleteCards(S)
              \/ \E n \in Amounts :
                    \/ ResetDuration(S, n)
                    \/ \E up \in BOOLEAN : AdjustActivated(S, n, up)
  BY DEF RangeEdit
<1> QED
  BY <1>1, BulkType

LEMMA DeviceEditType == TypeOK /\ DeviceEdit => TypeOK'
<1> SUFFICES ASSUME TypeOK, DeviceEdit PROVE TypeOK'
  OBVIOUS
<1>1. ASSUME NEW S, NEW status \in 0..1
      PROVE  DevicesWithStatus(S, status) \in [DeviceIds -> DeviceRow]
  BY DEF DevicesWithStatus, DeviceRow, TypeOK
<1>2. ASSUME NEW w \in Workers, NEW d \in DeviceIds, DisableDevice(w, d)
      PROVE  TypeOK'
  <2>1. revokes' \subseteq RevokeEdit
    BY <1>2 DEF DisableDevice, RevokeEdit, TypeOK
  <2>2. devices' \in [DeviceIds -> DeviceRow]
    BY <1>1, <1>2 DEF DisableDevice
  <2> QED
    BY <1>2, <2>1, <2>2 DEF DisableDevice, TypeOK, history
<1>3. ASSUME NEW r \in revokes, RevokeDevice(r) PROVE TypeOK'
  BY <1>3, RevokedType DEF RevokeDevice, TypeOK, history
<1>4. ASSUME NEW S, DisableDevices(S) PROVE TypeOK'
  BY <1>1, <1>4, RevokedType DEF DisableDevices, TypeOK, inflight, history
<1>5. ASSUME NEW S, EnableDevices(S) PROVE TypeOK'
  BY <1>1, <1>5 DEF EnableDevices, TypeOK, inflight, history
<1>6. ASSUME NEW S, DeleteDevices(S) PROVE TypeOK'
  BY <1>6, DevicesRemovedType, WithoutDevicesType
     DEF DeleteDevices, TypeOK, inflight, history
<1> QED
  BY <1>2, <1>3, <1>4, <1>5, <1>6 DEF DeviceEdit

LEMMA UpkeepType ==
    ASSUME TypeOK,
           \/ \E a \in Settings : UpdateApp(a)
           \/ Cleanup \/ Tick \/ Drop
    PROVE  TypeOK'
<1>1. ASSUME NEW a \in Settings, UpdateApp(a) PROVE TypeOK'
  <2>1. \A d \in DeviceIds : [devices[d] EXCEPT !.region = None] \in DeviceRow
    BY DEF DeviceRow, TypeOK
  <2> QED
    BY <1>1, <2>1 DEF UpdateApp, TypeOK, inflight, history
<1>2. CASE Cleanup
  BY <1>2, GoneSessionType
     DEF Cleanup, ForgetNonces, ForgetSessions, TypeOK, inflight, history
<1>3. CASE Tick
  BY <1>3 DEF Tick, TypeOK, tables, inflight, history
<1>4. CASE Drop
  BY <1>4 DEF Drop, TypeOK, tables, history
<1> QED
  BY <1>1, <1>2, <1>3, <1>4

LEMMA TypeStep == TypeOK /\ [Next]_vars => TypeOK'
<1> SUFFICES ASSUME TypeOK, [Next]_vars PROVE TypeOK'
  OBVIOUS
<1>1. CASE UNCHANGED vars
  BY <1>1 DEF TypeOK, vars, tables, inflight, history
<1>2. CASE Next
  BY <1>2, LoginType, SessionRequestType, UnbindType, CardEditType,
     RangeEditType, DeviceEditType, UpkeepType DEF Next
<1> QED
  BY <1>1, <1>2

(* Every table keeps its schema and every request in flight carries what   *)
(* its handler carries.                                                    *)
THEOREM TypeCorrect == Spec => []TypeOK
<1>1. Init => TypeOK
  BY TypeInit
<1>2. TypeOK /\ [Next]_vars => TypeOK'
  BY TypeStep
<1> QED
  BY <1>1, <1>2, PTL DEF Spec

-----------------------------------------------------------------------------
(* Single login                                                            *)

(* Session s was alive before the step, for the same card and device.      *)
Kept(s) ==
    /\ Active(s)
    /\ sessions'[s].hash = sessions[s].hash
    /\ sessions'[s].device = sessions[s].device

(* Revoking or deleting sessions brings none of them to life.              *)
LEMMA RevokedKeeps ==
    ASSUME TypeOK, NEW S, now' = now,
           sessions' = Revoked(S) \/ sessions' = WithoutDevices(S)
    PROVE  \A s \in SessionIds : Active(s)' => Kept(s)
BY DEF Kept, Active, LiveSessions, Revoked, WithoutDevices, NoSession, TypeOK,
       SessionRow

(* Only a login makes a session; only a late rotation revives one.         *)
LEMMA NoneRevived ==
    ASSUME TypeOK,
           \/ SessionRequest \/ Unbind \/ CardEdit \/ RangeEdit \/ DeviceEdit
           \/ \E a \in Settings : UpdateApp(a)
           \/ Cleanup \/ Tick \/ Drop
    PROVE  /\ late \subseteq late'
           /\ \A s \in SessionIds : Active(s)' => Kept(s) \/ s \in late'
<1> DEFINE Goal == /\ late \subseteq late'
                   /\ \A s \in SessionIds : Active(s)' => Kept(s) \/ s \in late'
<1>0. ASSUME UNCHANGED <<sessions, now, late>> PROVE Goal
  BY <1>0 DEF Kept, Active, LiveSessions
<1>1. ASSUME SessionRequest PROVE Goal
  <2>1. ASSUME NEW w, NEW s, NEW n, NEW kind, SessionPrepare(w, s, kind, n)
        PROVE  Goal
    BY <1>0, <2>1 DEF SessionPrepare, tables, history
  <2>2. ASSUME NEW r \in calls, Logout(r) PROVE Goal
    BY <2>2, RevokedKeeps DEF Logout, history
  <2>3. ASSUME NEW r \in calls, Rotate(r) PROVE Goal
    <3>1. r.sid \in SessionIds /\ sessions[r.sid] \in SessionRow
      BY DEF SessionCall, TypeOK
    <3>2. late \subseteq late' /\ now' = now
      BY <2>3 DEF Rotate, RotateSession, Rotated
    <3>3. ASSUME NEW s \in SessionIds, s # r.sid, Active(s)' PROVE Kept(s)
      <4>1. sessions'[s] = sessions[s]
        BY <2>3, <3>3 DEF Rotate, RotateSession, Rotated, TypeOK
      <4> QED
        BY <3>2, <3>3, <4>1 DEF Kept, Active, LiveSessions
    <3>4. CASE sessions[r.sid].expires < now
      <4>1. r.sid \in late'
        BY <2>3, <3>4 DEF Rotate, RotateSession, Rotated
      <4> QED
        BY <3>2, <3>3, <4>1
    <3>5. CASE ~(sessions[r.sid].expires < now)
      <4>1. sessions[r.sid].expires \in Nat /\ now \in Nat
        BY <3>1 DEF SessionRow, TypeOK
      <4>2. Active(r.sid)
        BY <2>3, <3>5, <4>1 DEF Rotate, RotateSession, Rotated, StillCurrent, Active
      <4>3. /\ sessions'[r.sid].hash = sessions[r.sid].hash
            /\ sessions'[r.sid].device = sessions[r.sid].device
        BY <2>3, <3>1 DEF Rotate, RotateSession, Rotated, TypeOK, SessionRow
      <4> QED
        BY <3>2, <3>3, <4>2, <4>3 DEF Kept
    <3> QED
      BY <3>4, <3>5
  <2> QED
    BY <1>1, <2>1, <2>2, <2>3 DEF SessionRequest
<1>2. ASSUME Unbind PROVE Goal
  <2>1. ASSUME NEW w, NEW h, NEW i, UnbindPrepare(w, h, i) PROVE Goal
    BY <1>0, <2>1 DEF UnbindPrepare, tables, history
  <2>2. ASSUME NEW r, UnbindCommit(r) PROVE Goal
    BY <2>2, RevokedKeeps DEF UnbindCommit
  <2> QED
    BY <1>2, <2>1, <2>2 DEF Unbind
<1>3. ASSUME NEW S,
             \/ DisableCards(S) \/ EnableActivated(S) \/ ResetUses(S)
             \/ \E n \in Amounts, up \in BOOLEAN : AdjustActivated(S, n, up)
      PROVE  Goal
  BY <1>0, <1>3 DEF DisableCards, EnableActivated, ResetUses, AdjustActivated,
                    history
<1>4. ASSUME NEW S, NEW n, ResetDuration(S, n) PROVE Goal
  BY <1>4, RevokedKeeps DEF ResetDuration, EndSessionsOf
<1>5. ASSUME NEW S, DeleteCards(S) PROVE Goal
  BY <1>5 DEF DeleteCards, history, Kept, Active, LiveSessions, TypeOK,
              SessionRow
<1>6. ASSUME CardEdit PROVE Goal
  <2>1. ASSUME NEW c, NEW spec, CreateCard(c, spec) PROVE Goal
    BY <1>0, <2>1 DEF CreateCard
  <2>2. ASSUME NEW w, NEW c, EnableCardRead(w, c) PROVE Goal
    BY <1>0, <2>2 DEF EnableCardRead, tables, history
  <2>3. ASSUME NEW r, EnableCardWrite(r) PROVE Goal
    BY <1>0, <2>3 DEF EnableCardWrite, history
  <2>4. ASSUME NEW w, NEW c, NEW n, NEW up, AdjustRead(w, c, n, up) PROVE Goal
    BY <1>0, <2>4 DEF AdjustRead, tables, history
  <2>5. ASSUME NEW r, AdjustWrite(r) PROVE Goal
    BY <1>0, <2>5 DEF AdjustWrite
  <2> QED
    BY <1>3, <1>4, <1>5, <1>6, <2>1, <2>2, <2>3, <2>4, <2>5 DEF CardEdit
<1>7. ASSUME RangeEdit PROVE Goal
  BY <1>3, <1>4, <1>5, <1>7 DEF RangeEdit
<1>8. ASSUME DeviceEdit PROVE Goal
  <2>1. ASSUME NEW w, NEW d, DisableDevice(w, d) PROVE Goal
    BY <1>0, <2>1 DEF DisableDevice, history
  <2>2. ASSUME NEW r, RevokeDevice(r) PROVE Goal
    BY <2>2, RevokedKeeps DEF RevokeDevice, history
  <2>3. ASSUME NEW S, DisableDevices(S) PROVE Goal
    BY <2>3, RevokedKeeps DEF DisableDevices, history
  <2>4. ASSUME NEW S, EnableDevices(S) PROVE Goal
    BY <1>0, <2>4 DEF EnableDevices, history
  <2>5. ASSUME NEW S, DeleteDevices(S) PROVE Goal
    BY <2>5, RevokedKeeps DEF DeleteDevices, history
  <2> QED
    BY <1>8, <2>1, <2>2, <2>3, <2>4, <2>5 DEF DeviceEdit
<1>9. ASSUME NEW a, UpdateApp(a) PROVE Goal
  BY <1>0, <1>9 DEF UpdateApp, history
<1>10. ASSUME Cleanup PROVE Goal
  BY <1>10 DEF Cleanup, ForgetNonces, ForgetSessions, history, Kept, Active,
              LiveSessions, NoSession, TypeOK
<1>11. ASSUME Tick PROVE Goal
  <2>1. \A s \in SessionIds : sessions[s].expires \in Nat
    BY DEF TypeOK, SessionRow
  <2> QED
    BY <1>11, <2>1 DEF Tick, tables, history, Kept, Active, LiveSessions, TypeOK
<1>12. ASSUME Drop PROVE Goal
  BY <1>0, <1>12 DEF Drop, tables, history
<1> QED
  BY <1>1, <1>2, <1>6, <1>7, <1>8, <1>9, <1>10, <1>11, <1>12

(* A login that passes leaves every other live session of the card on the  *)
(* device it logs in from.                                                 *)
LEMMA LoginKeepsSingle ==
    ASSUME TypeOK, AlwaysSingle, SingleLogin, Login
    PROVE  SingleLogin'
<1>1. ASSUME UNCHANGED <<sessions, now, late>> PROVE SingleLogin'
  BY <1>1 DEF SingleLogin, SharedBy, Active, LiveSessions
<1>2. ASSUME NEW w, NEW h, NEW ch, NEW g, LoginPrepare(w, h, ch, g)
      PROVE  SingleLogin'
  BY <1>1, <1>2 DEF LoginPrepare, tables, history
<1>3. ASSUME NEW r, LoginSnapshot(r) PROVE SingleLogin'
  BY <1>1, <1>3 DEF LoginSnapshot, tables, history
<1>4. ASSUME NEW r \in logins, NEW s \in SessionIds, NEW d, LoginCommitVirtual(r, d, s)
      PROVE  SingleLogin'
  <2>1. r.app \in Settings
    BY DEF TypeOK, LoginRequest
  <2> QED
    BY <1>4, <2>1 DEF LoginCommitVirtual, AlwaysSingle
<1>5. ASSUME NEW r \in logins, NEW n \in SessionIds, NEW c \in CardIds,
             LoginCommit(r, c, n)
      PROVE  SingleLogin'
  <2>1. r.app \in Settings /\ r.hash \in Hashes
    BY DEF TypeOK, LoginRequest
  <2>2. now' = now /\ late' = late
    BY <1>5 DEF LoginCommit
  <2>3. PICK d, expiry :
            /\ OpenSession(r, c, d, n, expiry)
            /\ d # None => Rivals(c, r.hash, d) = {}
    <3>1. CASE cards[c].type = "count"
      BY <1>5, <3>1 DEF LoginCommit
    <3>2. CASE cards[c].type # "count"
      BY <1>5, <2>1, <3>2 DEF LoginCommit, AlwaysSingle
    <3> QED
      BY <3>1, <3>2
  <2>4. /\ sessions'[n].hash = r.hash
        /\ sessions'[n].device = d
    BY <2>3, RevokedType DEF OpenSession, TypeOK
  <2>5. ASSUME NEW s \in SessionIds, s # n, Active(s)'
        PROVE  Kept(s)
    <3>1. PICK S : sessions'[s] = Revoked(S)[s]
      BY <2>3, <2>5, RevokedType DEF OpenSession, TypeOK
    <3> QED
      BY <2>2, <2>5, <3>1 DEF Kept, Active, LiveSessions, Revoked, TypeOK, SessionRow
  <2>6. ASSUME NEW s \in SessionIds, s # n, SharedBy(s, n)' \/ SharedBy(n, s)'
        PROVE  FALSE
    <3>1. Kept(s)
      BY <2>5, <2>6 DEF SharedBy
    <3>2. /\ d # None
          /\ sessions[s].device # d
          /\ sessions[s].hash = r.hash
      BY <2>4, <2>6, <3>1 DEF SharedBy, Kept
    <3>3. s \in Rivals(c, r.hash, d)
      BY <2>1, <3>1, <3>2, NoneIsNothing DEF Rivals, OnCard, Kept
    <3> QED
      BY <2>3, <3>2, <3>3
  <2>7. ASSUME NEW s \in SessionIds, NEW t \in SessionIds, SharedBy(s, t)'
        PROVE  s \in late' \/ t \in late'
    <3>1. s # n /\ t # n
      <4>1. s # t
        BY <2>7 DEF SharedBy
      <4> QED
        BY <2>6, <2>7, <4>1
    <3>2. Kept(s) /\ Kept(t)
      BY <2>5, <2>7, <3>1 DEF SharedBy
    <3>3. SharedBy(s, t)
      BY <2>7, <3>2 DEF SharedBy, Kept
    <3> QED
      BY <2>2, <3>3 DEF SingleLogin
  <2> QED
    BY <2>7 DEF SingleLogin
<1> QED
  BY <1>2, <1>3, <1>4, <1>5 DEF Login

(* Without a new session only a late rotation makes a second device.       *)
LEMMA NoneAddedStaysSingle ==
    ASSUME SingleLogin, AlwaysSingle, late \subseteq late',
           \A s \in SessionIds : Active(s)' => Kept(s) \/ s \in late'
    PROVE  SingleLogin'
<1>1. ASSUME NEW s \in SessionIds, NEW t \in SessionIds, SharedBy(s, t)'
      PROVE  s \in late' \/ t \in late'
  <2>1. CASE Kept(s) /\ Kept(t)
    <3>1. SharedBy(s, t)
      BY <1>1, <2>1 DEF SharedBy, Kept
    <3> QED
      BY <3>1 DEF SingleLogin
  <2> QED
    BY <1>1, <2>1 DEF SharedBy
<1> QED
  BY <1>1 DEF SingleLogin

LEMMA SingleLoginStep == TypeOK /\ SingleLogin /\ [Next]_vars => SingleLogin'
<1> SUFFICES ASSUME TypeOK, SingleLogin, [Next]_vars, AlwaysSingle
             PROVE  SingleLogin'
  BY DEF SingleLogin, AlwaysSingle
<1>1. CASE UNCHANGED vars
  BY <1>1 DEF SingleLogin, SharedBy, Active, LiveSessions, vars, tables, history
<1>2. CASE Login
  BY <1>2, LoginKeepsSingle
<1>3. ASSUME late \subseteq late',
             \A s \in SessionIds : Active(s)' => Kept(s) \/ s \in late'
      PROVE  SingleLogin'
  BY <1>3, NoneAddedStaysSingle
<1> QED
  BY <1>1, <1>2, <1>3, NoneRevived DEF Next

(* Where every setting verifies cards and shares none, two devices use one *)
(* card at the same time only through a rotation written too late.         *)
THEOREM SingleLoginHolds == Spec => []SingleLogin
<1>1. Init => SingleLogin
  BY DEF Init, SingleLogin, SharedBy, Active, LiveSessions, NoSession
<1>2. TypeOK /\ SingleLogin /\ [Next]_vars => SingleLogin'
  BY SingleLoginStep
<1> QED
  BY <1>1, <1>2, TypeCorrect, PTL DEF Spec

-----------------------------------------------------------------------------
(* What a step may do to a session                                         *)

(* Revoke it or take its card away, delete it, open it, or rotate it.      *)
Weakened(s) ==
    /\ sessions'[s].row = sessions[s].row
    /\ sessions'[s].token = sessions[s].token
    /\ sessions'[s].counter = sessions[s].counter
    /\ sessions'[s].expires = sessions[s].expires
    /\ sessions'[s].device = sessions[s].device
    /\ sessions'[s].status \in {sessions[s].status, 0}
    /\ sessions'[s].card \in {sessions[s].card, None}

Erased(s) == sessions'[s].row = "deleted" /\ sessions'[s].card = None

Opened(s) ==
    \E r \in logins : \/ \E c \in CardIds : LoginCommit(r, c, s)
                      \/ \E d \in DeviceIds : LoginCommitVirtual(r, d, s)

Renewed(s) == \E r \in calls : Rotate(r) /\ r.sid = s

LEMMA SameIsWeakened ==
    ASSUME sessions' = sessions, NEW s
    PROVE  Weakened(s)
BY DEF Weakened

LEMMA RevokedIsWeakened ==
    ASSUME TypeOK, NEW S, sessions' = Revoked(S), NEW s \in SessionIds
    PROVE  Weakened(s)
<1>1. sessions[s] \in SessionRow
  BY DEF TypeOK
<1>2. sessions'[s] = [sessions[s] EXCEPT !.status = 0] \/ sessions'[s] = sessions[s]
  BY DEF Revoked
<1> QED
  BY <1>1, <1>2 DEF Weakened, SessionRow

LEMMA RemovedIsErased ==
    ASSUME NEW S, sessions' = WithoutDevices(S), NEW s \in SessionIds
    PROVE  Weakened(s) \/ Erased(s)
BY DEF WithoutDevices, Weakened, Erased, NoSession

(* A login touches no other session but to revoke it.                      *)
LEMMA OpenedWeakens ==
    ASSUME TypeOK, NEW r, NEW c, NEW d, NEW n \in SessionIds, NEW expiry,
           OpenSession(r, c, d, n, expiry), NEW s \in SessionIds, s # n
    PROVE  Weakened(s)
<1>1. sessions[s] \in SessionRow
  BY DEF TypeOK
<1>2. sessions'[s] = [sessions[s] EXCEPT !.status = 0] \/ sessions'[s] = sessions[s]
  BY DEF OpenSession, Revoked
<1> QED
  BY <1>1, <1>2 DEF Weakened, SessionRow

LEMMA SessionWrites ==
    ASSUME TypeOK, [Next]_vars, NEW s \in SessionIds
    PROVE  Weakened(s) \/ Erased(s) \/ Opened(s) \/ Renewed(s)
<1> DEFINE Goal == Weakened(s) \/ Erased(s) \/ Opened(s) \/ Renewed(s)
<1>1. CASE Login
  <2>1. ASSUME NEW w, NEW h, NEW ch, NEW g, LoginPrepare(w, h, ch, g)
        PROVE  Goal
    BY <2>1, SameIsWeakened DEF LoginPrepare, tables
  <2>2. ASSUME NEW r, LoginSnapshot(r) PROVE Goal
    BY <2>2, SameIsWeakened DEF LoginSnapshot, tables
  <2>3. ASSUME NEW r \in logins, NEW n \in SessionIds, NEW c \in CardIds,
               LoginCommit(r, c, n)
        PROVE  Goal
    <3>1. PICK d, expiry : OpenSession(r, c, d, n, expiry)
      BY <2>3 DEF LoginCommit
    <3> QED
      BY <2>3, <3>1, OpenedWeakens DEF Opened
  <2>4. ASSUME NEW r \in logins, NEW n \in SessionIds, NEW d \in DeviceIds,
               LoginCommitVirtual(r, d, n)
        PROVE  Goal
    <3>1. OpenSession(r, None, d, n, Forever)
      BY <2>4 DEF LoginCommitVirtual
    <3> QED
      BY <2>4, <3>1, OpenedWeakens DEF Opened
  <2> QED
    BY <1>1, <2>1, <2>2, <2>3, <2>4 DEF Login
<1>2. CASE SessionRequest
  <2>1. ASSUME NEW w, NEW x, NEW n, NEW kind, SessionPrepare(w, x, kind, n)
        PROVE  Goal
    BY <2>1, SameIsWeakened DEF SessionPrepare, tables
  <2>2. ASSUME NEW r, Logout(r) PROVE Goal
    BY <2>2, RevokedIsWeakened DEF Logout
  <2>3. ASSUME NEW r \in calls, Rotate(r) PROVE Goal
    <3>1. CASE r.sid = s
      BY <2>3, <3>1 DEF Renewed
    <3>2. CASE r.sid # s
      <4>1. sessions'[s] = sessions[s]
        BY <2>3, <3>2 DEF Rotate, RotateSession, Rotated, TypeOK
      <4> QED
        BY <4>1 DEF Weakened
    <3> QED
      BY <3>1, <3>2
  <2> QED
    BY <1>2, <2>1, <2>2, <2>3 DEF SessionRequest
<1>3. CASE Unbind
  <2>1. ASSUME NEW w, NEW h, NEW i, UnbindPrepare(w, h, i) PROVE Goal
    BY <2>1, SameIsWeakened DEF UnbindPrepare, tables
  <2>2. ASSUME NEW r, UnbindCommit(r) PROVE Goal
    BY <2>2, RemovedIsErased DEF UnbindCommit
  <2> QED
    BY <1>3, <2>1, <2>2 DEF Unbind
<1>4. ASSUME NEW S,
             \/ DisableCards(S) \/ EnableActivated(S) \/ ResetUses(S)
             \/ \E n \in Amounts, up \in BOOLEAN : AdjustActivated(S, n, up)
      PROVE  Goal
  BY <1>4, SameIsWeakened DEF DisableCards, EnableActivated, ResetUses, AdjustActivated
<1>5. ASSUME NEW S, NEW n, ResetDuration(S, n) PROVE Goal
  BY <1>5, RevokedIsWeakened DEF ResetDuration, EndSessionsOf
<1>6. ASSUME NEW S, DeleteCards(S) PROVE Goal
  <2>1. sessions[s] \in SessionRow
    BY DEF TypeOK
  <2>2. sessions'[s] = [sessions[s] EXCEPT !.card = None] \/ sessions'[s] = sessions[s]
    BY <1>6 DEF DeleteCards
  <2> QED
    BY <2>1, <2>2 DEF Weakened, SessionRow
<1>7. ASSUME CardEdit PROVE Goal
  <2>1. ASSUME NEW c, NEW spec, CreateCard(c, spec) PROVE Goal
    BY <2>1, SameIsWeakened DEF CreateCard
  <2>2. ASSUME NEW w, NEW c, EnableCardRead(w, c) PROVE Goal
    BY <2>2, SameIsWeakened DEF EnableCardRead, tables
  <2>3. ASSUME NEW r, EnableCardWrite(r) PROVE Goal
    BY <2>3, SameIsWeakened DEF EnableCardWrite
  <2>4. ASSUME NEW w, NEW c, NEW n, NEW up, AdjustRead(w, c, n, up) PROVE Goal
    BY <2>4, SameIsWeakened DEF AdjustRead, tables
  <2>5. ASSUME NEW r, AdjustWrite(r) PROVE Goal
    BY <2>5, SameIsWeakened DEF AdjustWrite
  <2> HIDE DEF Goal
  <2> QED
    BY <1>4, <1>5, <1>6, <1>7, <2>1, <2>2, <2>3, <2>4, <2>5 DEF CardEdit
<1>8. ASSUME RangeEdit PROVE Goal
  <2> HIDE DEF Goal
  <2> QED
    BY <1>4, <1>5, <1>6, <1>8 DEF RangeEdit
<1>9. CASE DeviceEdit
  <2>1. ASSUME NEW w, NEW d, NEW S, DisableDevice(w, d) \/ EnableDevices(S) PROVE Goal
    BY <2>1, SameIsWeakened DEF DisableDevice, EnableDevices
  <2>2. ASSUME NEW r, NEW S, RevokeDevice(r) \/ DisableDevices(S) PROVE Goal
    BY <2>2, RevokedIsWeakened DEF RevokeDevice, DisableDevices
  <2>3. ASSUME NEW S, DeleteDevices(S) PROVE Goal
    BY <2>3, RemovedIsErased DEF DeleteDevices
  <2> QED
    BY <1>9, <2>1, <2>2, <2>3 DEF DeviceEdit
<1>10. CASE (\E a \in Settings : UpdateApp(a)) \/ Tick \/ Drop \/ UNCHANGED vars
  BY <1>10, SameIsWeakened DEF UpdateApp, Tick, Drop, tables, vars
<1>11. CASE Cleanup
  <2>1. ASSUME NEW at, ForgetNonces(at) PROVE Goal
    BY <2>1, SameIsWeakened DEF ForgetNonces
  <2>2. ASSUME NEW at, ForgetSessions(at) PROVE Goal
    BY <2>2 DEF ForgetSessions, Weakened, Erased, NoSession
  <2> QED
    BY <1>11, <2>1, <2>2 DEF Cleanup
<1> QED
  BY <1>1, <1>2, <1>3, <1>7, <1>8, <1>9, <1>10, <1>11 DEF Next

-----------------------------------------------------------------------------
(* Revoked sessions                                                        *)

LEMMA RevokedStaysRevoked ==
    ASSUME TypeOK, [Next]_vars
    PROVE  \A s \in LiveSessions :
              (sessions[s].status = 0 /\ sessions'[s].row = "live") =>
                  /\ sessions'[s].status = 0
                  /\ sessions'[s].token = sessions[s].token
                  /\ sessions'[s].counter = sessions[s].counter
                  /\ sessions'[s].expires = sessions[s].expires
<1> SUFFICES ASSUME NEW s \in LiveSessions, sessions[s].status = 0,
                    sessions'[s].row = "live"
             PROVE  /\ sessions'[s].status = 0
                    /\ sessions'[s].token = sessions[s].token
                    /\ sessions'[s].counter = sessions[s].counter
                    /\ sessions'[s].expires = sessions[s].expires
  OBVIOUS
<1>1. s \in SessionIds /\ sessions[s].row = "live"
  BY DEF LiveSessions
<1>2. ~Erased(s)
  BY DEF Erased
<1>3. ~Opened(s)
  BY <1>1 DEF Opened, LoginCommit, LoginCommitVirtual, OpenSession
<1>4. ~Renewed(s)
  BY DEF Renewed, Rotate, RotateSession, StillCurrent
<1>5. Weakened(s)
  BY <1>1, <1>2, <1>3, <1>4, SessionWrites
<1> QED
  BY <1>5 DEF Weakened

(* A request that was in flight when a session was revoked, whether a      *)
(* heartbeat or a login of the same device, writes nothing to its row.     *)
THEOREM RevocationIsFinal == Spec => RevokedForever
<1>1. ASSUME TypeOK, [Next]_vars
      PROVE  \A s \in LiveSessions :
                (sessions[s].status = 0 /\ sessions'[s].row = "live") =>
                    /\ sessions'[s].status = 0
                    /\ sessions'[s].token = sessions[s].token
                    /\ sessions'[s].counter = sessions[s].counter
                    /\ sessions'[s].expires = sessions[s].expires
  BY <1>1, RevokedStaysRevoked
<1> QED
  BY <1>1, TypeCorrect, PTL DEF Spec, RevokedForever

-----------------------------------------------------------------------------
(* What a step may do to a card                                            *)

(* Nothing; charge it for a login or an unbind; create it; edit it; or     *)
(* delete it.                                                              *)
CardKept(c) ==
    cards'[c] = cards[c] /\ granted'[c] = granted[c] /\ disabledAt'[c] = disabledAt[c]

CardUsed(c) == \E r \in logins, s \in SessionIds : LoginCommit(r, c, s)

CardUnbound(c) ==
    /\ c \in LiveCards
    /\ cards[c].status # 2
    /\ granted'[c] = granted[c]
    /\ \E r \in unbinds :
          /\ UnbindCommit(r)
          /\ UnbindAllowed(r, cards[c])
          /\ cards'[c] = UnboundCard(r, cards[c])

CardBorn(c) ==
    /\ cards[c].row = "unborn"
    /\ granted'[c] = granted[c]
    /\ sessions' = sessions
    /\ \E spec \in CardSpecs : cards'[c] = NewCard(spec)

(* The columns an operator's edit leaves alone, and how the others move    *)
(* with the uses granted, the sessions and the time of disabling.          *)
CardEdited(c) ==
    /\ c \in LiveCards
    /\ now' = now
    /\ cards'[c].row = cards[c].row
    /\ cards'[c].hash = cards[c].hash
    /\ cards'[c].type = cards[c].type
    /\ cards'[c].total = cards[c].total
    /\ cards'[c].unbindLimit = cards[c].unbindLimit
    /\ cards'[c].unbindCount = cards[c].unbindCount
    /\ \/ cards'[c].remaining = cards[c].remaining /\ granted'[c] = granted[c]
       \/ cards'[c].remaining = cards[c].total /\ granted'[c] = 0
    /\ \/ cards'[c].usedAt = cards[c].usedAt
       \/ \E S : c \in S /\ sessions' = EndSessionsOf(S)
    /\ cards'[c].status = 2 =>
          IF cards[c].status = 2 THEN disabledAt'[c] = disabledAt[c]
                                 ELSE disabledAt'[c] = now

CardGone(c) ==
    /\ cards'[c].row = "deleted"
    /\ granted'[c] = granted[c]
    /\ \A s \in SessionIds : sessions'[s].card # c

CardMoved(c) == \/ CardKept(c) \/ CardUsed(c) \/ CardUnbound(c)
                \/ CardBorn(c) \/ CardEdited(c) \/ CardGone(c)

LEMMA SameIsKept ==
    ASSUME NEW c, cards' = cards, granted' = granted, disabledAt' = disabledAt
    PROVE  CardMoved(c)
BY DEF CardKept, CardMoved

LEMMA BulkMoves ==
    ASSUME TypeOK, NEW c \in CardIds, NEW S
    PROVE  /\ DisableCards(S) => CardMoved(c)
           /\ EnableActivated(S) /\ S \subseteq LiveCards => CardMoved(c)
           /\ ResetUses(S) => CardMoved(c)
           /\ DeleteCards(S) => CardMoved(c)
           /\ \A n \in Amounts : ResetDuration(S, n) => CardMoved(c)
           /\ \A n \in Amounts, up \in BOOLEAN :
                 AdjustActivated(S, n, up) /\ S \subseteq LiveCards => CardMoved(c)
<1>0. cards[c] \in CardRow
  BY DEF TypeOK
<1>1. ASSUME DisableCards(S) PROVE CardMoved(c)
  BY <1>0, <1>1 DEF DisableCards, CardKept, CardEdited, CardMoved, CardRow
<1>2. ASSUME EnableActivated(S), S \subseteq LiveCards PROVE CardMoved(c)
  BY <1>0, <1>2 DEF EnableActivated, CardKept, CardEdited, CardMoved, CardRow, history
<1>3. ASSUME ResetUses(S) PROVE CardMoved(c)
  <2>1. CASE c \in S /\ cards[c].type = "count"
    BY <1>0, <1>3, <2>1 DEF ResetUses, CardEdited, CardMoved, CardRow
  <2>2. CASE ~(c \in S /\ cards[c].type = "count")
    BY <1>3, <2>2 DEF ResetUses, CardKept, CardMoved
  <2> QED
    BY <2>1, <2>2
<1>4. ASSUME DeleteCards(S) PROVE CardMoved(c)
  <2>1. CASE c \in S
    <3>1. \A s \in SessionIds : sessions'[s].card # c
      BY <1>4, <2>1, NoneIsNothing DEF DeleteCards, TypeOK, SessionRow
    <3> QED
      BY <1>4, <2>1, <3>1 DEF DeleteCards, CardGone, CardMoved, NoCard, history
  <2>2. CASE c \notin S
    BY <1>4, <2>2 DEF DeleteCards, CardKept, CardMoved, history
  <2> QED
    BY <2>1, <2>2
<1>5. ASSUME NEW n \in Amounts, ResetDuration(S, n) PROVE CardMoved(c)
  <2>1. CASE c \in TimeCards(S)
    <3>1. /\ cards'[c] = [cards[c] EXCEPT !.status = 0, !.usedAt = 0, !.duration = n]
          /\ granted' = granted /\ c \in LiveCards /\ now' = now
          /\ sessions' = EndSessionsOf(TimeCards(S))
      BY <1>5, <2>1 DEF ResetDuration, TimeCards
    <3> QED
      BY <1>0, <2>1, <3>1 DEF CardEdited, CardMoved, CardRow
  <2>2. CASE c \notin TimeCards(S)
    BY <1>5, <2>2 DEF ResetDuration, CardKept, CardMoved
  <2> QED
    BY <2>1, <2>2
<1>6. ASSUME NEW n \in Amounts, NEW up \in BOOLEAN, AdjustActivated(S, n, up),
             S \subseteq LiveCards
      PROVE  CardMoved(c)
  <2>1. CASE c \in TimeCards(S)
    <3>1. /\ cards'[c] = [cards[c] EXCEPT !.duration = Adjusted(@, n, up)]
          /\ granted' = granted /\ disabledAt' = disabledAt /\ c \in LiveCards
          /\ now' = now
      BY <1>6, <2>1 DEF AdjustActivated, TimeCards
    <3> QED
      BY <1>0, <3>1 DEF CardEdited, CardMoved, CardRow
  <2>2. CASE c \notin TimeCards(S)
    BY <1>6, <2>2 DEF AdjustActivated, CardKept, CardMoved
  <2> QED
    BY <2>1, <2>2
<1> QED
  BY <1>1, <1>2, <1>3, <1>4, <1>5, <1>6

LEMMA CardWrites ==
    ASSUME TypeOK, [Next]_vars, NEW c \in CardIds
    PROVE  CardMoved(c)
<1>0. cards[c] \in CardRow
  BY DEF TypeOK
<1>1. ASSUME Login PROVE CardMoved(c)
  <2>1. ASSUME NEW w, NEW h, NEW ch, NEW g, LoginPrepare(w, h, ch, g)
        PROVE  CardMoved(c)
    BY <2>1, SameIsKept DEF LoginPrepare, tables, history
  <2>2. ASSUME NEW r, LoginSnapshot(r) PROVE CardMoved(c)
    BY <2>2, SameIsKept DEF LoginSnapshot, tables, history
  <2>3. ASSUME NEW r \in logins, NEW s \in SessionIds, NEW x \in CardIds,
               LoginCommit(r, x, s)
        PROVE  CardMoved(c)
    <3>1. CASE x = c
      BY <2>3, <3>1 DEF CardUsed, CardMoved
    <3>2. CASE x # c
      <4>1. cards'[c] = cards[c] /\ disabledAt'[c] = disabledAt[c]
        BY <2>3, <3>2 DEF LoginCommit
      <4>2. granted' = granted \/ granted' = [granted EXCEPT ![x] = @ + 1]
        BY <2>3 DEF LoginCommit
      <4>3. granted'[c] = granted[c]
        BY <3>2, <4>2 DEF TypeOK
      <4> QED
        BY <4>1, <4>3 DEF CardKept, CardMoved
    <3> QED
      BY <3>1, <3>2
  <2>4. ASSUME NEW r, NEW d, NEW s, LoginCommitVirtual(r, d, s) PROVE CardMoved(c)
    BY <2>4, SameIsKept DEF LoginCommitVirtual
  <2> QED
    BY <1>1, <2>1, <2>2, <2>3, <2>4 DEF Login
<1>2. ASSUME SessionRequest PROVE CardMoved(c)
  <2>1. ASSUME NEW w, NEW x, NEW n, NEW kind, SessionPrepare(w, x, kind, n)
        PROVE  CardMoved(c)
    BY <2>1, SameIsKept DEF SessionPrepare, tables, history
  <2>2. ASSUME NEW r, Logout(r) PROVE CardMoved(c)
    BY <2>2, SameIsKept DEF Logout, history
  <2>3. ASSUME NEW r, Rotate(r) PROVE CardMoved(c)
    BY <2>3, SameIsKept DEF Rotate
  <2> QED
    BY <1>2, <2>1, <2>2, <2>3 DEF SessionRequest
<1>3. ASSUME Unbind PROVE CardMoved(c)
  <2>1. ASSUME NEW w, NEW h, NEW i, UnbindPrepare(w, h, i) PROVE CardMoved(c)
    BY <2>1, SameIsKept DEF UnbindPrepare, tables, history
  <2>2. ASSUME NEW r \in unbinds, UnbindCommit(r) PROVE CardMoved(c)
    <3>1. granted' = granted /\ disabledAt' = disabledAt
      BY <2>2 DEF UnbindCommit
    <3>2. CASE cards' = cards
      BY <3>1, <3>2, SameIsKept
    <3>3. CASE \E x \in LiveCards :
                 /\ cards[x].status # 2
                 /\ UnbindAllowed(r, cards[x])
                 /\ cards' = [cards EXCEPT ![x] = UnboundCard(r, cards[x])]
      <4>1. PICK x \in LiveCards :
                 /\ cards[x].status # 2
                 /\ UnbindAllowed(r, cards[x])
                 /\ cards' = [cards EXCEPT ![x] = UnboundCard(r, cards[x])]
        BY <3>3
      <4>2. CASE x = c
        <5>1. cards'[c] = UnboundCard(r, cards[c])
          BY <4>1, <4>2 DEF TypeOK
        <5> QED
          BY <2>2, <3>1, <4>1, <4>2, <5>1 DEF CardUnbound, CardMoved
      <4>3. CASE x # c
        <5>1. cards'[c] = cards[c]
          BY <4>1, <4>3 DEF TypeOK
        <5> QED
          BY <3>1, <5>1 DEF CardKept, CardMoved
      <4> QED
        BY <4>2, <4>3
    <3> QED
      BY <2>2, <3>2, <3>3 DEF UnbindCommit
  <2> QED
    BY <1>3, <2>1, <2>2 DEF Unbind
<1>4. ASSUME CardEdit PROVE CardMoved(c)
  <2>1. ASSUME NEW x \in CardIds, NEW spec \in CardSpecs, CreateCard(x, spec)
        PROVE  CardMoved(c)
    <3>1. CASE x = c
      <4>1. cards'[c] = NewCard(spec)
        BY <2>1, <3>1 DEF CreateCard, TypeOK
      <4> QED
        BY <2>1, <3>1, <4>1 DEF CreateCard, CardBorn, CardMoved
    <3>2. CASE x # c
      BY <2>1, <3>2 DEF CreateCard, CardKept, CardMoved
    <3> QED
      BY <3>1, <3>2
  <2>2. ASSUME NEW w, NEW x, EnableCardRead(w, x) PROVE CardMoved(c)
    BY <2>2, SameIsKept DEF EnableCardRead, tables, history
  <2>3. ASSUME NEW r \in enables, EnableCardWrite(r) PROVE CardMoved(c)
    <3>1. r.value \in 0..1
      BY DEF EnableEdit, TypeOK
    <3>2. CASE c = r.card /\ c \in LiveCards
      BY <1>0, <2>3, <3>1, <3>2
         DEF EnableCardWrite, CardEdited, CardMoved, CardRow, history
    <3>3. CASE ~(c = r.card /\ c \in LiveCards)
      BY <2>3, <3>3 DEF EnableCardWrite, CardKept, CardMoved, history
    <3> QED
      BY <3>2, <3>3
  <2>4. ASSUME NEW w, NEW x, NEW n, NEW up, AdjustRead(w, x, n, up) PROVE CardMoved(c)
    BY <2>4, SameIsKept DEF AdjustRead, tables, history
  <2>5. ASSUME NEW r, AdjustWrite(r) PROVE CardMoved(c)
    <3>1. CASE c = r.card /\ c \in LiveCards
      BY <1>0, <2>5, <3>1 DEF AdjustWrite, CardEdited, CardMoved, CardRow
    <3>2. CASE ~(c = r.card /\ c \in LiveCards)
      BY <2>5, <3>2 DEF AdjustWrite, CardKept, CardMoved
    <3> QED
      BY <3>1, <3>2
  <2>6. ASSUME NEW S, \/ DisableCards(S) \/ ResetUses(S) \/ DeleteCards(S)
                      \/ \E n \in Amounts : ResetDuration(S, n)
        PROVE  CardMoved(c)
    BY <2>6, BulkMoves
  <2> QED
    BY <1>4, <2>1, <2>2, <2>3, <2>4, <2>5, <2>6 DEF CardEdit
<1>5. ASSUME RangeEdit PROVE CardMoved(c)
  <2>1. PICK from \in 1..now, to \in 1..now :
            LET S == Activated(from, to)
            IN  \/ EnableActivated(S)
                \/ DisableCards(S)
                \/ ResetUses(S)
                \/ DeleteCards(S)
                \/ \E n \in Amounts :
                      \/ ResetDuration(S, n)
                      \/ \E up \in BOOLEAN : AdjustActivated(S, n, up)
    BY <1>5 DEF RangeEdit
  <2>2. Activated(from, to) \subseteq LiveCards
    BY DEF Activated
  <2> QED
    BY <2>1, <2>2, BulkMoves
<1>6. ASSUME DeviceEdit PROVE CardMoved(c)
  BY <1>6, SameIsKept
     DEF DeviceEdit, DisableDevice, RevokeDevice, DisableDevices, EnableDevices,
         DeleteDevices, history
<1>7. ASSUME \/ \E a \in Settings : UpdateApp(a)
             \/ Tick \/ Cleanup \/ Drop \/ UNCHANGED vars
      PROVE  CardMoved(c)
  BY <1>7, SameIsKept
     DEF UpdateApp, Tick, Cleanup, ForgetNonces, ForgetSessions, Drop, tables,
         history, vars
<1> QED
  BY <1>1, <1>2, <1>3, <1>4, <1>5, <1>6, <1>7 DEF Next

-----------------------------------------------------------------------------
(* The rows a charge leaves                                                *)

LEMMA ChargedColumns ==
    ASSUME NEW card \in CardRow, NEW at \in Nat
    PROVE  /\ ChargedCard(card, at).row = card.row
           /\ ChargedCard(card, at).type = card.type
           /\ ChargedCard(card, at).hash = card.hash
           /\ ChargedCard(card, at).total = card.total
           /\ ChargedCard(card, at).unbindLimit = card.unbindLimit
           /\ ChargedCard(card, at).unbindCount = card.unbindCount
           /\ ChargedCard(card, at).remaining =
                 IF card.type = "count" THEN Minus(card.remaining, 1)
                                        ELSE card.remaining
           /\ ChargedCard(card, at).usedAt = 0 => at = 0
           /\ card.status # 2 => ChargedCard(card, at).status # 2
BY DEF ChargedCard, CardRow

LEMMA UnboundColumns ==
    ASSUME NEW card \in CardRow, NEW r \in UnbindRequest
    PROVE  /\ UnboundCard(r, card).row = card.row
           /\ UnboundCard(r, card).type = card.type
           /\ UnboundCard(r, card).total = card.total
           /\ UnboundCard(r, card).unbindLimit = card.unbindLimit
           /\ UnboundCard(r, card).unbindCount = card.unbindCount + 1
           /\ UnboundCard(r, card).remaining \in Nat
           /\ UnboundCard(r, card).remaining <= card.remaining
           /\ UnboundCard(r, card).usedAt = card.usedAt
           /\ UnboundCard(r, card).status = card.status
<1>1. r.app.deductUses \in Nat /\ card.remaining \in Nat
  BY ConstantTypes DEF UnbindRequest, Setting, CardRow
<1>2. /\ Minus(card.remaining, r.app.deductUses) \in Nat
      /\ Minus(card.remaining, r.app.deductUses) <= card.remaining
  BY <1>1 DEF Minus
<1> QED
  BY <1>1, <1>2 DEF UnboundCard, CardRow

(* The row a login leaves, for a card it has charged.                      *)
LEMMA UsedCard ==
    ASSUME TypeOK, NEW c \in CardIds, CardUsed(c)
    PROVE  \E r \in logins :
              /\ cards'[c] = ChargedCard(cards[c], r.at)
              /\ r.at \in Nat
              /\ cards[c].row = "live"
              /\ cards[c].status # 2
              /\ HasUse(cards[c])
              /\ granted'[c] = IF cards[c].type = "count" THEN granted[c] + 1
                                                          ELSE granted[c]
<1>1. PICK r \in logins, s \in SessionIds : LoginCommit(r, c, s)
  BY DEF CardUsed
<1>2. r.at \in Nat
  BY DEF TypeOK, LoginRequest
<1>3. cards'[c] = ChargedCard(cards[c], r.at)
  BY <1>1 DEF LoginCommit, TypeOK
<1>4. /\ cards[c].row = "live" /\ cards[c].status # 2 /\ HasUse(cards[c])
  BY <1>1 DEF LoginCommit, LiveCards
<1>5. CASE cards[c].type = "count"
  <2>1. granted' = [granted EXCEPT ![c] = @ + 1]
    BY <1>1, <1>5 DEF LoginCommit
  <2> QED
    BY <1>2, <1>3, <1>4, <1>5, <2>1 DEF TypeOK
<1>6. CASE cards[c].type # "count"
  <2>1. granted' = granted
    BY <1>1, <1>6 DEF LoginCommit
  <2> QED
    BY <1>2, <1>3, <1>4, <1>6, <2>1
<1> QED
  BY <1>5, <1>6

-----------------------------------------------------------------------------
(* Unbind quota                                                            *)

LEMMA UnbindStep == TypeOK /\ UnbindWithinLimit /\ [Next]_vars => UnbindWithinLimit'
<1> SUFFICES ASSUME TypeOK, UnbindWithinLimit, [Next]_vars,
                    NEW c \in CardIds, cards'[c].row = "live",
                    cards'[c].unbindLimit > 0
             PROVE  cards'[c].unbindCount <= cards'[c].unbindLimit
  BY DEF UnbindWithinLimit, LiveCards
<1>0. cards[c] \in CardRow
  BY DEF TypeOK
<1>1. CASE CardKept(c)
  BY <1>1 DEF CardKept, UnbindWithinLimit, LiveCards
<1>2. CASE CardUsed(c)
  BY <1>0, <1>2, UsedCard, ChargedColumns DEF UnbindWithinLimit, LiveCards
<1>3. CASE CardUnbound(c)
  <2>1. PICK r \in unbinds : UnbindAllowed(r, cards[c]) /\ cards'[c] = UnboundCard(r, cards[c])
    BY <1>3 DEF CardUnbound
  <2>2. r \in UnbindRequest
    BY DEF TypeOK
  <2>3. /\ cards'[c].unbindCount = cards[c].unbindCount + 1
        /\ cards'[c].unbindLimit = cards[c].unbindLimit
    BY <1>0, <2>1, <2>2, UnboundColumns
  <2> QED
    BY <1>0, <2>1, <2>3 DEF UnbindAllowed, CardRow
<1>4. CASE CardBorn(c)
  <2>1. PICK spec \in CardSpecs : cards'[c] = NewCard(spec)
    BY <1>4 DEF CardBorn
  <2>2. spec.unbindLimit \in Nat
    BY ConstantTypes DEF CardSpec
  <2> QED
    BY <2>1, <2>2 DEF NewCard
<1>5. CASE CardEdited(c)
  BY <1>5 DEF CardEdited, UnbindWithinLimit, LiveCards
<1>6. CASE CardGone(c)
  BY <1>6 DEF CardGone
<1> QED
  BY <1>1, <1>2, <1>3, <1>4, <1>5, <1>6, CardWrites DEF CardMoved

(* However many unbinds run side by side, none takes a card over its       *)
(* unbind limit: the count that assert_client_unbind_allowed compares is   *)
(* that of the locked row.                                                 *)
THEOREM UnbindsWithinLimit == Spec => []UnbindWithinLimit
<1>1. Init => UnbindWithinLimit
  BY DEF Init, UnbindWithinLimit, LiveCards, NoCard
<1> QED
  BY <1>1, UnbindStep, TypeStep, TypeInit, PTL DEF Spec

LEMMA UnbindPaid ==
    ASSUME TypeOK, [Next]_vars, NEW c \in LiveCards, cards'[c].row = "live",
           cards'[c].unbindCount # cards[c].unbindCount
    PROVE  /\ cards'[c].unbindCount = cards[c].unbindCount + 1
           /\ \E d \in LiveDevices, r \in unbinds :
                 /\ devices'[d].row = "deleted"
                 /\ r \notin unbinds'
                 /\ devices[d].inst = r.inst
                 /\ devices[d].key = r.key
<1>0. c \in CardIds /\ cards[c] \in CardRow /\ cards[c].row = "live"
  BY DEF TypeOK, LiveCards
<1>1. CardUnbound(c)
  <2>1. ~CardUsed(c)
    BY <1>0, UsedCard, ChargedColumns
  <2>2. ~CardKept(c) /\ ~CardBorn(c) /\ ~CardEdited(c) /\ ~CardGone(c)
    BY <1>0 DEF CardKept, CardBorn, CardEdited, CardGone
  <2> QED
    BY <1>0, <2>1, <2>2, CardWrites DEF CardMoved
<1>2. PICK r \in unbinds : UnbindCommit(r) /\ cards'[c] = UnboundCard(r, cards[c])
  BY <1>1 DEF CardUnbound
<1>3. cards'[c].unbindCount = cards[c].unbindCount + 1
  <2>1. r \in UnbindRequest
    BY DEF TypeOK
  <2> QED
    BY <1>0, <1>2, <2>1, UnboundColumns
<1>4. PICK d \in SignedDevices(r) : devices' = DevicesRemoved({d})
  BY <1>2 DEF UnbindCommit
<1>5. /\ d \in LiveDevices /\ devices'[d].row = "deleted"
      /\ devices[d].inst = r.inst /\ devices[d].key = r.key
  BY <1>4 DEF SignedDevices, DevicesOf, LiveDevices, DevicesRemoved, NoDevice
<1>6. r \notin unbinds'
  BY <1>2 DEF UnbindCommit
<1> QED
  BY <1>3, <1>5, <1>6

(* No unbind is charged that does not remove the device whose key signed   *)
(* it.                                                                     *)
THEOREM UnbindsPayForDevice == Spec => UnbindPaysForDevice
<1>1. ASSUME TypeOK, [Next]_vars
      PROVE  \A c \in LiveCards :
                (/\ cards'[c].row = "live"
                 /\ cards'[c].unbindCount # cards[c].unbindCount) =>
                    /\ cards'[c].unbindCount = cards[c].unbindCount + 1
                    /\ \E d \in LiveDevices, r \in unbinds :
                          /\ devices'[d].row = "deleted"
                          /\ r \notin unbinds'
                          /\ devices[d].inst = r.inst
                          /\ devices[d].key = r.key
  BY <1>1, UnbindPaid
<1> QED
  BY <1>1, TypeCorrect, PTL DEF Spec, UnbindPaysForDevice

-----------------------------------------------------------------------------
(* Count cards                                                             *)

(* Ids are not used twice: what has not been created has granted nothing.  *)
CountInv ==
    /\ CountConserved
    /\ \A c \in CardIds : cards[c].row = "unborn" => granted[c] = 0

LEMMA CountStep == TypeOK /\ CountInv /\ [Next]_vars => CountInv'
<1> SUFFICES ASSUME TypeOK, CountInv, [Next]_vars, NEW c \in CardIds
             PROVE  /\ cards'[c].row = "unborn" => granted'[c] = 0
                    /\ cards'[c].row = "live" /\ cards'[c].type = "count" =>
                          granted'[c] + cards'[c].remaining <= cards'[c].total
  BY DEF CountInv, CountConserved, LiveCards
<1>0. /\ cards[c] \in CardRow /\ granted[c] \in Nat
      /\ cards[c].remaining \in Nat /\ cards[c].total \in Nat
      /\ cards[c].row = "unborn" => granted[c] = 0
      /\ cards[c].row = "live" /\ cards[c].type = "count" =>
            granted[c] + cards[c].remaining <= cards[c].total
  BY DEF TypeOK, CountInv, CountConserved, LiveCards, CardRow
<1>1. CASE CardKept(c)
  BY <1>0, <1>1 DEF CardKept
<1>2. CASE CardUsed(c)
  <2>1. PICK r \in logins :
              /\ cards'[c] = ChargedCard(cards[c], r.at)
              /\ r.at \in Nat
              /\ cards[c].row = "live"
              /\ HasUse(cards[c])
              /\ granted'[c] = IF cards[c].type = "count" THEN granted[c] + 1
                                                          ELSE granted[c]
    BY <1>2, UsedCard
  <2>2. /\ cards'[c].row = "live" /\ cards'[c].type = cards[c].type
        /\ cards'[c].total = cards[c].total
        /\ cards[c].type = "count" => cards'[c].remaining = Minus(cards[c].remaining, 1)
    BY <1>0, <2>1, ChargedColumns
  <2> QED
    BY <1>0, <2>1, <2>2 DEF HasUse, Minus
<1>3. CASE CardUnbound(c)
  <2>1. PICK r \in unbinds : cards'[c] = UnboundCard(r, cards[c])
    BY <1>3 DEF CardUnbound
  <2>2. r \in UnbindRequest /\ cards[c].row = "live" /\ granted'[c] = granted[c]
    BY <1>3 DEF TypeOK, CardUnbound, LiveCards
  <2>3. /\ cards'[c].row = "live" /\ cards'[c].type = cards[c].type
        /\ cards'[c].total = cards[c].total
        /\ cards'[c].remaining \in Nat /\ cards'[c].remaining <= cards[c].remaining
    BY <1>0, <2>1, <2>2, UnboundColumns
  <2> QED
    BY <1>0, <2>2, <2>3
<1>4. CASE CardBorn(c)
  <2>1. PICK spec \in CardSpecs : cards'[c] = NewCard(spec)
    BY <1>4 DEF CardBorn
  <2>2. spec.total \in Nat
    BY ConstantTypes DEF CardSpec
  <2> QED
    BY <1>0, <1>4, <2>1, <2>2 DEF CardBorn, NewCard
<1>5. CASE CardEdited(c)
  BY <1>0, <1>5 DEF CardEdited, LiveCards
<1>6. CASE CardGone(c)
  BY <1>6 DEF CardGone
<1> QED
  BY <1>1, <1>2, <1>3, <1>4, <1>5, <1>6, CardWrites DEF CardMoved

(* A count card grants no more logins than it was filled with.             *)
THEOREM CountIsConserved == Spec => []CountConserved
<1>1. Init => CountInv
  BY DEF Init, CountInv, CountConserved, LiveCards, NoCard
<1>2. CountInv => CountConserved
  BY DEF CountInv
<1> QED
  BY <1>1, <1>2, CountStep, TypeStep, TypeInit, PTL DEF Spec

-----------------------------------------------------------------------------
(* The rows a login opens                                                  *)

(* The row a login opens.                                                  *)
LEMMA OpenedRow ==
    ASSUME TypeOK, NEW r \in LoginRequest, NEW c, NEW d, NEW s \in SessionIds,
           NEW expiry \in Nat, OpenSession(r, c, d, s, expiry)
    PROVE  /\ sessions[s].row = "unborn"
           /\ sessions'[s].row = "live"
           /\ sessions'[s].card = c
           /\ sessions'[s].device = d
           /\ sessions'[s].expires <= r.at + SessionTTL
<1>1. r.at + SessionTTL \in Nat
  BY Bounds DEF LoginRequest
<1>2. Smaller(r.at + SessionTTL, expiry) <= r.at + SessionTTL
  BY <1>1 DEF Smaller
<1>3. \A S : Revoked(S) \in [SessionIds -> SessionRow]
  BY RevokedType DEF TypeOK
<1> QED
  BY <1>2, <1>3 DEF OpenSession

LEMMA LoginOpens ==
    ASSUME TypeOK, NEW r \in logins, NEW c \in CardIds, NEW s \in SessionIds,
           LoginCommit(r, c, s)
    PROVE  \E d : /\ sessions[s].row = "unborn"
                  /\ sessions'[s].row = "live"
                  /\ sessions'[s].card = c
                  /\ sessions'[s].device = d
                  /\ sessions'[s].expires <= r.at + SessionTTL
                  /\ d # None => /\ d \in DeviceIds
                                 /\ devices' = [devices EXCEPT
                                       ![d] = BoundDevice(r, c, devices[d])]
                  /\ d = None => devices' = devices
<1> DEFINE first == cards[c].status = 0 \/ cards[c].usedAt = 0
           expiry == ExpiryOf(cards[c], IF first THEN r.at ELSE cards[c].usedAt, r.at)
<1>1. r \in LoginRequest /\ r.at \in Nat /\ cards[c] \in CardRow /\ cards[c].usedAt \in Nat
  BY DEF TypeOK, LoginRequest, CardRow
<1>2. expiry \in Nat
  BY <1>1, ExpiryType
<1>3. CASE cards[c].type = "count"
  <2>1. OpenSession(r, c, None, s, expiry) /\ devices' = devices
    BY <1>3 DEF LoginCommit
  <2> HIDE DEF expiry
  <2> QED
    BY <1>1, <1>2, <2>1, OpenedRow
<1>4. CASE cards[c].type # "count"
  <2>1. PICK d \in DeviceIds :
            /\ OpenSession(r, c, d, s, expiry)
            /\ devices' = [devices EXCEPT ![d] = BoundDevice(r, c, devices[d])]
    BY <1>4 DEF LoginCommit
  <2>2. d # None
    BY NoneIsNothing
  <2> HIDE DEF expiry
  <2>3. /\ sessions[s].row = "unborn"
        /\ sessions'[s].row = "live"
        /\ sessions'[s].card = c
        /\ sessions'[s].device = d
        /\ sessions'[s].expires <= r.at + SessionTTL
    BY <1>1, <1>2, <2>1, OpenedRow
  <2> QED
    BY <2>1, <2>2, <2>3
<1> QED
  BY <1>3, <1>4

LEMMA VirtualOpens ==
    ASSUME TypeOK, NEW r \in logins, NEW d \in DeviceIds, NEW s \in SessionIds,
           LoginCommitVirtual(r, d, s)
    PROVE  /\ sessions[s].row = "unborn"
           /\ sessions'[s].row = "live"
           /\ sessions'[s].card = None
           /\ sessions'[s].device = d
           /\ sessions'[s].expires <= r.at + SessionTTL
           /\ devices' = [devices EXCEPT ![d] = BoundDevice(r, None, devices[d])]
BY OpenedRow, Bounds DEF LoginCommitVirtual, TypeOK

-----------------------------------------------------------------------------
(* Reset cards                                                             *)

(* A session that names a card names one that is there, and a login was    *)
(* prepared at a time: neither could tell an unused card from a used one   *)
(* otherwise.                                                              *)
SessionsNameCards ==
    \A s \in SessionIds :
        sessions[s].card # None => cards[sessions[s].card].row = "live"

LEMMA NamesStep == TypeOK /\ SessionsNameCards /\ [Next]_vars => SessionsNameCards'
<1> SUFFICES ASSUME TypeOK, SessionsNameCards, [Next]_vars, NEW s \in SessionIds,
                    sessions'[s].card # None
             PROVE  cards'[sessions'[s].card].row = "live"
  BY DEF SessionsNameCards
<1>0. TypeOK'
  BY TypeStep
<1>1. PICK c \in CardIds : c = sessions'[s].card
  BY <1>0 DEF TypeOK, SessionRow
<1>2. CASE Opened(s)
  <2>1. PICK r \in logins, x \in CardIds : LoginCommit(r, x, s)
    <3>1. ASSUME NEW r \in logins, NEW d \in DeviceIds, LoginCommitVirtual(r, d, s)
          PROVE  FALSE
      BY <3>1, VirtualOpens
    <3> QED
      BY <1>2, <3>1 DEF Opened
  <2>2. sessions'[s].card = x
    BY <2>1, LoginOpens
  <2>3. CardUsed(x) /\ cards[x] \in CardRow
    BY <2>1 DEF CardUsed, TypeOK
  <2> QED
    BY <2>2, <2>3, UsedCard, ChargedColumns
<1>3. CASE ~Opened(s)
  <2>1. sessions[s].card = c
    <3>1. ~Erased(s)
      BY DEF Erased
    <3>2. CASE Weakened(s)
      BY <1>1, <3>2 DEF Weakened
    <3>3. CASE Renewed(s)
      BY <1>1, <3>3 DEF Renewed, Rotate, RotateSession, Rotated, TypeOK, SessionRow
    <3> QED
      BY <1>1, <1>3, <3>1, <3>2, <3>3, SessionWrites
  <2> SUFFICES cards'[c].row = "live"
    BY <1>1
  <2>2. cards[c].row = "live" /\ cards[c] \in CardRow
    BY <1>1, <2>1, NoneIsNothing DEF SessionsNameCards, TypeOK
  <2>3. CASE CardKept(c)
    BY <2>2, <2>3 DEF CardKept
  <2>4. CASE CardUsed(c)
    BY <1>1, <2>2, <2>4, UsedCard, ChargedColumns
  <2>5. CASE CardUnbound(c)
    <3>1. PICK r \in unbinds : cards'[c] = UnboundCard(r, cards[c])
      BY <2>5 DEF CardUnbound
    <3>2. r \in UnbindRequest
      BY DEF TypeOK
    <3> QED
      BY <2>2, <3>1, <3>2, UnboundColumns
  <2>6. CASE CardBorn(c)
    BY <2>2, <2>6 DEF CardBorn
  <2>7. CASE CardEdited(c)
    BY <2>2, <2>7 DEF CardEdited
  <2>8. CASE CardGone(c)
    BY <1>1, <2>8 DEF CardGone
  <2> QED
    BY <1>1, <2>3, <2>4, <2>5, <2>6, <2>7, <2>8, CardWrites DEF CardMoved
<1> QED
  BY <1>2, <1>3

UnusedInv ==
    /\ SessionsNameCards
    /\ UnusedCardHasNoSession
    /\ now > 0
    /\ \A r \in logins : r.at > 0

-----------------------------------------------------------------------------
(* What puts a request in flight                                           *)

(* A login commits: its challenge is reserved.                             *)
Accepts(r) ==
    /\ now' = now
    /\ ChallengeUnused(r)
    /\ nonces' = IF r.ch.id = None THEN nonces ELSE nonces \cup {r.ch}
    /\ accepted' = [accepted EXCEPT ![r.ch] = @ + 1]

(* Which steps move the clock, put a request in flight or touch the        *)
(* nonces.                                                                 *)
Arrives ==
    /\ now' \in {now, now + 1}
    /\ \/ logins' \subseteq logins
       \/ /\ now' = now
          /\ \/ \E w \in Workers, h \in Hashes, ch \in Challenges, g \in Regions :
                   LoginPrepare(w, h, ch, g)
             \/ \E r \in logins : LoginSnapshot(r)
    /\ \/ calls' \subseteq calls
       \/ \E w \in Workers, s \in SessionIds, n \in 1..MaxCounter,
             kind \in {"rotate", "logout"} : SessionPrepare(w, s, kind, n)
    /\ \/ nonces' = nonces /\ accepted' = accepted
       \/ \E at \in 1..now : ForgetNonces(at)
       \/ \E r \in logins : Accepts(r)

LEMMA Arrivals == [Next]_vars => Arrives
<1> SUFFICES ASSUME [Next]_vars PROVE Arrives
  OBVIOUS
<1> DEFINE Still == /\ now' = now /\ nonces' = nonces /\ accepted' = accepted
                    /\ logins' \subseteq logins /\ calls' \subseteq calls
<1>0. Still => Arrives
  BY DEF Arrives
<1>1. ASSUME Login PROVE Arrives
  <2>1. ASSUME NEW w \in Workers, NEW h \in Hashes, NEW ch \in Challenges,
               NEW g \in Regions, LoginPrepare(w, h, ch, g)
        PROVE  Arrives
    BY <2>1 DEF LoginPrepare, Arrives, tables, history
  <2>2. ASSUME NEW r \in logins, LoginSnapshot(r) PROVE Arrives
    BY <2>2 DEF LoginSnapshot, Arrives, tables, history
  <2>3. ASSUME NEW r \in logins, NEW c, NEW s, LoginCommit(r, c, s) PROVE Arrives
    <3>1. Accepts(r) /\ now' = now /\ logins' \subseteq logins /\ calls' = calls
      BY <2>3 DEF LoginCommit, Accepts
    <3> QED
      BY <3>1 DEF Arrives
  <2>4. ASSUME NEW r \in logins, NEW d, NEW s, LoginCommitVirtual(r, d, s) PROVE Arrives
    <3>1. Accepts(r) /\ now' = now /\ logins' \subseteq logins /\ calls' = calls
      BY <2>4 DEF LoginCommitVirtual, Accepts
    <3> QED
      BY <3>1 DEF Arrives
  <2> QED
    BY <1>1, <2>1, <2>2, <2>3, <2>4 DEF Login
<1>2. ASSUME SessionRequest PROVE Arrives
  <2>1. ASSUME NEW w \in Workers, NEW s \in SessionIds, NEW n \in 1..MaxCounter,
               NEW kind \in {"rotate", "logout"}, SessionPrepare(w, s, kind, n)
        PROVE  Arrives
    BY <2>1 DEF SessionPrepare, Arrives, tables, history
  <2>2. ASSUME NEW r, Rotate(r) \/ Logout(r) PROVE Still
    BY <2>2 DEF Rotate, Logout, history
  <2> QED
    BY <1>0, <1>2, <2>1, <2>2 DEF SessionRequest
<1>3. Unbind => Still
  BY DEF Unbind, UnbindPrepare, UnbindCommit, tables, history
<1>4. ASSUME NEW S,
             \/ DisableCards(S) \/ EnableActivated(S) \/ ResetUses(S) \/ DeleteCards(S)
             \/ \E n \in Amounts : ResetDuration(S, n)
             \/ \E n \in Amounts, up \in BOOLEAN : AdjustActivated(S, n, up)
      PROVE  Still
  BY <1>4 DEF DisableCards, EnableActivated, ResetUses, DeleteCards, ResetDuration,
              AdjustActivated, inflight, history
<1>5. CardEdit => Still
  <2>1. ASSUME NEW c, NEW spec, CreateCard(c, spec) PROVE Still
    BY <2>1 DEF CreateCard, inflight
  <2>2. ASSUME NEW r, EnableCardWrite(r) \/ AdjustWrite(r) PROVE Still
    BY <2>2 DEF EnableCardWrite, AdjustWrite, history
  <2>3. ASSUME NEW w, NEW c, EnableCardRead(w, c) PROVE Still
    BY <2>3 DEF EnableCardRead, tables, history
  <2>4. ASSUME NEW w, NEW c, NEW n, NEW up, AdjustRead(w, c, n, up) PROVE Still
    BY <2>4 DEF AdjustRead, tables, history
  <2> HIDE DEF Still
  <2> QED
    BY <1>4, <2>1, <2>2, <2>3, <2>4 DEF CardEdit
<1>6. RangeEdit => Still
  <2> HIDE DEF Still
  <2>1. ASSUME RangeEdit
        PROVE  \E from, to \in 1..now :
                 LET S == Activated(from, to)
                 IN  \/ DisableCards(S) \/ EnableActivated(S) \/ ResetUses(S) \/ DeleteCards(S)
                     \/ \E n \in Amounts : ResetDuration(S, n)
                     \/ \E n \in Amounts, up \in BOOLEAN : AdjustActivated(S, n, up)
    BY <2>1 DEF RangeEdit
  <2> QED
    BY <1>4, <2>1
<1>7. DeviceEdit => Still
  BY DEF DeviceEdit, DisableDevice, RevokeDevice, DisableDevices, EnableDevices,
         DeleteDevices, inflight, history
<1>8. (\E a \in Settings : UpdateApp(a)) \/ Drop \/ UNCHANGED vars => Still
  BY DEF UpdateApp, Drop, inflight, vars, tables, history
<1>9. Tick => Arrives
  BY DEF Tick, Arrives, tables, inflight, history
<1>10. Cleanup => Arrives
  <2>1. ASSUME NEW at \in 1..now, ForgetNonces(at) PROVE Arrives
    BY <2>1 DEF ForgetNonces, Arrives, inflight, history
  <2>2. ASSUME NEW at \in 1..now, ForgetSessions(at) PROVE Still
    BY <2>2 DEF ForgetSessions, inflight, history
  <2> QED
    BY <1>0, <2>1, <2>2 DEF Cleanup
<1> HIDE DEF Still
<1> QED
  BY <1>0, <1>1, <1>2, <1>3, <1>5, <1>6, <1>7, <1>8, <1>9, <1>10 DEF Next

(* The clock starts at 1 and logins take their time from it.               *)
LEMMA LoginTimes ==
    ASSUME TypeOK, now > 0, \A r \in logins : r.at > 0, [Next]_vars
    PROVE  now' > 0 /\ \A r \in logins' : r.at > 0
<1>0. now \in Nat /\ Arrives
  BY Arrivals DEF TypeOK
<1>1. now' > 0
  BY <1>0 DEF Arrives
<1>2. CASE logins' \subseteq logins
  BY <1>1, <1>2
<1>3. CASE \E w \in Workers, h \in Hashes, ch \in Challenges, g \in Regions :
              LoginPrepare(w, h, ch, g)
  BY <1>1, <1>3 DEF LoginPrepare
<1>4. CASE \E r \in logins : LoginSnapshot(r)
  <2>1. PICK r \in logins : LoginSnapshot(r)
    BY <1>4
  <2>2. [r EXCEPT !.alone = TRUE].at = r.at
    BY DEF TypeOK, LoginRequest
  <2>3. logins' = (logins \ {r}) \cup {[r EXCEPT !.alone = TRUE]}
    BY <2>1 DEF LoginSnapshot
  <2> QED
    BY <1>1, <2>2, <2>3
<1> QED
  BY <1>0, <1>2, <1>3, <1>4 DEF Arrives

-----------------------------------------------------------------------------
(* Unused cards                                                            *)

(* A session that names an unused card and was already ended stays so.     *)
LEMMA UnusedKept ==
    ASSUME TypeOK, UnusedInv, [Next]_vars,
           NEW c \in LiveCards, NEW s \in SessionIds,
           cards[c].usedAt = 0, ~CardUsed(c),
           sessions'[s].row = "live", sessions'[s].card = c
    PROVE  sessions'[s].status = 0
<1>0. c \in CardIds /\ c # None
  BY NoneIsNothing DEF LiveCards
<1>1. CASE Weakened(s)
  <2>1. sessions[s].row = "live" /\ sessions[s].card = c
    BY <1>0, <1>1 DEF Weakened
  <2>2. sessions[s].status = 0
    BY <2>1 DEF UnusedInv, UnusedCardHasNoSession, LiveSessions
  <2> QED
    BY <1>1, <2>2 DEF Weakened
<1>2. CASE Erased(s)
  BY <1>2 DEF Erased
<1>3. CASE Opened(s)
  <2>1. ASSUME NEW r \in logins, NEW x \in CardIds, LoginCommit(r, x, s) PROVE FALSE
    <3>1. sessions'[s].card = x
      BY <2>1, LoginOpens
    <3> QED
      BY <2>1, <3>1 DEF CardUsed
  <2>2. ASSUME NEW r \in logins, NEW d \in DeviceIds, LoginCommitVirtual(r, d, s)
        PROVE  FALSE
    <3>1. sessions'[s].card = None
      BY <2>2, VirtualOpens
    <3> QED
      BY <1>0, <3>1
  <2> QED
    BY <1>3, <2>1, <2>2 DEF Opened
<1>4. CASE Renewed(s)
  <2>1. /\ sessions[s].status = 1 /\ s \in LiveSessions
        /\ sessions'[s].card = sessions[s].card
    BY <1>4 DEF Renewed, Rotate, RotateSession, Rotated, StillCurrent, TypeOK, SessionRow
  <2> QED
    BY <2>1 DEF UnusedInv, UnusedCardHasNoSession
<1> QED
  BY <1>1, <1>2, <1>3, <1>4, SessionWrites

LEMMA UnusedStep == TypeOK /\ UnusedInv /\ [Next]_vars => UnusedInv'
<1> SUFFICES ASSUME TypeOK, UnusedInv, [Next]_vars PROVE UnusedInv'
  OBVIOUS
<1>1. SessionsNameCards'
  BY NamesStep DEF UnusedInv
<1>2. now' > 0 /\ \A r \in logins' : r.at > 0
  BY LoginTimes DEF UnusedInv
<1>3. ASSUME NEW c \in CardIds, NEW s \in SessionIds, cards'[c].row = "live",
             cards'[c].usedAt = 0, sessions'[s].row = "live", sessions'[s].card = c
      PROVE  sessions'[s].status = 0
  <2>0. cards[c] \in CardRow /\ c # None
    BY NoneIsNothing DEF TypeOK
  <2>1. ASSUME c \in LiveCards, cards[c].usedAt = 0, ~CardUsed(c)
        PROVE  sessions'[s].status = 0
    BY <1>3, <2>1, UnusedKept
  <2>2. ~CardUsed(c)
    BY <1>3, <2>0, UsedCard, ChargedColumns DEF UnusedInv
  <2>3. CASE CardKept(c)
    BY <1>3, <2>1, <2>2, <2>3 DEF CardKept, LiveCards
  <2>4. CASE CardUnbound(c)
    <3>1. PICK r \in unbinds : cards'[c] = UnboundCard(r, cards[c])
      BY <2>4 DEF CardUnbound
    <3>2. r \in UnbindRequest /\ c \in LiveCards
      BY <2>4 DEF TypeOK, CardUnbound
    <3>3. cards[c].usedAt = 0
      BY <1>3, <2>0, <3>1, <3>2, UnboundColumns
    <3> QED
      BY <2>1, <2>2, <3>2, <3>3
  <2>5. CASE CardBorn(c)
    BY <1>3, <2>0, <2>5 DEF CardBorn, UnusedInv, SessionsNameCards
  <2>6. CASE CardEdited(c)
    <3>1. CASE cards'[c].usedAt = cards[c].usedAt
      BY <1>3, <2>1, <2>2, <2>6, <3>1 DEF CardEdited
    <3>2. CASE \E S : c \in S /\ sessions' = EndSessionsOf(S)
      <4>1. PICK S : c \in S /\ sessions' = EndSessionsOf(S)
        BY <3>2
      <4>2. sessions[s].card = c /\ sessions[s].row = "live" /\ sessions[s] \in SessionRow
        BY <1>3, <4>1 DEF EndSessionsOf, Revoked, TypeOK, SessionRow
      <4>3. OnCard(s, c, cards[c].hash)
        BY <2>0, <4>2 DEF OnCard
      <4> QED
        BY <4>1, <4>2, <4>3 DEF EndSessionsOf, Revoked, LiveSessions, SessionRow
    <3> QED
      BY <2>6, <3>1, <3>2 DEF CardEdited
  <2>7. CASE CardGone(c)
    BY <1>3, <2>7 DEF CardGone
  <2> QED
    BY <2>2, <2>3, <2>4, <2>5, <2>6, <2>7, CardWrites DEF CardMoved
<1>4. UnusedCardHasNoSession'
  BY <1>3 DEF UnusedCardHasNoSession, LiveCards, LiveSessions
<1> QED
  BY <1>1, <1>2, <1>4 DEF UnusedInv

(* While a card counts as unused no session that names it is left: no      *)
(* login and no heartbeat that was in flight survives a reset.             *)
THEOREM ResetEndsSessions == Spec => []UnusedCardHasNoSession
<1>1. Init => UnusedInv
  BY DEF Init, UnusedInv, SessionsNameCards, UnusedCardHasNoSession, LiveCards,
         LiveSessions, NoCard, NoSession
<1>2. UnusedInv => UnusedCardHasNoSession
  BY DEF UnusedInv
<1> QED
  BY <1>1, <1>2, UnusedStep, TypeStep, TypeInit, PTL DEF Spec

-----------------------------------------------------------------------------
(* Login challenges                                                        *)

(* A challenge that has been accepted is reserved while it is valid.       *)
Reserved ==
    \A ch \in Challenges :
        (ch.id # None /\ now <= ch.expires /\ accepted[ch] # 0) => ch \in nonces

LEMMA ReservedStep == TypeOK /\ Reserved /\ [Next]_vars => Reserved'
<1> SUFFICES ASSUME TypeOK, Reserved, [Next]_vars, NEW ch \in Challenges,
                    ch.id # None, now' <= ch.expires, accepted'[ch] # 0
             PROVE  ch \in nonces'
  BY DEF Reserved
<1>0. now \in Nat /\ now' \in {now, now + 1} /\ ch.expires \in Nat
  BY ConstantTypes, Arrivals DEF TypeOK, Challenge, Arrives
<1>1. now <= ch.expires
  BY <1>0
<1>2. CASE nonces' = nonces /\ accepted' = accepted
  BY <1>1, <1>2 DEF Reserved
<1>3. CASE \E at \in 1..now : ForgetNonces(at)
  <2>1. PICK at \in 1..now : ForgetNonces(at)
    BY <1>3
  <2>2. accepted' = accepted /\ nonces' = {x \in nonces : x.expires >= at}
    BY <2>1 DEF ForgetNonces, history
  <2>3. ch \in nonces
    BY <1>1, <2>2 DEF Reserved
  <2>4. ch.expires >= at
    BY <1>0, <1>1
  <2> QED
    BY <2>2, <2>3, <2>4
<1>4. CASE \E r \in logins : Accepts(r)
  <2>1. PICK r \in logins : Accepts(r)
    BY <1>4
  <2>2. CASE r.ch = ch
    BY <2>1, <2>2 DEF Accepts
  <2>3. CASE r.ch # ch
    <3>1. accepted[ch] # 0
      BY <2>1, <2>3 DEF Accepts, TypeOK
    <3>2. ch \in nonces
      BY <1>1, <3>1 DEF Reserved
    <3> QED
      BY <2>1, <3>2 DEF Accepts
  <2> QED
    BY <2>2, <2>3
<1> QED
  BY <1>2, <1>3, <1>4, Arrivals DEF Arrives

LEMMA ReservedAcceptsOnce ==
    ASSUME TypeOK, Reserved, [Next]_vars
    PROVE  \A ch \in Challenges :
              (ch.id # None /\ now <= ch.expires /\ accepted'[ch] # accepted[ch])
                  => accepted[ch] = 0
<1> SUFFICES ASSUME NEW ch \in Challenges, ch.id # None, now <= ch.expires,
                    accepted'[ch] # accepted[ch]
             PROVE  accepted[ch] = 0
  OBVIOUS
<1>1. PICK r \in logins : Accepts(r)
  BY Arrivals DEF Arrives, ForgetNonces, history
<1>2. r.ch = ch
  BY <1>1 DEF Accepts, TypeOK
<1>3. ch \notin nonces
  BY <1>1, <1>2 DEF Accepts, ChallengeUnused
<1> QED
  BY <1>3 DEF Reserved

(* Whatever copies of a login request are in flight, one challenge         *)
(* authorises one login while it is valid.                                 *)
THEOREM ChallengeAcceptedOnce == Spec => ChallengeOncePerLife
<1>1. ASSUME TypeOK, Reserved, [Next]_vars
      PROVE  \A ch \in Challenges :
                (ch.id # None /\ now <= ch.expires /\ accepted'[ch] # accepted[ch])
                    => accepted[ch] = 0
  BY <1>1, ReservedAcceptsOnce
<1>2. Init => Reserved
  BY DEF Init, Reserved
<1> QED
  BY <1>1, <1>2, ReservedStep, TypeStep, TypeInit, PTL DEF Spec, ChallengeOncePerLife

-----------------------------------------------------------------------------
(* What a step may do to a device                                          *)

DeviceKept(d) ==
    /\ devices'[d].row = devices[d].row
    /\ devices'[d].key = devices[d].key
    /\ devices'[d].status = devices[d].status

DeviceBound(d) ==
    \E r \in logins, c \in CardIds \cup {None}, room \in BOOLEAN :
        /\ Admits(r, d, room)
        /\ devices'[d] = BoundDevice(r, c, devices[d])

DeviceSwitched(d) ==
    /\ devices'[d].row = devices[d].row
    /\ devices'[d].key = devices[d].key
    /\ \/ devices'[d].status = 1
       \/ \E r \in revokes' : r.device = d
       \/ \E S : d \in S /\ sessions' = Revoked(SessionsOn(S))

DeviceGone(d) == devices'[d].row = "deleted"

DeviceMoved(d) == DeviceKept(d) \/ DeviceBound(d) \/ DeviceSwitched(d) \/ DeviceGone(d)

LEMMA DeviceUntouched ==
    ASSUME NEW d, devices'[d] = devices[d]
    PROVE  DeviceMoved(d)
BY DEF DeviceKept, DeviceMoved

LEMMA DeviceWrites ==
    ASSUME TypeOK, [Next]_vars, NEW d \in DeviceIds
    PROVE  DeviceMoved(d)
<1>0. devices[d] \in DeviceRow
  BY DEF TypeOK
<1>1. ASSUME devices' = devices PROVE DeviceMoved(d)
  BY <1>1, DeviceUntouched
<1>2. ASSUME Login PROVE DeviceMoved(d)
  <2>1. ASSUME NEW w, NEW h, NEW ch, NEW g, LoginPrepare(w, h, ch, g)
        PROVE  DeviceMoved(d)
    BY <1>1, <2>1 DEF LoginPrepare, tables
  <2>2. ASSUME NEW r, LoginSnapshot(r) PROVE DeviceMoved(d)
    BY <1>1, <2>2 DEF LoginSnapshot, tables
  <2>3. ASSUME NEW r \in logins, NEW c \in CardIds, NEW s, LoginCommit(r, c, s)
        PROVE  DeviceMoved(d)
    <3>1. CASE cards[c].type = "count"
      BY <1>1, <2>3, <3>1 DEF LoginCommit
    <3>2. CASE cards[c].type # "count"
      <4>1. PICK x \in DeviceIds, room \in BOOLEAN :
                /\ Admits(r, x, room)
                /\ devices' = [devices EXCEPT ![x] = BoundDevice(r, c, devices[x])]
        BY <2>3, <3>2 DEF LoginCommit
      <4>2. CASE x = d
        <5>1. devices'[d] = BoundDevice(r, c, devices[d])
          BY <4>1, <4>2 DEF TypeOK
        <5> QED
          BY <4>1, <4>2, <5>1 DEF DeviceBound, DeviceMoved
      <4>3. CASE x # d
        BY <4>1, <4>3, DeviceUntouched DEF TypeOK
      <4> QED
        BY <4>2, <4>3
    <3> QED
      BY <3>1, <3>2
  <2>4. ASSUME NEW r \in logins, NEW x \in DeviceIds, NEW s, LoginCommitVirtual(r, x, s)
        PROVE  DeviceMoved(d)
    <3>1. /\ Admits(r, x, TRUE)
          /\ devices' = [devices EXCEPT ![x] = BoundDevice(r, None, devices[x])]
      BY <2>4 DEF LoginCommitVirtual
    <3>2. CASE x = d
      <4>1. devices'[d] = BoundDevice(r, None, devices[d])
        BY <3>1, <3>2 DEF TypeOK
      <4> QED
        BY <3>1, <3>2, <4>1 DEF DeviceBound, DeviceMoved
    <3>3. CASE x # d
      BY <3>1, <3>3, DeviceUntouched DEF TypeOK
    <3> QED
      BY <3>2, <3>3
  <2> QED
    BY <1>2, <2>1, <2>2, <2>3, <2>4 DEF Login
<1>3. ASSUME SessionRequest PROVE devices' = devices
  BY <1>3 DEF SessionRequest, SessionPrepare, Rotate, Logout, tables
<1>4. ASSUME Unbind PROVE DeviceMoved(d)
  <2>1. ASSUME NEW w, NEW h, NEW i, UnbindPrepare(w, h, i) PROVE DeviceMoved(d)
    BY <1>1, <2>1 DEF UnbindPrepare, tables
  <2>2. ASSUME NEW r, UnbindCommit(r) PROVE DeviceMoved(d)
    <3>1. PICK x : devices' = DevicesRemoved({x})
      BY <2>2 DEF UnbindCommit
    <3> QED
      BY <3>1, DeviceUntouched DEF DevicesRemoved, NoDevice, DeviceGone, DeviceMoved
  <2> QED
    BY <1>4, <2>1, <2>2 DEF Unbind
<1>5. ASSUME NEW S, DeleteCards(S) PROVE DeviceMoved(d)
  <2>1. devices'[d] = [devices[d] EXCEPT !.card = None] \/ devices'[d] = devices[d]
    BY <1>5 DEF DeleteCards
  <2> QED
    BY <1>0, <2>1 DEF DeviceKept, DeviceMoved, DeviceRow
<1>6. ASSUME NEW S,
             \/ DisableCards(S) \/ EnableActivated(S) \/ ResetUses(S)
             \/ \E n \in Amounts : ResetDuration(S, n)
             \/ \E n \in Amounts, up \in BOOLEAN : AdjustActivated(S, n, up)
      PROVE  devices' = devices
  BY <1>6 DEF DisableCards, EnableActivated, ResetUses, ResetDuration, AdjustActivated
<1>7. ASSUME CardEdit PROVE DeviceMoved(d)
  <2>1. ASSUME NEW c, NEW spec, CreateCard(c, spec) PROVE devices' = devices
    BY <2>1 DEF CreateCard
  <2>2. ASSUME NEW r, EnableCardWrite(r) \/ AdjustWrite(r) PROVE devices' = devices
    BY <2>2 DEF EnableCardWrite, AdjustWrite
  <2>3. ASSUME NEW w, NEW c, EnableCardRead(w, c) PROVE devices' = devices
    BY <2>3 DEF EnableCardRead, tables
  <2>4. ASSUME NEW w, NEW c, NEW n, NEW up, AdjustRead(w, c, n, up) PROVE devices' = devices
    BY <2>4 DEF AdjustRead, tables
  <2> QED
    BY <1>1, <1>5, <1>6, <1>7, <2>1, <2>2, <2>3, <2>4 DEF CardEdit
<1>8. ASSUME RangeEdit PROVE DeviceMoved(d)
  BY <1>1, <1>5, <1>6, <1>8 DEF RangeEdit
<1>9. ASSUME DeviceEdit PROVE DeviceMoved(d)
  <2>1. ASSUME NEW w, NEW x, DisableDevice(w, x) PROVE DeviceMoved(d)
    <3>1. CASE x = d
      <4>1. devices'[d] = [devices[d] EXCEPT !.status = 0]
        BY <2>1, <3>1 DEF DisableDevice, DevicesWithStatus
      <4>2. [w |-> w, device |-> d] \in revokes'
        BY <2>1, <3>1 DEF DisableDevice
      <4>3. \E r \in revokes' : r.device = d
        BY <4>2
      <4> QED
        BY <1>0, <4>1, <4>3 DEF DeviceSwitched, DeviceMoved, DeviceRow
    <3>2. CASE x # d
      BY <2>1, <3>2, DeviceUntouched DEF DisableDevice, DevicesWithStatus
    <3> QED
      BY <3>1, <3>2
  <2>2. ASSUME NEW r, RevokeDevice(r) PROVE DeviceMoved(d)
    BY <1>1, <2>2 DEF RevokeDevice
  <2>3. ASSUME NEW S, DisableDevices(S) PROVE DeviceMoved(d)
    <3>1. CASE d \in S
      <4>1. devices'[d] = [devices[d] EXCEPT !.status = 0]
        BY <2>3, <3>1 DEF DisableDevices, DevicesWithStatus
      <4>2. sessions' = Revoked(SessionsOn(S))
        BY <2>3 DEF DisableDevices
      <4> QED
        BY <1>0, <3>1, <4>1, <4>2 DEF DeviceSwitched, DeviceMoved, DeviceRow
    <3>2. CASE d \notin S
      BY <2>3, <3>2, DeviceUntouched DEF DisableDevices, DevicesWithStatus
    <3> QED
      BY <3>1, <3>2
  <2>4. ASSUME NEW S, EnableDevices(S) PROVE DeviceMoved(d)
    <3>1. CASE d \in S
      <4>1. devices'[d] = [devices[d] EXCEPT !.status = 1]
        BY <2>4, <3>1 DEF EnableDevices, DevicesWithStatus
      <4> QED
        BY <1>0, <4>1 DEF DeviceSwitched, DeviceMoved, DeviceRow
    <3>2. CASE d \notin S
      BY <2>4, <3>2, DeviceUntouched DEF EnableDevices, DevicesWithStatus
    <3> QED
      BY <3>1, <3>2
  <2>5. ASSUME NEW S, DeleteDevices(S) PROVE DeviceMoved(d)
    BY <2>5, DeviceUntouched DEF DeleteDevices, DevicesRemoved, NoDevice, DeviceGone, DeviceMoved
  <2> QED
    BY <1>9, <2>1, <2>2, <2>3, <2>4, <2>5 DEF DeviceEdit
<1>10. ASSUME NEW a, UpdateApp(a) PROVE DeviceMoved(d)
  <2>1. devices'[d] = [devices[d] EXCEPT !.region = None] \/ devices'[d] = devices[d]
    BY <1>10 DEF UpdateApp
  <2> QED
    BY <1>0, <2>1 DEF DeviceKept, DeviceMoved, DeviceRow
<1>11. ASSUME Tick \/ Cleanup \/ Drop \/ UNCHANGED vars PROVE devices' = devices
  BY <1>11 DEF Tick, Cleanup, ForgetNonces, ForgetSessions, Drop, tables, vars
<1> QED
  BY <1>1, <1>2, <1>3, <1>4, <1>7, <1>8, <1>9, <1>10, <1>11 DEF Next

-----------------------------------------------------------------------------
(* Device keys                                                             *)

LEMMA KeyStays ==
    ASSUME TypeOK, [Next]_vars
    PROVE  \A d \in LiveDevices :
              (devices[d].key # None /\ devices'[d].row = "live") =>
                  devices'[d].key = devices[d].key
<1> SUFFICES ASSUME NEW d \in LiveDevices, devices[d].key # None,
                    devices'[d].row = "live"
             PROVE  devices'[d].key = devices[d].key
  OBVIOUS
<1>1. d \in DeviceIds /\ devices[d].row = "live"
  BY DEF LiveDevices
<1>2. CASE DeviceBound(d)
  <2>1. PICK r \in logins, c \in CardIds \cup {None}, room \in BOOLEAN :
            /\ Admits(r, d, room)
            /\ devices'[d] = BoundDevice(r, c, devices[d])
    BY <1>2 DEF DeviceBound
  <2>2. DeviceCanLogin(r, devices[d])
    BY <1>1, <2>1 DEF Admits
  <2> QED
    BY <2>1, <2>2 DEF DeviceCanLogin, BoundDevice
<1> QED
  BY <1>1, <1>2, DeviceWrites
     DEF DeviceMoved, DeviceKept, DeviceSwitched, DeviceGone

(* A registered key is replaced by no login; only an unbind or the         *)
(* operator frees the installation for another key.                        *)
THEOREM KeysStick == Spec => KeySticky
<1>1. ASSUME TypeOK, [Next]_vars
      PROVE  \A d \in LiveDevices :
                (devices[d].key # None /\ devices'[d].row = "live") =>
                    devices'[d].key = devices[d].key
  BY <1>1, KeyStays
<1> QED
  BY <1>1, TypeCorrect, PTL DEF Spec, KeySticky

-----------------------------------------------------------------------------
(* Disabled devices                                                        *)

LEMMA RevokesLeft ==
    ASSUME "drop" \notin Ops, [Next]_vars, NEW r \in revokes, r \notin revokes'
    PROVE  RevokeDevice(r)
<1>1. ASSUME Login PROVE revokes' = revokes
  <2>1. ASSUME NEW w, NEW h, NEW ch, NEW g, LoginPrepare(w, h, ch, g)
        PROVE  revokes' = revokes
    BY <2>1 DEF LoginPrepare
  <2>2. ASSUME NEW x, LoginSnapshot(x) PROVE revokes' = revokes
    BY <2>2 DEF LoginSnapshot
  <2>3. ASSUME NEW x, NEW c, NEW s, LoginCommit(x, c, s) PROVE revokes' = revokes
    BY <2>3 DEF LoginCommit
  <2>4. ASSUME NEW x, NEW d, NEW s, LoginCommitVirtual(x, d, s) PROVE revokes' = revokes
    BY <2>4 DEF LoginCommitVirtual
  <2> QED
    BY <1>1, <2>1, <2>2, <2>3, <2>4 DEF Login
<1>2. ASSUME SessionRequest \/ Unbind PROVE revokes' = revokes
  BY <1>2 DEF SessionRequest, SessionPrepare, Rotate, Logout, Unbind, UnbindPrepare,
              UnbindCommit
<1>3. ASSUME CardEdit \/ RangeEdit PROVE revokes' = revokes
  <2>1. CASE CardEdit
    BY <2>1 DEF CardEdit, CreateCard, DisableCards, EnableCardRead, EnableCardWrite,
                AdjustRead, AdjustWrite, ResetDuration, ResetUses, DeleteCards, inflight
  <2>2. ASSUME NEW S,
               \/ DisableCards(S) \/ EnableActivated(S) \/ ResetUses(S) \/ DeleteCards(S)
               \/ \E n \in Amounts : ResetDuration(S, n)
               \/ \E n \in Amounts, up \in BOOLEAN : AdjustActivated(S, n, up)
        PROVE  revokes' = revokes
    BY <2>2 DEF DisableCards, EnableActivated, ResetUses, DeleteCards, ResetDuration,
                AdjustActivated, inflight
  <2>3. ASSUME RangeEdit
        PROVE  \E from, to \in 1..now :
                 LET S == Activated(from, to)
                 IN  \/ DisableCards(S) \/ EnableActivated(S) \/ ResetUses(S) \/ DeleteCards(S)
                     \/ \E n \in Amounts : ResetDuration(S, n)
                     \/ \E n \in Amounts, up \in BOOLEAN : AdjustActivated(S, n, up)
    BY <2>3 DEF RangeEdit
  <2> QED
    BY <1>3, <2>1, <2>2, <2>3
<1>4. ASSUME DeviceEdit PROVE RevokeDevice(r)
  BY <1>4 DEF DeviceEdit, DisableDevice, RevokeDevice, DisableDevices, EnableDevices,
              DeleteDevices, inflight
<1>5. ASSUME (\E a \in Settings : UpdateApp(a)) \/ Tick \/ Cleanup \/ UNCHANGED vars
      PROVE  FALSE
  BY <1>5 DEF UpdateApp, Tick, Cleanup, ForgetNonces, ForgetSessions, inflight, vars
<1> QED
  BY <1>1, <1>2, <1>3, <1>4, <1>5 DEF Next

LEMMA QuietStep ==
    ASSUME "drop" \notin Ops
    PROVE  TypeOK /\ DisabledDeviceIsQuiet /\ [Next]_vars => DisabledDeviceIsQuiet'
<1> SUFFICES ASSUME TypeOK, DisabledDeviceIsQuiet, [Next]_vars,
                    NEW d \in DeviceIds, devices'[d].row = "live",
                    devices'[d].status = 0, ~\E r \in revokes' : r.device = d,
                    NEW s \in SessionIds, sessions'[s].row = "live",
                    sessions'[s].device = d
             PROVE  sessions'[s].status = 0
  BY DEF DisabledDeviceIsQuiet, LiveDevices, LiveSessions
<1>0. devices[d] \in DeviceRow /\ sessions[s] \in SessionRow /\ d # None
  BY NoneIsNothing DEF TypeOK
<1>1. ASSUME NEW S, d \in S, sessions' = Revoked(SessionsOn(S))
      PROVE  sessions'[s].status = 0
  <2>1. sessions[s].device = d /\ sessions[s].row = "live"
    BY <1>0, <1>1 DEF Revoked, SessionRow
  <2> QED
    BY <1>0, <1>1, <2>1 DEF Revoked, SessionsOn, LiveSessions, SessionRow
<1>2. CASE DeviceKept(d)
  <2>1. d \in LiveDevices /\ devices[d].status = 0
    BY <1>2 DEF DeviceKept, LiveDevices
  <2>2. CASE \E r \in revokes : r.device = d
    <3>1. PICK r \in revokes : r.device = d
      BY <2>2
    <3>2. RevokeDevice(r)
      BY <3>1, RevokesLeft
    <3> QED
      BY <1>1, <3>1, <3>2 DEF RevokeDevice
  <2>3. CASE ~\E r \in revokes : r.device = d
    <3>1. ASSUME sessions[s].row = "live", sessions[s].device = d
          PROVE  sessions[s].status = 0
      BY <2>1, <2>3, <3>1 DEF DisabledDeviceIsQuiet, LiveSessions
    <3>2. CASE Weakened(s)
      BY <3>1, <3>2 DEF Weakened
    <3>3. ~Erased(s)
      BY DEF Erased
    <3>4. CASE Renewed(s)
      <4>1. /\ sessions[s].status = 1 /\ sessions[s].row = "live"
            /\ sessions'[s].device = sessions[s].device
        BY <3>4 DEF Renewed, Rotate, RotateSession, Rotated, StillCurrent, TypeOK,
                    SessionRow, LiveSessions
      <4> QED
        BY <3>1, <4>1
    <3>5. ~Opened(s)
      <4>1. ASSUME NEW r \in logins, NEW c \in CardIds, LoginCommit(r, c, s)
            PROVE  FALSE
        <5>1. devices' = [devices EXCEPT ![d] = BoundDevice(r, c, devices[d])]
          BY <1>0, <4>1, LoginOpens
        <5> QED
          BY <5>1 DEF BoundDevice, TypeOK
      <4>2. ASSUME NEW r \in logins, NEW x \in DeviceIds, LoginCommitVirtual(r, x, s)
            PROVE  FALSE
        <5>1. devices' = [devices EXCEPT ![d] = BoundDevice(r, None, devices[d])]
          BY <4>2, VirtualOpens
        <5> QED
          BY <5>1 DEF BoundDevice, TypeOK
      <4> QED
        BY <4>1, <4>2 DEF Opened
    <3> QED
      BY <3>2, <3>3, <3>4, <3>5, SessionWrites
  <2> QED
    BY <2>2, <2>3
<1>3. CASE DeviceBound(d)
  BY <1>3 DEF DeviceBound, BoundDevice
<1>4. CASE DeviceSwitched(d)
  BY <1>1, <1>4 DEF DeviceSwitched
<1>5. CASE DeviceGone(d)
  BY <1>5 DEF DeviceGone
<1> QED
  BY <1>2, <1>3, <1>4, <1>5, DeviceWrites DEF DeviceMoved

(* Provided no request is lost between its two statements, a device the    *)
(* operator has disabled has no session left to use.                       *)
THEOREM DisabledDevicesAreQuiet ==
    ASSUME "drop" \notin Ops
    PROVE  Spec => []DisabledDeviceIsQuiet
<1>1. Init => DisabledDeviceIsQuiet
  BY DEF Init, DisabledDeviceIsQuiet, LiveDevices, NoDevice
<1> QED
  BY <1>1, QuietStep, TypeStep, TypeInit, PTL DEF Spec

-----------------------------------------------------------------------------
(* Disabled cards                                                          *)

(* No request in flight is from the future, and what it carries runs out   *)
(* one session TTL from now at the latest.                                 *)
Horizon ==
    /\ \A r \in logins : r.at <= now
    /\ \A r \in calls : r.expires <= now + SessionTTL
    /\ \A s \in SessionIds :
          sessions[s].row = "live" => sessions[s].expires <= now + SessionTTL

(* A session request of a disabled card was prepared before it was         *)
(* disabled.                                                               *)
CallsDrain ==
    \A r \in calls, c \in LiveCards :
        cards[c].status = 2 /\ sessions[r.sid].card = c =>
            r.expires <= disabledAt[c] + SessionTTL

LEMMA HorizonStep == TypeOK /\ Horizon /\ [Next]_vars => Horizon'
<1> SUFFICES ASSUME TypeOK, Horizon, [Next]_vars PROVE Horizon'
  OBVIOUS
<1>0. now \in Nat /\ now' \in {now, now + 1} /\ SessionTTL \in Nat
  BY Bounds, Arrivals DEF TypeOK, Arrives
<1>1. ASSUME NEW r \in logins' PROVE r.at <= now'
  <2>0. \A x \in logins : x.at \in Nat
    BY DEF TypeOK, LoginRequest
  <2>1. CASE logins' \subseteq logins
    BY <1>0, <1>1, <2>0, <2>1 DEF Horizon
  <2>2. CASE \E w \in Workers, h \in Hashes, ch \in Challenges, g \in Regions :
                LoginPrepare(w, h, ch, g)
    <3>1. r \in logins \/ r.at = now
      BY <1>1, <2>2 DEF LoginPrepare
    <3> QED
      BY <1>0, <2>0, <3>1 DEF Horizon
  <2>3. CASE \E x \in logins : LoginSnapshot(x)
    <3>1. PICK x \in logins : LoginSnapshot(x)
      BY <2>3
    <3>2. [x EXCEPT !.alone = TRUE].at = x.at
      BY DEF TypeOK, LoginRequest
    <3>3. r \in logins \/ r = [x EXCEPT !.alone = TRUE]
      BY <1>1, <3>1 DEF LoginSnapshot
    <3>4. \E y \in logins : r.at = y.at
      BY <3>2, <3>3
    <3> QED
      BY <1>0, <2>0, <3>4 DEF Horizon
  <2> QED
    BY <2>1, <2>2, <2>3, Arrivals DEF Arrives
<1>2. ASSUME NEW r \in calls' PROVE r.expires <= now' + SessionTTL
  <2>0. \A x \in calls : x.expires \in Nat
    BY DEF TypeOK, SessionCall
  <2>1. CASE r \in calls
    BY <1>0, <2>0, <2>1 DEF Horizon
  <2>2. CASE r \notin calls
    <3>1. PICK s \in SessionIds :
              r.expires = Smaller(now + SessionTTL, CardAllowsUntil(s))
      <4>1. PICK w \in Workers, s \in SessionIds, n \in 1..MaxCounter,
                 kind \in {"rotate", "logout"} : SessionPrepare(w, s, kind, n)
        BY <1>2, <2>2, Arrivals DEF Arrives
      <4> QED
        BY <1>2, <2>2, <4>1 DEF SessionPrepare
    <3>2. CardAllowsUntil(s) \in Nat
      BY CardAllowsType
    <3> QED
      BY <1>0, <3>1, <3>2 DEF Smaller
  <2> QED
    BY <2>1, <2>2
<1>3. ASSUME NEW s \in SessionIds, sessions'[s].row = "live"
      PROVE  sessions'[s].expires <= now' + SessionTTL
  <2>0. sessions[s].expires \in Nat
    BY DEF TypeOK, SessionRow
  <2>1. CASE Weakened(s)
    BY <1>0, <1>3, <2>0, <2>1 DEF Weakened, Horizon
  <2>2. CASE Erased(s)
    BY <1>3, <2>2 DEF Erased
  <2>3. CASE Opened(s)
    <3>1. PICK r \in logins : sessions'[s].expires <= r.at + SessionTTL
      BY <2>3, LoginOpens, VirtualOpens DEF Opened
    <3>2. r.at \in Nat /\ r.at <= now
      BY DEF TypeOK, LoginRequest, Horizon
    <3>3. sessions'[s].expires \in Nat
      BY TypeStep DEF TypeOK, SessionRow
    <3> QED
      BY <1>0, <3>1, <3>2, <3>3
  <2>4. CASE Renewed(s)
    <3>1. PICK r \in calls : Rotate(r) /\ r.sid = s
      BY <2>4 DEF Renewed
    <3>2. sessions'[s].expires = r.expires
      BY <3>1 DEF Rotate, RotateSession, Rotated, TypeOK, SessionRow
    <3>3. r.expires \in Nat /\ r.expires <= now + SessionTTL
      BY DEF TypeOK, SessionCall, Horizon
    <3> QED
      BY <1>0, <3>2, <3>3
  <2> QED
    BY <2>1, <2>2, <2>3, <2>4, SessionWrites
<1> QED
  BY <1>1, <1>2, <1>3 DEF Horizon

(* A card is disabled after the step only if it was before, or has been in *)
(* this step.                                                              *)
LEMMA Disabling ==
    ASSUME TypeOK, [Next]_vars, NEW c \in CardIds,
           cards'[c].row = "live", cards'[c].status = 2
    PROVE  /\ ~CardUsed(c)
           /\ \/ /\ c \in LiveCards /\ cards[c].status = 2
                 /\ disabledAt'[c] = disabledAt[c]
              \/ disabledAt'[c] = now /\ now' = now
<1>0. cards[c] \in CardRow
  BY DEF TypeOK
<1>1. ~CardUsed(c)
  BY <1>0, UsedCard, ChargedColumns
<1>2. ~CardUnbound(c)
  <2>1. SUFFICES ASSUME CardUnbound(c) PROVE FALSE
    OBVIOUS
  <2>2. PICK r \in unbinds : cards'[c] = UnboundCard(r, cards[c])
    BY <2>1 DEF CardUnbound
  <2>3. r \in UnbindRequest
    BY DEF TypeOK
  <2> QED
    BY <1>0, <2>1, <2>2, <2>3, UnboundColumns DEF CardUnbound
<1>3. ~CardBorn(c)
  <2>1. \A spec : NewCard(spec).status = 0
    BY DEF NewCard
  <2> QED
    BY <2>1 DEF CardBorn
<1>4. ~CardGone(c)
  BY DEF CardGone
<1>5. CardKept(c) \/ CardEdited(c)
  BY <1>1, <1>2, <1>3, <1>4, CardWrites DEF CardMoved
<1> QED
  BY <1>1, <1>5 DEF CardKept, CardEdited, LiveCards

DrainInv == Horizon /\ CallsDrain /\ DisabledCardDrains

(* A session that is there names the same card before the step, or is      *)
(* opened in it.                                                           *)
LEMMA SameCard ==
    ASSUME TypeOK, [Next]_vars, NEW s \in SessionIds, NEW c \in CardIds,
           ~CardUsed(c), sessions'[s].card = c
    PROVE  sessions[s].card = c /\ (Weakened(s) \/ Renewed(s))
<1>0. c # None
  BY NoneIsNothing
<1>1. ~Opened(s)
  <2>1. ASSUME NEW r \in logins, NEW x \in CardIds, LoginCommit(r, x, s) PROVE FALSE
    <3>1. x = c
      BY <2>1, LoginOpens
    <3> QED
      BY <2>1, <3>1 DEF CardUsed
  <2>2. ASSUME NEW r \in logins, NEW d \in DeviceIds, LoginCommitVirtual(r, d, s)
        PROVE  FALSE
    BY <1>0, <2>2, VirtualOpens
  <2> QED
    BY <2>1, <2>2 DEF Opened
<1>2. ~Erased(s)
  BY <1>0 DEF Erased
<1>3. CASE Weakened(s)
  BY <1>0, <1>3 DEF Weakened
<1>4. CASE Renewed(s)
  <2>1. sessions'[s].card = sessions[s].card
    BY <1>4 DEF Renewed, Rotate, RotateSession, Rotated, TypeOK, SessionRow
  <2> QED
    BY <1>4, <2>1
<1> QED
  BY <1>1, <1>2, <1>3, <1>4, SessionWrites

LEMMA DrainStep == TypeOK /\ DrainInv /\ [Next]_vars => DrainInv'
<1> SUFFICES ASSUME TypeOK, DrainInv, [Next]_vars PROVE DrainInv'
  OBVIOUS
<1>0. Horizon' /\ TypeOK'
  BY HorizonStep, TypeStep DEF DrainInv
<1>1. ASSUME NEW r \in calls', NEW c \in CardIds, cards'[c].row = "live",
             cards'[c].status = 2, sessions'[r.sid].card = c
      PROVE  r.expires <= disabledAt'[c] + SessionTTL
  <2>1. CASE disabledAt'[c] = now /\ now' = now
    BY <1>0, <1>1, <2>1 DEF Horizon
  <2>2. CASE /\ c \in LiveCards /\ cards[c].status = 2
             /\ disabledAt'[c] = disabledAt[c]
    <3>0. r.sid \in SessionIds
      BY <1>0 DEF TypeOK, SessionCall
    <3>1. sessions[r.sid].card = c
      BY <1>1, <3>0, Disabling, SameCard
    <3>2. CASE r \in calls
      BY <2>2, <3>1, <3>2 DEF DrainInv, CallsDrain
    <3>3. CASE r \notin calls
      <4>1. PICK s \in SessionIds : CardAllowsUntil(s) # 0 /\ r.sid = s
        <5>1. PICK w \in Workers, s \in SessionIds, n \in 1..MaxCounter,
                   kind \in {"rotate", "logout"} : SessionPrepare(w, s, kind, n)
          BY <1>1, <3>3, Arrivals DEF Arrives
        <5> QED
          BY <1>1, <3>3, <5>1 DEF SessionPrepare
      <4> QED
        BY <2>2, <3>1, <4>1, NoneIsNothing DEF CardAllowsUntil, CardInForce
    <3> QED
      BY <3>2, <3>3
  <2> QED
    BY <1>1, <2>1, <2>2, Disabling
<1>2. ASSUME NEW c \in CardIds, NEW s \in SessionIds, cards'[c].row = "live",
             cards'[c].status = 2, sessions'[s].row = "live", sessions'[s].card = c
      PROVE  sessions'[s].expires <= disabledAt'[c] + SessionTTL
  <2>1. CASE disabledAt'[c] = now /\ now' = now
    BY <1>0, <1>2, <2>1 DEF Horizon
  <2>2. CASE /\ c \in LiveCards /\ cards[c].status = 2
             /\ disabledAt'[c] = disabledAt[c]
    <3>1. sessions[s].card = c /\ (Weakened(s) \/ Renewed(s))
      BY <1>2, Disabling, SameCard
    <3>2. CASE Weakened(s)
      BY <1>2, <2>2, <3>1, <3>2 DEF Weakened, DrainInv, DisabledCardDrains, LiveSessions
    <3>3. CASE Renewed(s)
      <4>1. PICK r \in calls : Rotate(r) /\ r.sid = s
        BY <3>3 DEF Renewed
      <4>2. sessions'[s].expires = r.expires
        BY <4>1 DEF Rotate, RotateSession, Rotated, TypeOK, SessionRow
      <4> QED
        BY <2>2, <3>1, <4>1, <4>2 DEF DrainInv, CallsDrain
    <3> QED
      BY <3>1, <3>2, <3>3
  <2> QED
    BY <1>2, <2>1, <2>2, Disabling
<1>3. CallsDrain' /\ DisabledCardDrains'
  BY <1>1, <1>2 DEF CallsDrain, DisabledCardDrains, LiveCards, LiveSessions
<1> QED
  BY <1>0, <1>3 DEF DrainInv

(* However late a heartbeat that was in flight is written, a disabled card *)
(* is out of use one session TTL after it was disabled.                    *)
THEOREM DisabledCardsDrain == Spec => []DisabledCardDrains
<1>1. Init => DrainInv
  BY DEF Init, DrainInv, Horizon, CallsDrain, DisabledCardDrains, LiveCards,
         LiveSessions, NoCard, NoSession
<1>2. DrainInv => DisabledCardDrains
  BY DEF DrainInv
<1> QED
  BY <1>1, <1>2, DrainStep, TypeStep, TypeInit, PTL DEF Spec

-----------------------------------------------------------------------------
(* Sessions are leases                                                     *)

(* Nothing happens to a lease when no session row changes.                 *)
LEMMA LeaseStutters ==
    ASSUME UNCHANGED <<sessions, spent>>
    PROVE  UNCHANGED Lease!leaseVars
BY DEF Lease!leaseVars, Leases, Tokens, InForce, LiveSessions

(* A step that makes no session row, revives none and changes no token of  *)
(* those in force ends the leases of the ones it takes out of force.       *)
LEMMA LeasesEnd ==
    ASSUME spent' = spent,
           \A s \in SessionIds :
              /\ sessions'[s].row = "unborn" <=> sessions[s].row = "unborn"
              /\ InForce(s)' => InForce(s) /\ sessions'[s].token = sessions[s].token
    PROVE  \E S \in SUBSET Lease!Held : Lease!End(S)
<1> DEFINE S == {s \in SessionIds : InForce(s) /\ ~InForce(s)'}
<1>1. S \in SUBSET Lease!Held
  BY DEF Lease!Held, Leases, InForce, LiveSessions
<1>2. Leases' = Lease!Ended(S)
  <2>1. ASSUME NEW s \in SessionIds
        PROVE  Leases'[s] = IF s \in S THEN "ended" ELSE Leases[s]
    BY DEF Leases, InForce, LiveSessions
  <2> QED
    BY <2>1 DEF Lease!Ended, Leases
<1>3. Tokens' = Lease!Voided(S)
  <2>1. ASSUME NEW s \in SessionIds
        PROVE  Tokens'[s] = IF s \in S THEN 0 ELSE Tokens[s]
    BY DEF Tokens
  <2> QED
    BY <2>1 DEF Lease!Voided, Tokens
<1> QED
  BY <1>1, <1>2, <1>3 DEF Lease!End

(* Revoking sessions, or deleting them with their device, ends leases.     *)
LEMMA BulkEndsLeases ==
    ASSUME TypeOK, NEW S, spent' = spent,
           sessions' = Revoked(S) \/ sessions' = WithoutDevices(S)
    PROVE  \E T \in SUBSET Lease!Held : Lease!End(T)
<1>1. ASSUME NEW s \in SessionIds
      PROVE  /\ sessions'[s].row = "unborn" <=> sessions[s].row = "unborn"
             /\ InForce(s)' => InForce(s) /\ sessions'[s].token = sessions[s].token
  <2>1. CASE sessions' = Revoked(S)
    BY <2>1 DEF Revoked, InForce, LiveSessions, TypeOK, SessionRow
  <2>2. CASE sessions' = WithoutDevices(S)
    BY <2>2 DEF WithoutDevices, InForce, LiveSessions, NoSession, TypeOK, SessionRow
  <2> QED
    BY <2>1, <2>2
<1> QED
  BY <1>1, LeasesEnd

(* A login grants the lease of the session it opens.                       *)
LEMMA OpenGrants ==
    ASSUME TypeOK, spent' = spent, NEW r \in logins, NEW c, NEW d,
           NEW n \in SessionIds, NEW expiry, OpenSession(r, c, d, n, expiry)
    PROVE  \E S \in SUBSET Lease!Held : Lease!Grant(n, S)
<1> DEFINE R == {x \in LiveSessions : d # None /\ sessions[x].device = d
                                      /\ OnCard(x, c, r.hash)}
           row == [row |-> "live", status |-> 1, token |-> 0, counter |-> 0,
                   expires |-> Smaller(r.at + SessionTTL, expiry),
                   device |-> d, card |-> c, hash |-> r.hash,
                   ephemeral |-> r.key = None,
                   ticketUntil |-> IF r.key = None THEN r.at + TicketTTL ELSE 0]
<1>1. /\ R \subseteq LiveSessions
      /\ sessions' = [Revoked(R) EXCEPT ![n] = row]
      /\ row.row = "live" /\ row.status = 1 /\ row.token = 0
      /\ sessions[n].row = "unborn"
  BY DEF OpenSession
<1> HIDE DEF R, row
<1> DEFINE S == {s \in R : InForce(s)}
<1>2. S \in SUBSET Lease!Held
  BY <1>1 DEF Lease!Held, Leases, InForce, LiveSessions
<1>3. n \notin R /\ Leases[n] = "none"
  BY <1>1 DEF LiveSessions, Leases
<1>4. sessions'[n] = row /\ InForce(n)'
  BY <1>1 DEF Revoked, InForce, LiveSessions
<1>5. ASSUME NEW s \in SessionIds, s # n
      PROVE  /\ sessions'[s].row = sessions[s].row
             /\ sessions'[s].token = sessions[s].token
             /\ InForce(s)' <=> InForce(s) /\ s \notin S
  <2>1. sessions'[s] = IF s \in R THEN [sessions[s] EXCEPT !.status = 0]
                                  ELSE sessions[s]
    BY <1>1, <1>5 DEF Revoked
  <2>2. sessions[s] \in SessionRow
    BY DEF TypeOK
  <2> QED
    BY <2>1, <2>2 DEF InForce, LiveSessions, SessionRow
<1>6. Leases' = [Lease!Ended(S) EXCEPT ![n] = "held"]
  <2>1. ASSUME NEW s \in SessionIds
        PROVE  Leases'[s] = IF s = n THEN "held"
                            ELSE IF s \in S THEN "ended" ELSE Leases[s]
    BY <1>1, <1>4, <1>5 DEF Leases, InForce, LiveSessions
  <2> QED
    BY <2>1 DEF Lease!Ended, Leases
<1>7. Tokens' = Lease!Voided(S)
  <2>1. Tokens'[n] = 0 /\ Tokens[n] = 0
    BY <1>1, <1>4 DEF Tokens, InForce, LiveSessions
  <2>2. ASSUME NEW s \in SessionIds
        PROVE  Tokens'[s] = IF s \in S THEN 0 ELSE Tokens[s]
    BY <1>3, <1>5, <2>1 DEF Tokens
  <2> QED
    BY <2>2 DEF Lease!Voided, Tokens
<1> QED
  BY <1>2, <1>3, <1>6, <1>7 DEF Lease!Grant

LEMMA LoginLease ==
    ASSUME TypeOK, Login
    PROVE  [Lease!LeaseNext]_Lease!leaseVars
<1>1. ASSUME NEW w, NEW h, NEW ch, NEW g, LoginPrepare(w, h, ch, g)
      PROVE  UNCHANGED Lease!leaseVars
  BY <1>1, LeaseStutters DEF LoginPrepare, tables, history
<1>2. ASSUME NEW r, LoginSnapshot(r) PROVE UNCHANGED Lease!leaseVars
  BY <1>2, LeaseStutters DEF LoginSnapshot, tables, history
<1>3. ASSUME NEW r \in logins, NEW s \in SessionIds, NEW d,
             LoginCommitVirtual(r, d, s)
      PROVE  \E S \in SUBSET Lease!Held : Lease!Grant(s, S)
  BY <1>3, OpenGrants DEF LoginCommitVirtual
<1>4. ASSUME NEW r \in logins, NEW s \in SessionIds, NEW c, LoginCommit(r, c, s)
      PROVE  \E S \in SUBSET Lease!Held : Lease!Grant(s, S)
  <2>1. PICK d, expiry : OpenSession(r, c, d, s, expiry)
    BY <1>4 DEF LoginCommit
  <2> QED
    BY <1>4, <2>1, OpenGrants DEF LoginCommit
<1> QED
  BY <1>1, <1>2, <1>3, <1>4 DEF Login, Lease!LeaseNext

(* A rotation exchanges the token that the request carried.                *)
LEMMA RotateExchanges ==
    ASSUME TypeOK, NEW r, r.sid \in SessionIds, RotateSession(r)
    PROVE  Lease!Exchange(r.sid)
<1> DEFINE s == r.sid
<1>1. sessions[s] \in SessionRow
  BY DEF TypeOK
<1>2. InForce(s) /\ Tokens[s] = r.token /\ Leases[s] = "held"
  BY DEF RotateSession, StillCurrent, InForce, Tokens, Leases, LiveSessions
<1>3. /\ sessions'[s].token = sessions[s].token + 1
      /\ sessions'[s].row = sessions[s].row
      /\ sessions'[s].status = sessions[s].status
  BY <1>1 DEF RotateSession, Rotated, TypeOK, SessionRow
<1>4. \A t \in SessionIds : t # s => sessions'[t] = sessions[t]
  BY DEF RotateSession, Rotated, TypeOK
<1>5. \A t \in SessionIds : InForce(t)' <=> InForce(t)
  BY <1>3, <1>4 DEF InForce, LiveSessions
<1>6. Leases' = Leases
  BY <1>3, <1>4, <1>5 DEF Leases
<1>7. Tokens' = [Tokens EXCEPT ![s] = @ + 1]
  BY <1>2, <1>3, <1>4, <1>5 DEF Tokens
<1>8. spent' = [spent EXCEPT ![s] = @ \cup {Tokens[s]}]
  BY <1>2 DEF RotateSession
<1> QED
  BY <1>2, <1>6, <1>7, <1>8 DEF Lease!Exchange

LEMMA SessionRequestLease ==
    ASSUME TypeOK, SessionRequest
    PROVE  [Lease!LeaseNext]_Lease!leaseVars
<1>1. ASSUME NEW w, NEW s, NEW n, NEW kind, SessionPrepare(w, s, kind, n)
      PROVE  UNCHANGED Lease!leaseVars
  BY <1>1, LeaseStutters DEF SessionPrepare, tables, history
<1>2. ASSUME NEW r \in calls, Logout(r)
      PROVE  \E S \in SUBSET Lease!Held : Lease!End(S)
  BY <1>2, BulkEndsLeases DEF Logout, history
<1>3. \A r \in calls : r.sid \in SessionIds
  BY DEF TypeOK, SessionCall
<1>4. ASSUME NEW r \in calls, Rotate(r) PROVE Lease!Exchange(r.sid)
  BY <1>3, <1>4, RotateExchanges DEF Rotate
<1> QED
  BY <1>1, <1>2, <1>3, <1>4 DEF SessionRequest, Lease!LeaseNext

LEMMA UnbindLease ==
    ASSUME TypeOK, Unbind
    PROVE  [Lease!LeaseNext]_Lease!leaseVars
<1>1. ASSUME NEW w, NEW h, NEW i, UnbindPrepare(w, h, i)
      PROVE  UNCHANGED Lease!leaseVars
  BY <1>1, LeaseStutters DEF UnbindPrepare, tables, history
<1>2. ASSUME NEW r, UnbindCommit(r)
      PROVE  \E S \in SUBSET Lease!Held : Lease!End(S)
  BY <1>2, BulkEndsLeases DEF UnbindCommit
<1> QED
  BY <1>1, <1>2 DEF Unbind, Lease!LeaseNext

(* The operator's edits of cards end leases or leave them alone.           *)
LEMMA CardEditLease ==
    ASSUME TypeOK, CardEdit \/ RangeEdit
    PROVE  [Lease!LeaseNext]_Lease!leaseVars
<1>1. ASSUME NEW S,
             \/ DisableCards(S) \/ EnableActivated(S) \/ ResetUses(S)
             \/ \E n \in Amounts, up \in BOOLEAN : AdjustActivated(S, n, up)
      PROVE  UNCHANGED Lease!leaseVars
  BY <1>1, LeaseStutters
     DEF DisableCards, EnableActivated, ResetUses, AdjustActivated, history
<1>2. ASSUME NEW S, NEW n, ResetDuration(S, n)
      PROVE  \E T \in SUBSET Lease!Held : Lease!End(T)
  BY <1>2, BulkEndsLeases DEF ResetDuration, EndSessionsOf
<1>3. ASSUME NEW S, DeleteCards(S)
      PROVE  \E T \in SUBSET Lease!Held : Lease!End(T)
  <2>1. \A s \in SessionIds :
            /\ sessions'[s].row = sessions[s].row
            /\ sessions'[s].status = sessions[s].status
            /\ sessions'[s].token = sessions[s].token
    BY <1>3 DEF DeleteCards, TypeOK, SessionRow
  <2> QED
    BY <1>3, <2>1, LeasesEnd DEF DeleteCards, history, InForce, LiveSessions
<1>4. ASSUME NEW c, NEW spec, CreateCard(c, spec)
      PROVE  UNCHANGED Lease!leaseVars
  BY <1>4, LeaseStutters DEF CreateCard
<1>5. ASSUME NEW w, NEW c, NEW n, NEW up,
             EnableCardRead(w, c) \/ AdjustRead(w, c, n, up)
      PROVE  UNCHANGED Lease!leaseVars
  BY <1>5, LeaseStutters DEF EnableCardRead, AdjustRead, tables, history
<1>6. ASSUME NEW r, EnableCardWrite(r) \/ AdjustWrite(r)
      PROVE  UNCHANGED Lease!leaseVars
  BY <1>6, LeaseStutters DEF EnableCardWrite, AdjustWrite, history
<1>7. CASE CardEdit
  BY <1>1, <1>2, <1>3, <1>4, <1>5, <1>6, <1>7 DEF CardEdit, Lease!LeaseNext
<1>8. CASE RangeEdit
  BY <1>1, <1>2, <1>3, <1>8 DEF RangeEdit, Lease!LeaseNext
<1> QED
  BY <1>7, <1>8

LEMMA DeviceEditLease ==
    ASSUME TypeOK, DeviceEdit
    PROVE  [Lease!LeaseNext]_Lease!leaseVars
<1>1. ASSUME NEW w, NEW d, NEW S, DisableDevice(w, d) \/ EnableDevices(S)
      PROVE  UNCHANGED Lease!leaseVars
  BY <1>1, LeaseStutters DEF DisableDevice, EnableDevices, history
<1>2. ASSUME NEW r, NEW S, RevokeDevice(r) \/ DisableDevices(S) \/ DeleteDevices(S)
      PROVE  \E T \in SUBSET Lease!Held : Lease!End(T)
  BY <1>2, BulkEndsLeases DEF RevokeDevice, DisableDevices, DeleteDevices, history
<1> QED
  BY <1>1, <1>2 DEF DeviceEdit, Lease!LeaseNext

(* The cleanup ends the leases it deletes; nothing else of the console, of *)
(* the clock or of a failure touches one.                                  *)
LEMMA UpkeepLease ==
    ASSUME TypeOK, (\E a \in Settings : UpdateApp(a)) \/ Cleanup \/ Tick \/ Drop
    PROVE  [Lease!LeaseNext]_Lease!leaseVars
<1>1. ASSUME NEW a, UpdateApp(a) \/ Tick \/ Drop PROVE UNCHANGED Lease!leaseVars
  BY <1>1, LeaseStutters DEF UpdateApp, Tick, Drop, tables, history
<1>2. ASSUME NEW at, ForgetNonces(at) PROVE UNCHANGED Lease!leaseVars
  BY <1>2, LeaseStutters DEF ForgetNonces, history
<1>3. ASSUME NEW at, ForgetSessions(at)
      PROVE  \E T \in SUBSET Lease!Held : Lease!End(T)
  <2>1. ASSUME NEW s \in SessionIds
        PROVE  /\ sessions'[s].row = "unborn" <=> sessions[s].row = "unborn"
               /\ InForce(s)' => InForce(s) /\ sessions'[s].token = sessions[s].token
    BY <1>3 DEF ForgetSessions, InForce, LiveSessions, NoSession
  <2> QED
    BY <1>3, <2>1, LeasesEnd DEF ForgetSessions, history
<1> QED
  BY <1>1, <1>2, <1>3 DEF Cleanup, Lease!LeaseNext

LEMMA LeaseStep == TypeOK /\ [Next]_vars => [Lease!LeaseNext]_Lease!leaseVars
<1> SUFFICES ASSUME TypeOK, [Next]_vars
             PROVE  [Lease!LeaseNext]_Lease!leaseVars
  OBVIOUS
<1>1. CASE UNCHANGED vars
  BY <1>1, LeaseStutters DEF vars, tables, history
<1> QED
  BY <1>1, LoginLease, SessionRequestLease, UnbindLease, CardEditLease,
     DeviceEditLease, UpkeepLease DEF Next

LEMMA LeaseStart == Init => Lease!LeaseInit
BY DEF Init, Lease!LeaseInit, Leases, Tokens, InForce, LiveSessions, NoSession

(* The console and the client API, with all their requests in flight,      *)
(* treat a session as a lease: its token is exchanged once per successor   *)
(* and what has ended stays ended.                                         *)
THEOREM SessionsAreLeases == Spec => LeaseSpec
BY LeaseStart, LeaseStep, TypeCorrect, PTL DEF Spec, LeaseSpec, Lease!LeaseSpec

-----------------------------------------------------------------------------
(* What a lease promises is a property of its own: a token that was given  *)
(* back is never again the one its session accepts.                        *)
TokensFresh == \A s \in SessionIds : InForce(s) => sessions[s].token \notin spent[s]

(* Tokens are given back in order, all before the current one.             *)
LeasesAdvance ==
    /\ DOMAIN spent = SessionIds
    /\ \A s \in SessionIds :
          /\ Leases[s] = "none" => Tokens[s] = 0 /\ spent[s] = {}
          /\ Leases[s] = "held" =>
                Tokens[s] \in Nat /\ \A t \in spent[s] : t \in Nat /\ t < Tokens[s]

LEMMA LeasesStart == Lease!LeaseInit => LeasesAdvance
BY DEF Lease!LeaseInit, LeasesAdvance

LEMMA LeasesAdvanceStep ==
    ASSUME LeasesAdvance, [Lease!LeaseNext]_Lease!leaseVars
    PROVE  LeasesAdvance'
<1>1. Leases \in [SessionIds -> {"none", "held", "ended"}] /\ DOMAIN Tokens = SessionIds
  BY DEF Leases, Tokens
<1>2. CASE UNCHANGED Lease!leaseVars
  BY <1>2 DEF Lease!leaseVars, LeasesAdvance
<1>3. ASSUME NEW S \in SUBSET Lease!Held, Lease!End(S) PROVE LeasesAdvance'
  <2>1. \A s \in SessionIds :
            /\ Leases'[s] = IF s \in S THEN "ended" ELSE Leases[s]
            /\ Tokens'[s] = IF s \in S THEN 0 ELSE Tokens[s]
    BY <1>3 DEF Lease!End, Lease!Ended, Lease!Voided
  <2> QED
    BY <1>3, <2>1 DEF LeasesAdvance, Lease!End
<1>4. ASSUME NEW n \in SessionIds, NEW S \in SUBSET Lease!Held, Lease!Grant(n, S)
      PROVE  LeasesAdvance'
  <2>1. \A s \in SessionIds :
            /\ Leases'[s] = IF s = n THEN "held" ELSE IF s \in S THEN "ended" ELSE Leases[s]
            /\ Tokens'[s] = IF s \in S THEN 0 ELSE Tokens[s]
    BY <1>1, <1>4 DEF Lease!Grant, Lease!Ended, Lease!Voided
  <2>2. Leases[n] = "none" /\ n \notin S
    BY <1>4 DEF Lease!Grant, Lease!Held
  <2> QED
    BY <1>4, <2>1, <2>2 DEF LeasesAdvance, Lease!Grant
<1>5. ASSUME NEW n \in SessionIds, Lease!Exchange(n) PROVE LeasesAdvance'
  <2>1. \A s \in SessionIds : Tokens'[s] = IF s = n THEN Tokens[n] + 1 ELSE Tokens[s]
    BY <1>1, <1>5 DEF Lease!Exchange
  <2>2. /\ DOMAIN spent' = SessionIds
        /\ \A s \in SessionIds : s # n => spent'[s] = spent[s]
    BY <1>5 DEF Lease!Exchange, LeasesAdvance
  <2>3. Leases' = Leases /\ Leases[n] = "held"
    BY <1>5 DEF Lease!Exchange
  <2>4. \A t \in spent'[n] : t \in spent[n] \/ t = Tokens[n]
    BY <1>5 DEF Lease!Exchange, LeasesAdvance
  <2> QED
    BY <2>1, <2>2, <2>3, <2>4 DEF LeasesAdvance
<1> QED
  BY <1>2, <1>3, <1>4, <1>5 DEF Lease!LeaseNext

(* Whatever implements SessionLease never accepts a token again.           *)
THEOREM LeasesNeverRepeat == LeaseSpec => []TokensFresh
<1>1. LeasesAdvance => TokensFresh
  BY DEF LeasesAdvance, TokensFresh, Leases, Tokens, InForce, LiveSessions
<1> QED
  BY <1>1, LeasesStart, LeasesAdvanceStep, PTL DEF LeaseSpec, Lease!LeaseSpec

(* A heartbeat that answers a token takes the next one: none is accepted   *)
(* twice in the life of its session.                                       *)
THEOREM TokensAcceptedOnce == Spec => []TokensFresh
BY SessionsAreLeases, LeasesNeverRepeat, PTL
=============================================================================
