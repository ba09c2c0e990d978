----------------------- MODULE OperatorSessions_proofs -----------------------
(***************************************************************************)
(* Proofs about OperatorSessions, for any number of browsers, workers,      *)
(* sessions, names, passwords and requests: types, the two promises of a    *)
(* change of credentials, and that signed requests run once while their     *)
(* timestamp is good (OnceGuard).  Two facts make these inductive:          *)
(*   Held        what a handler carries at each of its awaits               *)
(*   NonceKept   while an admission's window is open its nonce is stored,   *)
(*               or its session is gone and nothing refers to it any more   *)
(***************************************************************************)
EXTENDS OperatorSessions, TLAPS

Admins == [name : Names, pass : Passes, token : Tokens \cup {None},
           until : Nat, by : Passes \cup {None}, late : BOOLEAN]

Rows == [status : {"none", "live", "revoked", "gone"},
         name : Names \cup {None}, until : Nat,
         pass : Passes \cup {None}, late : BOOLEAN]

Nonces == [sid : SessionIds, nonce : {r.nonce : r \in Requests}, until : Nat]

Jars == [name : Names \cup {None}, pass : Passes \cup {None},
         token : Tokens \cup {None}, tokenName : Names \cup {None},
         slide : {"none", "challenge", "proof"}, slideAt : Nat]

Jobs == [pc : {"idle", "restored", "mismatch", "page", "granted",
               "opening", "leaving", "forgetting", "fresh", "loaded",
               "reserved", "saving"},
         name : Names \cup {None}, pass : Passes \cup {None},
         next : (Names \X Passes) \cup {None},
         br : Browsers \cup {None}, sid : SessionIds \cup {None},
         req : Requests \cup {None}]

Held == {h \in Jobs :
          /\ h.pc \in {"restored", "granted", "opening"}
               => h.name \in Names /\ h.pass \in Passes
          /\ h.pc \in {"restored", "mismatch", "page", "granted"}
               => h.br \in Browsers
          /\ h.pc \in {"fresh", "loaded", "reserved", "saving"}
               => h.sid \in SessionIds /\ h.req \in Requests
          /\ h.pc = "saving" => h.next \in Names \X Passes}

Types ==
    /\ now \in 1..MaxTime
    /\ admin \in Admins
    /\ sessions \in [SessionIds -> Rows]
    /\ nonces \subseteq Nonces
    /\ jar \in [Browsers -> Jars]
    /\ work \in [Workers -> Held]
    /\ admitted \in [Keys -> [end : Nat, times : Nat]]

NonceKept ==
    \A s \in SessionIds, n \in {r.nonce : r \in Requests} :
       admitted[<<s, n>>].end >= now
          => \/ sessions[s].status = "gone"
             \/ \E x \in nonces : /\ x.sid = s /\ x.nonce = n
                                  /\ x.until = admitted[<<s, n>>].end

OperatorInv == Types /\ LiveSessionIsCurrent /\ RememberedIsCurrent /\ NonceKept

(* What the module assumes of times, requests and NULL.                     *)
LEMMA Given ==
  /\ SessionTTL \in Nat /\ RememberTTL \in Nat /\ ProofTTL \in Nat
  /\ Window \in Nat /\ MaxTime \in Nat /\ MaxTime >= 1
  /\ \A r \in Requests : r.ts \in Nat
  /\ None \notin Names
BY TimesAssumption, RequestsAssumption, NoneAssumption

LEMMA IdleHeld == Idle \in Held /\ Idle.pc = "idle"
BY DEF Idle, Held, Jobs

LEMMA EmptyJarIsJar == EmptyJar \in Jars
BY DEF EmptyJar, Jars

LEMMA NoRowIsRow == NoRow \in Rows /\ NoRow.status = "none" /\ NoRow.name = None
BY DEF NoRow, Rows

LEMMA OperatorInit == Init => OperatorInv
<1> SUFFICES ASSUME Init PROVE OperatorInv
  OBVIOUS
<1>1. now = 1 /\ nonces = {}
  BY DEF Init
<1>2. PICK n \in Names, p \in Passes :
        /\ \/ admin = [name |-> n, pass |-> p, token |-> None, until |-> 0,
                       by |-> None, late |-> FALSE]
           \/ \E t \in Tokens :
                 admin = [name |-> n, pass |-> p, token |-> t,
                          until |-> 1 + RememberTTL, by |-> p, late |-> FALSE]
        /\ jar \in [Browsers -> {EmptyJar} \cup
                       {[EmptyJar EXCEPT !.token = t, !.tokenName = n] : t \in Tokens}]
  BY DEF Init
<1>3. admin \in Admins /\ (admin.token # None => admin.by = admin.pass)
  <2>1. 1 + RememberTTL \in Nat
    BY Given
  <2>2. CASE admin = [name |-> n, pass |-> p, token |-> None, until |-> 0,
                      by |-> None, late |-> FALSE]
    BY <2>2 DEF Admins
  <2>3. ASSUME NEW t \in Tokens,
               admin = [name |-> n, pass |-> p, token |-> t,
                        until |-> 1 + RememberTTL, by |-> p, late |-> FALSE]
        PROVE  admin \in Admins /\ admin.by = admin.pass
    BY <2>1, <2>3 DEF Admins
  <2> QED
    BY <1>2, <2>2, <2>3
<1>4. sessions \in [SessionIds -> Rows] /\ \A s \in SessionIds : sessions[s].status = "none"
  BY NoRowIsRow DEF Init
<1>5. jar \in [Browsers -> Jars]
  <2>1. \A t \in Tokens : [EmptyJar EXCEPT !.token = t, !.tokenName = n] \in Jars
    BY <1>2 DEF EmptyJar, Jars
  <2> DEFINE cookies == {EmptyJar} \cup
                 {[EmptyJar EXCEPT !.token = t, !.tokenName = n] : t \in Tokens}
  <2>2. cookies \subseteq Jars
    BY <2>1, EmptyJarIsJar
  <2>3. jar \in [Browsers -> cookies]
    BY <1>2
  <2> HIDE DEF cookies
  <2> QED
    BY <2>2, <2>3
<1>6. work \in [Workers -> Held]
  BY IdleHeld DEF Init
<1>7. admitted \in [Keys -> [end : Nat, times : Nat]] /\ \A k \in Keys : admitted[k].end = 0
  BY DEF Init
<1>8. Types
  BY <1>1, <1>3, <1>4, <1>5, <1>6, <1>7, Given DEF Types
<1>9. LiveSessionIsCurrent /\ RememberedIsCurrent
  BY <1>3, <1>4 DEF LiveSessionIsCurrent, RememberedIsCurrent
<1>10. NonceKept
  <2> SUFFICES ASSUME NEW s \in SessionIds, NEW m \in {r.nonce : r \in Requests}
               PROVE  ~(admitted[<<s, m>>].end >= now)
    BY DEF NonceKept
  <2>1. <<s, m>> \in Keys
    BY DEF Keys
  <2> QED
    BY <1>1, <1>7, <2>1
<1> QED
  BY <1>8, <1>9, <1>10 DEF OperatorInv

---------------------------------------------------------------------------
(* Kinds of steps *)

(* A step that writes no row: only the browser's cookies and the handler's  *)
(* record change.                                                           *)
LEMMA NoRowStep ==
  ASSUME OperatorInv, UNCHANGED <<now, admin, sessions, nonces, admitted>>,
         jar' \in [Browsers -> Jars], work' \in [Workers -> Held]
  PROVE  OperatorInv'
<1>1. Types'
  BY DEF OperatorInv, Types
<1>2. LiveSessionIsCurrent' /\ RememberedIsCurrent'
  BY DEF OperatorInv, LiveSessionIsCurrent, RememberedIsCurrent
<1>3. NonceKept'
  BY DEF OperatorInv, NonceKept
<1> QED
  BY <1>1, <1>2, <1>3 DEF OperatorInv

(* A step that writes the account's row and keeps its name and password,    *)
(* and the rule for its remembered login.                                   *)
LEMMA RememberStep ==
  ASSUME OperatorInv, UNCHANGED <<now, sessions, nonces, admitted>>,
         jar' \in [Browsers -> Jars], work' \in [Workers -> Held],
         admin' \in Admins, admin'.name = admin.name, admin'.pass = admin.pass,
         RememberedIsCurrent'
  PROVE  OperatorInv'
<1>1. Types'
  BY DEF OperatorInv, Types
<1>2. LiveSessionIsCurrent'
  BY DEF OperatorInv, LiveSessionIsCurrent
<1>3. NonceKept'
  BY DEF OperatorInv, NonceKept
<1> QED
  BY <1>1, <1>2, <1>3 DEF OperatorInv

(* UPDATE ... SET remember_login_token_hash = ''                            *)
LEMMA ClearedAdmin ==
  ASSUME OperatorInv, NEW name, ClearRemember(name)
  PROVE  /\ admin' \in Admins /\ admin'.name = admin.name /\ admin'.pass = admin.pass
         /\ RememberedIsCurrent'
<1>1. admin \in Admins /\ RememberedIsCurrent
  BY DEF OperatorInv, Types
<1>2. CASE admin.name = name
  <2>1. admin' = [admin EXCEPT !.token = None, !.until = 0, !.by = None, !.late = FALSE]
    BY <1>2 DEF ClearRemember
  <2> QED
    BY <1>1, <2>1 DEF Admins, RememberedIsCurrent
<1>3. CASE admin.name # name
  <2>1. admin' = admin
    BY <1>3 DEF ClearRemember
  <2> QED
    BY <1>1, <2>1 DEF RememberedIsCurrent
<1> QED
  BY <1>2, <1>3

(* UPDATE ... SET remember_login_token_hash = t                             *)
LEMMA SetAdmin ==
  ASSUME OperatorInv, NEW name, NEW pass \in Passes, NEW t \in Tokens,
         SetRemember(name, pass, t)
  PROVE  /\ admin' \in Admins /\ admin'.name = admin.name /\ admin'.pass = admin.pass
         /\ RememberedIsCurrent'
<1>1. admin \in Admins /\ RememberedIsCurrent /\ now \in Nat
  BY Given DEF OperatorInv, Types
<1>2. CASE admin.name = name
  <2>1. admin' = [admin EXCEPT !.token = t, !.until = now + RememberTTL,
                               !.by = pass, !.late = pass # admin.pass]
    BY <1>2 DEF SetRemember
  <2>2. now + RememberTTL \in Nat /\ (pass # admin.pass) \in BOOLEAN
    BY <1>1, Given
  <2>3. admin' \in Admins /\ admin'.name = admin.name /\ admin'.pass = admin.pass
    BY <1>1, <2>1, <2>2 DEF Admins
  <2>4. admin'.by = pass /\ admin'.late = (pass # admin.pass)
    BY <1>1, <2>1 DEF Admins
  <2> QED
    BY <2>3, <2>4 DEF RememberedIsCurrent
<1>3. CASE admin.name # name
  <2>1. admin' = admin
    BY <1>3 DEF SetRemember
  <2> QED
    BY <1>1, <2>1 DEF RememberedIsCurrent
<1> QED
  BY <1>2, <1>3

(* A handler that goes on with a sound record, and cookies.                 *)
LEMMA WorkHeld ==
  ASSUME OperatorInv, NEW w \in Workers, NEW h \in Held, Step(w, h)
  PROVE  work' \in [Workers -> Held]
BY DEF OperatorInv, Types, Step

LEMMA DoneHeld ==
  ASSUME OperatorInv, NEW w \in Workers, Done(w)
  PROVE  work' \in [Workers -> Held]
BY IdleHeld, WorkHeld DEF Done

LEMMA JarKept ==
  ASSUME OperatorInv, NEW b \in Browsers, NEW j \in Jars,
         jar' = [jar EXCEPT ![b] = j]
  PROVE  jar' \in [Browsers -> Jars]
BY DEF OperatorInv, Types

---------------------------------------------------------------------------
(* The slider and the login page *)

LEMMA BrowserSteps ==
  ASSUME OperatorInv, NEW b \in Browsers, BrowserStep(b)
  PROVE  OperatorInv'
<1>1. jar \in [Browsers -> Jars] /\ jar[b] \in Jars /\ work \in [Workers -> Held] /\ now \in Nat
  BY Given DEF OperatorInv, Types
<1>2. CASE IssueSliderChallenge(b)
  <2> DEFINE j == [jar[b] EXCEPT !.slide = "challenge", !.slideAt = now]
  <2>1. j \in Jars
    BY <1>1 DEF Jars
  <2>2. /\ jar' = [jar EXCEPT ![b] = j]
        /\ UNCHANGED <<now, admin, sessions, nonces, work, admitted>>
    BY <1>1, <1>2 DEF IssueSliderChallenge
  <2> QED
    BY <1>1, <2>1, <2>2, JarKept, NoRowStep
<1>3. ASSUME NEW right \in BOOLEAN, VerifySlider(b, right)
      PROVE  OperatorInv'
  <2> DEFINE j == [jar[b] EXCEPT !.slide = IF right THEN "proof" ELSE "none",
                                 !.slideAt = IF right THEN now ELSE 0]
  <2>1. j \in Jars
    BY <1>1 DEF Jars
  <2>2. /\ jar' = [jar EXCEPT ![b] = j]
        /\ UNCHANGED <<now, admin, sessions, nonces, work, admitted>>
    BY <1>1, <1>3 DEF VerifySlider
  <2> QED
    BY <1>1, <2>1, <2>2, JarKept, NoRowStep
<1> QED
  BY <1>2, <1>3 DEF BrowserStep

LEMMA LoginSteps ==
  ASSUME OperatorInv, NEW w \in Workers, LoginStep(w)
  PROVE  OperatorInv'
<1>1. /\ jar \in [Browsers -> Jars] /\ work \in [Workers -> Held] /\ work[w] \in Held
      /\ now \in Nat /\ admin \in Admins
      /\ admin.name \in Names /\ admin.pass \in Passes
  BY Given DEF OperatorInv, Types, Admins
<1>2. ASSUME NEW b \in Browsers, RememberedAdmin(w, b)
      PROVE  OperatorInv'
  <2> DEFINE seen == [Idle EXCEPT !.br = b, !.name = admin.name, !.pass = admin.pass]
             r1 == [seen EXCEPT !.pc = "restored"]
             r2 == [seen EXCEPT !.pc = "mismatch"]
             r3 == [Idle EXCEPT !.br = b, !.pc = "page"]
  <2>1. r1 \in Held /\ r2 \in Held /\ r3 \in Held
    BY <1>1 DEF Idle, Held, Jobs
  <2>2. Step(w, r1) \/ Step(w, r2) \/ Step(w, r3)
    BY <1>2 DEF RememberedAdmin
  <2>3. work' \in [Workers -> Held]
    BY <2>1, <2>2, WorkHeld
  <2> QED
    BY <1>1, <1>2, <2>3, NoRowStep DEF RememberedAdmin
<1>3. CASE ClearMismatch(w)
  <2> DEFINE h == [Idle EXCEPT !.br = work[w].br, !.pc = "page"]
  <2>1. h \in Held
    BY <1>1, <1>3 DEF ClearMismatch, Idle, Held, Jobs
  <2>2. Step(w, h) /\ ClearRemember(work[w].name)
        /\ UNCHANGED <<now, sessions, nonces, jar, admitted>>
    BY <1>3 DEF ClearMismatch
  <2>3. work' \in [Workers -> Held]
    BY <2>1, <2>2, WorkHeld
  <2> QED
    BY <1>1, <2>2, <2>3, ClearedAdmin, RememberStep
<1>4. CASE RestoreRememberedLogin(w)
  <2>1. work[w].br \in Browsers /\ work[w].name \in Names /\ work[w].pass \in Passes
    BY <1>1, <1>4 DEF RestoreRememberedLogin, Held
  <2> DEFINE b == work[w].br
             j == [jar[b] EXCEPT !.name = work[w].name, !.pass = work[w].pass]
  <2>2. j \in Jars
    BY <1>1, <2>1 DEF Jars
  <2>3. jar' = [jar EXCEPT ![b] = j] /\ Done(w)
        /\ UNCHANGED <<now, admin, sessions, nonces, admitted>>
    BY <1>1, <1>4, <2>1 DEF RestoreRememberedLogin
  <2> QED
    BY <2>1, <2>2, <2>3, JarKept, DoneHeld, NoRowStep
<1>5. CASE RenderLoginPage(w)
  <2>1. work[w].br \in Browsers
    BY <1>1, <1>5 DEF RenderLoginPage, Held
  <2> DEFINE b == work[w].br
             j == [jar[b] EXCEPT !.name = None, !.pass = None]
  <2>2. j \in Jars
    BY <1>1, <2>1 DEF Jars
  <2>3. jar' = [jar EXCEPT ![b] = j] /\ Done(w)
        /\ UNCHANGED <<now, admin, sessions, nonces, admitted>>
    BY <1>1, <1>5, <2>1 DEF RenderLoginPage
  <2> QED
    BY <2>1, <2>2, <2>3, JarKept, DoneHeld, NoRowStep
<1>6. ASSUME NEW right \in BOOLEAN, PasswordLogin(w, right)
      PROVE  OperatorInv'
  <2>1. work[w].br \in Browsers
    BY <1>1, <1>6 DEF PasswordLogin, Held
  <2> DEFINE b == work[w].br
             j == [jar[b] EXCEPT !.slide = "none", !.slideAt = 0, !.name = None, !.pass = None]
             h == [Idle EXCEPT !.pc = "granted", !.br = b,
                               !.name = admin.name, !.pass = admin.pass]
  <2>2. j \in Jars
    BY <1>1, <2>1 DEF Jars
  <2>3. h \in Held
    BY <1>1, <2>1 DEF Idle, Held, Jobs
  <2>4. jar' = jar \/ jar' = [jar EXCEPT ![b] = j]
    BY <1>1, <1>6, <2>1 DEF PasswordLogin
  <2>5. Step(w, h) \/ Step(w, Idle)
    BY <1>6 DEF PasswordLogin
  <2>6. jar' \in [Browsers -> Jars]
    BY <1>1, <2>1, <2>2, <2>4, JarKept
  <2>7. work' \in [Workers -> Held]
    BY <2>3, <2>5, IdleHeld, WorkHeld
  <2> QED
    BY <1>6, <2>6, <2>7, NoRowStep DEF PasswordLogin
<1>7. CASE Login(w)
  <2>1. work[w].br \in Browsers /\ work[w].name \in Names /\ work[w].pass \in Passes
    BY <1>1, <1>7 DEF Login, Held
  <2> DEFINE b == work[w].br
             in == [jar[b] EXCEPT !.name = work[w].name, !.pass = work[w].pass,
                                  !.slide = "none", !.slideAt = 0]
             out == [in EXCEPT !.token = None, !.tokenName = None]
             kept(t) == [in EXCEPT !.token = t, !.tokenName = work[w].name]
  <2>2. out \in Jars /\ \A t \in Tokens : kept(t) \in Jars
    BY <1>1, <2>1 DEF Jars
  <2>3. Done(w) /\ UNCHANGED <<now, sessions, nonces, admitted>>
    BY <1>7 DEF Login
  <2>4. work' \in [Workers -> Held]
    BY <2>3, DoneHeld
  <2>5. ASSUME NEW t \in FreshTokens, SetRemember(work[w].name, work[w].pass, t),
               jar' = [jar EXCEPT ![b] = kept(t)]
        PROVE  OperatorInv'
    <3>1. t \in Tokens
      BY DEF FreshTokens
    <3> HIDE DEF kept
    <3>2. jar' \in [Browsers -> Jars]
      BY <2>1, <2>2, <2>5, <3>1, JarKept
    <3> QED
      BY <2>1, <2>3, <2>4, <2>5, <3>1, <3>2, SetAdmin, RememberStep
  <2>6. ASSUME ClearRemember(work[w].name), jar' = [jar EXCEPT ![b] = out]
        PROVE  OperatorInv'
    <3> HIDE DEF out
    <3>1. jar' \in [Browsers -> Jars]
      BY <2>1, <2>2, <2>6, JarKept
    <3> QED
      BY <2>3, <2>4, <2>6, <3>1, ClearedAdmin, RememberStep
  <2> QED
    BY <1>7, <2>5, <2>6 DEF Login
<1>8. ASSUME NEW b \in Browsers, LogoutStart(w, b)
      PROVE  OperatorInv'
  <2> DEFINE h == [Idle EXCEPT !.pc = "leaving", !.name = admin.name]
  <2>1. h \in Held
    BY <1>1 DEF Idle, Held, Jobs
  <2>2. Step(w, h) \/ Step(w, Idle)
    BY <1>8 DEF LogoutStart
  <2>3. work' \in [Workers -> Held]
    BY <2>1, <2>2, IdleHeld, WorkHeld
  <2>4. jar' \in [Browsers -> Jars]
    BY <1>8, EmptyJarIsJar, JarKept DEF LogoutStart
  <2> QED
    BY <1>8, <2>3, <2>4, NoRowStep DEF LogoutStart
<1>9. ASSUME NEW b \in Browsers, ForgetRememberLogin(w, b)
      PROVE  OperatorInv'
  <2> DEFINE h == [Idle EXCEPT !.pc = "forgetting", !.name = admin.name]
             j == [jar[b] EXCEPT !.token = None, !.tokenName = None]
  <2>1. h \in Held
    BY <1>1 DEF Idle, Held, Jobs
  <2>6. j \in Jars
    BY <1>1 DEF Jars
  <2>2. Step(w, h) \/ Step(w, Idle)
    BY <1>9 DEF ForgetRememberLogin
  <2>3. work' \in [Workers -> Held]
    BY <2>1, <2>2, IdleHeld, WorkHeld
  <2>4. jar' = [jar EXCEPT ![b] = j]
    BY <1>1, <1>9 DEF ForgetRememberLogin
  <2>5. jar' \in [Browsers -> Jars]
    BY <2>4, <2>6, JarKept
  <2> QED
    BY <1>9, <2>3, <2>5, NoRowStep DEF ForgetRememberLogin
<1>10. CASE Logout(w)
  <2>1. Done(w) /\ ClearRemember(work[w].name)
        /\ UNCHANGED <<now, sessions, nonces, jar, admitted>>
    BY <1>10 DEF Logout
  <2> QED
    BY <1>1, <2>1, DoneHeld, ClearedAdmin, RememberStep
<1> QED
  BY <1>2, <1>3, <1>4, <1>5, <1>6, <1>7, <1>8, <1>9, <1>10 DEF LoginStep

---------------------------------------------------------------------------
(* Sessions and signed requests *)

(* A session row is written where there was none; it is marked late when    *)
(* its credentials are not those of the account any more.                   *)
LEMMA NewSession ==
  ASSUME OperatorInv, NEW s \in SessionIds, sessions[s].status = "none",
         NEW row \in Rows, sessions' = [sessions EXCEPT ![s] = row],
         row.name # None => row.late \/ (row.name = admin.name /\ row.pass = admin.pass),
         UNCHANGED <<now, admin, nonces, jar, admitted>>,
         work' \in [Workers -> Held]
  PROVE  OperatorInv'
<1>1. sessions \in [SessionIds -> Rows]
  BY DEF OperatorInv, Types
<1>2. \A q \in SessionIds : sessions'[q] = IF q = s THEN row ELSE sessions[q]
  BY <1>1
<1>3. sessions' \in [SessionIds -> Rows]
  BY <1>1
<1>4. Types'
  BY <1>3 DEF OperatorInv, Types
<1>5. LiveSessionIsCurrent'
  BY <1>2 DEF OperatorInv, LiveSessionIsCurrent
<1>6. RememberedIsCurrent'
  BY DEF OperatorInv, RememberedIsCurrent
<1>7. NonceKept'
  <2> SUFFICES ASSUME NEW q \in SessionIds, NEW n \in {r.nonce : r \in Requests},
                      admitted'[<<q, n>>].end >= now'
               PROVE  \/ sessions'[q].status = "gone"
                      \/ \E x \in nonces' : /\ x.sid = q /\ x.nonce = n
                                            /\ x.until = admitted'[<<q, n>>].end
    BY DEF NonceKept
  <2>1. \/ sessions[q].status = "gone"
        \/ \E x \in nonces : /\ x.sid = q /\ x.nonce = n
                             /\ x.until = admitted[<<q, n>>].end
    BY DEF OperatorInv, NonceKept
  <2>2. sessions[q].status = "gone" => sessions'[q].status = "gone"
    BY <1>2
  <2> QED
    BY <2>1, <2>2
<1> QED
  BY <1>4, <1>5, <1>6, <1>7 DEF OperatorInv

LEMMA CreateSessionStep ==
  ASSUME OperatorInv, NEW w \in Workers, CreateSession(w)
  PROVE  OperatorInv'
<1>1. work[w] \in Held /\ now \in Nat /\ work[w].pc = "opening"
  BY Given DEF OperatorInv, Types, CreateSession
<1>2. work[w].name \in Names /\ work[w].pass \in Passes
  BY <1>1 DEF Held
<1> DEFINE stale == <<work[w].name, work[w].pass>> # <<admin.name, admin.pass>>
           row == [status |-> "live", name |-> work[w].name,
                   until |-> now + SessionTTL, pass |-> work[w].pass,
                   late |-> stale]
<1>3. PICK s \in SessionIds :
        sessions[s].status = "none" /\ sessions' = [sessions EXCEPT ![s] = row]
  BY DEF CreateSession
<1>4. now + SessionTTL \in Nat /\ stale \in BOOLEAN
  BY <1>1, Given
<1>5. row \in Rows
  <2> HIDE DEF stale
  <2> QED
    BY <1>2, <1>4 DEF Rows
<1>6. row.late \/ (row.name = admin.name /\ row.pass = admin.pass)
  OBVIOUS
<1>7. Done(w) /\ UNCHANGED <<now, admin, nonces, jar, admitted>>
  BY DEF CreateSession
<1>8. work' \in [Workers -> Held]
  BY <1>7, DoneHeld
<1> HIDE DEF row
<1> QED
  BY <1>3, <1>5, <1>6, <1>7, <1>8, NewSession

LEMMA TokenSessionStep ==
  ASSUME OperatorInv, CreateFromToken
  PROVE  OperatorInv'
<1>1. now \in Nat /\ work \in [Workers -> Held]
  BY Given DEF OperatorInv, Types
<1> DEFINE row == [NoRow EXCEPT !.status = "live", !.until = now + SessionTTL]
<1>2. now + SessionTTL \in Nat
  BY <1>1, Given
<1>3. row \in Rows /\ row.name = None
  BY <1>2 DEF Rows, NoRow
<1>4. PICK s \in SessionIds :
        sessions[s].status = "none" /\ sessions' = [sessions EXCEPT ![s] = row]
  BY DEF CreateFromToken
<1>5. UNCHANGED <<now, admin, nonces, jar, work, admitted>>
  BY DEF CreateFromToken
<1>6. work' \in [Workers -> Held]
  BY <1>1, <1>5
<1> HIDE DEF row
<1> QED
  BY <1>3, <1>4, <1>5, <1>6, NewSession

(* The rows of sessions are revoked or deleted, and nonces with them.       *)
LEMMA SessionsEnd ==
  ASSUME OperatorInv, UNCHANGED <<now, jar, admitted>>,
         work' \in [Workers -> Held], admin' \in Admins, nonces' \subseteq nonces,
         sessions' \in [SessionIds -> Rows],
         \A s \in SessionIds :
            \/ sessions'[s] = sessions[s]
            \/ sessions'[s].status \in {"revoked", "gone"},
         \A s \in SessionIds : sessions[s].status = "gone" => sessions'[s].status = "gone",
         \A x \in nonces \ nonces' : x.until < now \/ sessions'[x.sid].status = "gone",
         LiveSessionIsCurrent', RememberedIsCurrent'
  PROVE  OperatorInv'
<1>1. Types'
  BY DEF OperatorInv, Types
<1>2. NonceKept'
  <2> SUFFICES ASSUME NEW s \in SessionIds, NEW n \in {r.nonce : r \in Requests},
                      admitted'[<<s, n>>].end >= now',
                      sessions'[s].status # "gone"
               PROVE  \E x \in nonces' : /\ x.sid = s /\ x.nonce = n
                                         /\ x.until = admitted'[<<s, n>>].end
    BY DEF NonceKept
  <2>1. PICK x \in nonces : /\ x.sid = s /\ x.nonce = n
                            /\ x.until = admitted[<<s, n>>].end
    BY DEF OperatorInv, NonceKept
  <2>2. <<s, n>> \in Keys
    BY DEF Keys
  <2>3. admitted[<<s, n>>].end \in Nat /\ now \in Nat
    BY <2>2, Given DEF OperatorInv, Types
  <2>4. ~(x.until < now)
    BY <2>1, <2>3
  <2>5. x \in nonces'
    BY <2>1, <2>4
  <2> QED
    BY <2>1, <2>5
<1> QED
  BY <1>1, <1>2 DEF OperatorInv

LEMMA CleanupStep ==
  ASSUME OperatorInv, NEW w \in Workers, CleanupNonces(w)
  PROVE  OperatorInv'
<1> DEFINE dead == {s \in SessionIds : \/ sessions[s].status = "revoked"
                                       \/ /\ sessions[s].status = "live"
                                          /\ sessions[s].until < now}
           goneRow == [NoRow EXCEPT !.status = "gone"]
<1>1. /\ sessions' = [s \in SessionIds |-> IF s \in dead THEN goneRow ELSE sessions[s]]
      /\ nonces' = {x \in nonces : Unexpired(x) /\ x.sid \notin dead}
      /\ Done(w) /\ UNCHANGED <<now, admin, jar, admitted>>
  BY DEF CleanupNonces
<1>2. goneRow \in Rows /\ goneRow.status = "gone"
  BY NoRowIsRow DEF NoRow, Rows
<1>3. sessions \in [SessionIds -> Rows] /\ nonces \subseteq Nonces /\ now \in Nat
      /\ admin \in Admins
  BY Given DEF OperatorInv, Types
<1>4. work' \in [Workers -> Held]
  BY <1>1, DoneHeld
<1>5. \A s \in SessionIds : sessions'[s] = IF s \in dead THEN goneRow ELSE sessions[s]
  BY <1>1
<1> HIDE DEF goneRow
<1>6. sessions' \in [SessionIds -> Rows]
  BY <1>1, <1>2, <1>3
<1>7. \A s \in SessionIds : sessions[s].status = "gone" => s \notin dead
  OBVIOUS
<1>8. ASSUME NEW x \in nonces \ nonces'
      PROVE  x.until < now \/ sessions'[x.sid].status = "gone"
  <2>1. x.until \in Nat /\ x.sid \in SessionIds
    BY <1>3 DEF Nonces
  <2>2. CASE x.sid \in dead
    BY <1>2, <1>5, <2>1, <2>2
  <2>3. CASE x.sid \notin dead
    <3>1. ~Unexpired(x)
      BY <1>1, <2>3
    <3> QED
      BY <1>3, <2>1, <3>1 DEF Unexpired
  <2> QED
    BY <2>2, <2>3
<1> HIDE DEF dead
<1>9. LiveSessionIsCurrent' /\ RememberedIsCurrent'
  BY <1>1, <1>2, <1>5 DEF OperatorInv, LiveSessionIsCurrent, RememberedIsCurrent
<1>10. nonces' \subseteq nonces
  BY <1>1
<1> QED
  BY <1>1, <1>2, <1>3, <1>4, <1>5, <1>6, <1>7, <1>8, <1>9, <1>10, SessionsEnd

(* The transaction of a change of credentials: either the account still has *)
(* the name that was read, and every session of that name is revoked, or    *)
(* the account is not touched.                                              *)
LEMMA CredentialsStep ==
  ASSUME OperatorInv, NEW w \in Workers,
         UpdateAdminCredentialsAndRevokeSessions(w)
  PROVE  OperatorInv'
<1> DEFINE closed == LiveSessionsOf(w)
<1>1. /\ work[w].pc = "saving"
      /\ admin' = IF admin.name = work[w].name THEN NewCredentials(w) ELSE admin
      /\ sessions' = [s \in SessionIds |->
            IF s \in closed THEN [sessions[s] EXCEPT !.status = "revoked"] ELSE sessions[s]]
      /\ Done(w) /\ UNCHANGED <<now, nonces, jar, admitted>>
  BY DEF UpdateAdminCredentialsAndRevokeSessions
<1>2. sessions \in [SessionIds -> Rows] /\ work[w] \in Held /\ admin \in Admins
  BY DEF OperatorInv, Types
<1>3. work[w].next \in Names \X Passes
  BY <1>1, <1>2 DEF Held
<1>4. NewCredentials(w) \in Admins /\ NewCredentials(w).token = None
  BY <1>3 DEF NewCredentials, Admins
<1>5. work' \in [Workers -> Held]
  BY <1>1, DoneHeld
<1>6. \A s \in SessionIds :
         /\ sessions'[s] = IF s \in closed THEN [sessions[s] EXCEPT !.status = "revoked"]
                           ELSE sessions[s]
         /\ sessions[s] \in Rows
  BY <1>1, <1>2
<1>7. \A s \in closed : sessions'[s] \in Rows /\ sessions'[s].status = "revoked"
  BY <1>6 DEF Rows, LiveSessionsOf
<1>8. sessions' \in [SessionIds -> Rows]
  <2> HIDE DEF closed
  <2>1. sessions' = [s \in SessionIds |-> sessions'[s]]
    BY <1>1
  <2>2. \A s \in SessionIds : sessions'[s] \in Rows
    BY <1>6, <1>7
  <2> QED
    BY <2>1, <2>2
<1>9. \A s \in SessionIds : sessions[s].status = "gone" => sessions'[s].status = "gone"
  BY <1>6 DEF LiveSessionsOf
<1>10. LiveSessionIsCurrent'
  <2> SUFFICES ASSUME NEW s \in SessionIds,
                      sessions'[s].status = "live", sessions'[s].name # None,
                      ~sessions'[s].late
               PROVE  sessions'[s].name = admin'.name /\ sessions'[s].pass = admin'.pass
    BY DEF LiveSessionIsCurrent
  <2>1. s \notin closed /\ sessions'[s] = sessions[s]
    BY <1>6, <1>7
  <2>2. sessions[s].name = admin.name /\ sessions[s].pass = admin.pass
    BY <2>1 DEF OperatorInv, LiveSessionIsCurrent
  <2>3. admin.name # work[w].name
    BY <2>1, <2>2 DEF LiveSessionsOf
  <2> QED
    BY <1>1, <2>1, <2>2, <2>3
<1>11. RememberedIsCurrent'
  BY <1>1, <1>4 DEF OperatorInv, RememberedIsCurrent
<1>12. admin' \in Admins /\ nonces' \subseteq nonces /\ nonces \ nonces' = {}
  BY <1>1, <1>2, <1>4
<1>13. \A s \in SessionIds : \/ sessions'[s] = sessions[s]
                             \/ sessions'[s].status \in {"revoked", "gone"}
  BY <1>6, <1>7
<1> HIDE DEF closed
<1> QED
  BY <1>1, <1>5, <1>8, <1>9, <1>10, <1>11, <1>12, <1>13, SessionsEnd

(* A nonce that is not stored, for a session that is there, was admitted in *)
(* no window that is still open.                                            *)
LEMMA ReservedOnce ==
  ASSUME OperatorInv, NEW s \in SessionIds, NEW n \in {r.nonce : r \in Requests},
         ~NonceTaken(s, n), sessions[s].status # "gone"
  PROVE  admitted[<<s, n>>].end < now
<1>1. <<s, n>> \in Keys
  BY DEF Keys
<1>2. admitted[<<s, n>>].end \in Nat /\ now \in Nat
  BY <1>1, Given DEF OperatorInv, Types
<1>3. ~(admitted[<<s, n>>].end >= now)
  BY DEF OperatorInv, NonceKept, NonceTaken
<1> QED
  BY <1>2, <1>3

(* What ReserveNonce does when it accepts the request.                      *)
Accepts(w) ==
  LET s == work[w].sid
      r == work[w].req
  IN /\ s \in SessionIds /\ r \in Requests /\ r.nonce \in {q.nonce : q \in Requests}
     /\ ~NonceTaken(s, r.nonce) /\ sessions[s].status # "gone"
     /\ nonces' = nonces \cup {[sid |-> s, nonce |-> r.nonce, until |-> r.ts + Window]}
     /\ admitted' = [admitted EXCEPT ![<<s, r.nonce>>] =
                         [end |-> r.ts + Window, times |-> @.times + 1]]

LEMMA ReserveCases ==
  ASSUME OperatorInv, NEW w \in Workers, ReserveNonce(w)
  PROVE  /\ UNCHANGED <<now, admin, sessions, jar>>
         /\ work' \in [Workers -> Held]
         /\ Accepts(w) \/ UNCHANGED <<nonces, admitted>>
<1>1. work[w] \in Held /\ work[w].pc = "loaded"
  BY DEF OperatorInv, Types, ReserveNonce
<1>2. work[w].sid \in SessionIds /\ work[w].req \in Requests
  BY <1>1 DEF Held
<1> DEFINE h == [work[w] EXCEPT !.pc = "reserved"]
           taken == NonceTaken(work[w].sid, work[w].req.nonce)
                      \/ sessions[work[w].sid].status = "gone"
<1>3. h \in Held
  BY <1>1, <1>2 DEF Held, Jobs
<1>4. Step(w, h) \/ Step(w, Idle)
  BY DEF ReserveNonce
<1>5. work' \in [Workers -> Held]
  BY <1>3, <1>4, IdleHeld, WorkHeld
<1>6. CASE taken
  BY <1>5, <1>6 DEF ReserveNonce
<1>7. CASE ~taken
  BY <1>2, <1>5, <1>7 DEF ReserveNonce, Accepts
<1> QED
  BY <1>6, <1>7

LEMMA AcceptStep ==
  ASSUME OperatorInv, NEW w \in Workers, Accepts(w),
         UNCHANGED <<now, admin, sessions, jar>>, work' \in [Workers -> Held]
  PROVE  OperatorInv'
<1> DEFINE s == work[w].sid
           n == work[w].req.nonce
           end == work[w].req.ts + Window
           row == [sid |-> s, nonce |-> n, until |-> end]
<1>1. /\ s \in SessionIds /\ n \in {q.nonce : q \in Requests} /\ end \in Nat
      /\ nonces' = nonces \cup {row}
      /\ admitted' = [admitted EXCEPT ![<<s, n>>] = [end |-> end, times |-> @.times + 1]]
  BY Given DEF Accepts
<1>2. /\ admitted \in [Keys -> [end : Nat, times : Nat]] /\ nonces \subseteq Nonces
      /\ <<s, n>> \in Keys
  BY <1>1 DEF OperatorInv, Types, Keys
<1> HIDE DEF s, n, end
<1>3. \A k \in Keys : admitted'[k] =
          IF k = <<s, n>> THEN [end |-> end, times |-> admitted[k].times + 1] ELSE admitted[k]
  BY <1>1, <1>2
<1>4. admitted[<<s, n>>].times + 1 \in Nat
  BY <1>2
<1>5. admitted' \in [Keys -> [end : Nat, times : Nat]]
  BY <1>1, <1>2, <1>4
<1>6. row \in Nonces
  BY <1>1 DEF Nonces
<1>7. Types'
  BY <1>1, <1>2, <1>5, <1>6 DEF OperatorInv, Types
<1>8. LiveSessionIsCurrent' /\ RememberedIsCurrent'
  BY DEF OperatorInv, LiveSessionIsCurrent, RememberedIsCurrent
<1>9. NonceKept'
  <2> SUFFICES ASSUME NEW q \in SessionIds, NEW m \in {r.nonce : r \in Requests},
                      admitted'[<<q, m>>].end >= now'
               PROVE  \/ sessions'[q].status = "gone"
                      \/ \E x \in nonces' : /\ x.sid = q /\ x.nonce = m
                                            /\ x.until = admitted'[<<q, m>>].end
    BY DEF NonceKept
  <2>1. <<q, m>> \in Keys
    BY DEF Keys
  <2>2. CASE q = s /\ m = n
    <3>3. admitted'[<<s, n>>] = [end |-> end, times |-> admitted[<<s, n>>].times + 1]
      BY <1>2, <1>3
    <3>4. <<q, m>> = <<s, n>>
      BY <2>2
    <3>1. admitted'[<<q, m>>].end = end
      BY <3>3, <3>4
    <3>2. row \in nonces' /\ row.sid = q /\ row.nonce = m /\ row.until = end
      BY <1>1, <2>2
    <3> QED
      BY <3>1, <3>2
  <2>3. CASE ~(q = s /\ m = n)
    <3>1. admitted'[<<q, m>>] = admitted[<<q, m>>]
      BY <1>3, <2>1, <2>3
    <3>2. \/ sessions[q].status = "gone"
          \/ \E x \in nonces : /\ x.sid = q /\ x.nonce = m
                               /\ x.until = admitted[<<q, m>>].end
      BY <3>1 DEF OperatorInv, NonceKept
    <3> QED
      BY <1>1, <3>1, <3>2
  <2> QED
    BY <2>2, <2>3
<1> QED
  BY <1>7, <1>8, <1>9 DEF OperatorInv

LEMMA SessionSteps ==
  ASSUME OperatorInv, NEW w \in Workers, SessionStep(w)
  PROVE  OperatorInv'
<1>1. /\ jar \in [Browsers -> Jars] /\ work \in [Workers -> Held] /\ work[w] \in Held
      /\ admin \in Admins /\ admin.name \in Names /\ admin.pass \in Passes
      /\ sessions \in [SessionIds -> Rows]
  BY DEF OperatorInv, Types, Admins
<1>2. ASSUME NEW b \in Browsers, CreateTrustedFromCookie(w, b)
      PROVE  OperatorInv'
  <2> DEFINE h == [Idle EXCEPT !.pc = "opening", !.name = admin.name, !.pass = admin.pass]
             j == [jar[b] EXCEPT !.name = None, !.pass = None]
  <2>1. h \in Held
    BY <1>1 DEF Idle, Held, Jobs
  <2>2. j \in Jars
    BY <1>1 DEF Jars
  <2>3. Step(w, h) \/ Step(w, Idle)
    BY <1>2 DEF CreateTrustedFromCookie
  <2>4. work' \in [Workers -> Held]
    BY <2>1, <2>3, IdleHeld, WorkHeld
  <2>5. jar' = jar \/ jar' = [jar EXCEPT ![b] = j]
    BY <1>1, <1>2 DEF CreateTrustedFromCookie
  <2>6. jar' \in [Browsers -> Jars]
    BY <1>1, <2>2, <2>5, JarKept
  <2> QED
    BY <1>2, <2>4, <2>6, NoRowStep DEF CreateTrustedFromCookie
<1>3. ASSUME NEW s \in SessionIds, NEW r \in Requests, OpenFresh(w, s, r)
      PROVE  OperatorInv'
  <2> DEFINE h == [Idle EXCEPT !.pc = "fresh", !.sid = s, !.req = r]
  <2>1. h \in Held
    BY DEF Idle, Held, Jobs
  <2>2. Step(w, h) /\ UNCHANGED <<now, admin, sessions, nonces, jar, admitted>>
    BY <1>3 DEF OpenFresh
  <2> QED
    BY <1>1, <2>1, <2>2, WorkHeld, NoRowStep
<1>4. CASE LoadSession(w)
  <2> DEFINE h == [work[w] EXCEPT !.pc = "loaded", !.name = sessions[work[w].sid].name]
  <2>1. work[w].sid \in SessionIds /\ work[w].req \in Requests
    BY <1>1, <1>4 DEF LoadSession, Held
  <2>2. sessions[work[w].sid].name \in Names \cup {None}
    BY <1>1, <2>1 DEF Rows
  <2>3. h \in Held
    BY <1>1, <2>1, <2>2 DEF Held, Jobs
  <2>4. Step(w, h) \/ Step(w, Idle)
    BY <1>4 DEF LoadSession
  <2>5. work' \in [Workers -> Held]
    BY <2>3, <2>4, IdleHeld, WorkHeld
  <2> QED
    BY <1>1, <1>4, <2>5, NoRowStep DEF LoadSession
<1>5. CASE ReserveNonce(w)
  <2>1. /\ UNCHANGED <<now, admin, sessions, jar>>
        /\ work' \in [Workers -> Held]
        /\ Accepts(w) \/ UNCHANGED <<nonces, admitted>>
    BY <1>5, ReserveCases
  <2> QED
    BY <1>1, <2>1, AcceptStep, NoRowStep
<1>6. CASE DispatchView(w)
  <2>1. Done(w) /\ UNCHANGED <<now, admin, sessions, nonces, jar, admitted>>
    BY <1>6 DEF DispatchView
  <2> QED
    BY <1>1, <2>1, DoneHeld, NoRowStep
<1>7. CASE ClearRememberedAdminLogin(w)
  <2>1. Done(w) /\ ClearRemember(work[w].name)
        /\ UNCHANGED <<now, sessions, nonces, jar, admitted>>
    BY <1>7 DEF ClearRememberedAdminLogin
  <2> QED
    BY <1>1, <2>1, DoneHeld, ClearedAdmin, RememberStep
<1>8. CASE UpdateAdminProfile(w)
  <2>1. PICK n \in Names, p \in Passes :
          Step(w, [work[w] EXCEPT !.pc = "saving", !.next = <<n, p>>])
    BY <1>8 DEF UpdateAdminProfile
  <2> DEFINE h == [work[w] EXCEPT !.pc = "saving", !.next = <<n, p>>]
  <2>2. work[w].sid \in SessionIds /\ work[w].req \in Requests
    BY <1>1, <1>8 DEF UpdateAdminProfile, Held
  <2>3. h \in Held
    BY <1>1, <2>2 DEF Held, Jobs
  <2>4. UNCHANGED <<now, admin, sessions, nonces, jar, admitted>>
    BY <1>8 DEF UpdateAdminProfile
  <2> QED
    BY <1>1, <2>1, <2>3, <2>4, WorkHeld, NoRowStep
<1> QED
  BY <1>2, <1>3, <1>4, <1>5, <1>6, <1>7, <1>8, CreateSessionStep, CleanupStep,
     CredentialsStep DEF SessionStep

LEMMA OperatorStep == OperatorInv /\ [Next]_vars => OperatorInv'
<1> SUFFICES ASSUME OperatorInv, [Next]_vars PROVE OperatorInv'
  OBVIOUS
<1>1. jar \in [Browsers -> Jars] /\ work \in [Workers -> Held]
  BY DEF OperatorInv, Types
<1>2. ASSUME NEW w \in Workers, Drop(w)
      PROVE  OperatorInv'
  <2>1. Done(w) /\ UNCHANGED <<now, admin, sessions, nonces, jar, admitted>>
    BY <1>2 DEF Drop
  <2> QED
    BY <1>1, <2>1, DoneHeld, NoRowStep
<1>3. CASE Tick
  <2>1. now' = now + 1 /\ now < MaxTime /\ now \in 1..MaxTime
        /\ UNCHANGED <<admin, sessions, nonces, jar, work, admitted>>
    BY <1>3 DEF Tick, OperatorInv, Types
  <2>2. now' \in 1..MaxTime
    BY <2>1, Given
  <2>3. Types'
    BY <2>1, <2>2 DEF OperatorInv, Types
  <2>4. LiveSessionIsCurrent' /\ RememberedIsCurrent'
    BY <2>1 DEF OperatorInv, LiveSessionIsCurrent, RememberedIsCurrent
  <2>5. NonceKept'
    <3> SUFFICES ASSUME NEW s \in SessionIds, NEW n \in {r.nonce : r \in Requests},
                        admitted[<<s, n>>].end >= now'
                 PROVE  \/ sessions[s].status = "gone"
                        \/ \E x \in nonces : /\ x.sid = s /\ x.nonce = n
                                             /\ x.until = admitted[<<s, n>>].end
      BY <2>1 DEF NonceKept
    <3>1. <<s, n>> \in Keys
      BY DEF Keys
    <3>2. admitted[<<s, n>>].end \in Nat
      BY <3>1 DEF OperatorInv, Types
    <3>3. admitted[<<s, n>>].end >= now
      BY <2>1, <3>2
    <3> QED
      BY <3>3 DEF OperatorInv, NonceKept
  <2> QED
    BY <2>3, <2>4, <2>5 DEF OperatorInv
<1>4. CASE UNCHANGED vars
  <2>1. UNCHANGED <<now, admin, sessions, nonces, admitted>> /\ UNCHANGED <<jar, work>>
    BY <1>4 DEF vars
  <2> QED
    BY <1>1, <2>1, NoRowStep
<1> QED
  BY <1>2, <1>3, <1>4, BrowserSteps, LoginSteps, SessionSteps, TokenSessionStep DEF Next

(* Whatever logins, sessions, requests and changes of credentials           *)
(* interleave, every row and every handler's record keeps its type.         *)
THEOREM OperatorTypes == Spec => []TypeOK
<1>1. Init => OperatorInv
  BY OperatorInit
<1>2. OperatorInv /\ [Next]_vars => OperatorInv'
  BY OperatorStep
<1>3. OperatorInv => TypeOK
  <2> SUFFICES ASSUME OperatorInv PROVE TypeOK
    OBVIOUS
  <2>1. /\ now \in 1..MaxTime /\ admin \in Admins /\ sessions \in [SessionIds -> Rows]
        /\ nonces \subseteq Nonces /\ jar \in [Browsers -> Jars]
        /\ work \in [Workers -> Jobs]
        /\ admitted \in [Keys -> [end : Nat, times : Nat]]
    BY DEF OperatorInv, Types, Held
  <2> QED
    BY <2>1 DEF TypeOK, Admins, Rows, Nonces, Jars, Jobs
<1> QED
  BY <1>1, <1>2, <1>3, PTL DEF Spec

(* A change of credentials leaves no session of the old ones, but those     *)
(* whose cookie was compared before it and whose row was written after it.  *)
THEOREM SessionsAreCurrent == Spec => []LiveSessionIsCurrent
<1>1. Init => OperatorInv
  BY OperatorInit
<1>2. OperatorInv /\ [Next]_vars => OperatorInv'
  BY OperatorStep
<1>3. OperatorInv => LiveSessionIsCurrent
  BY DEF OperatorInv
<1> QED
  BY <1>1, <1>2, <1>3, PTL DEF Spec

(* The remembered login was issued to the password of today, or by a login  *)
(* that overlapped its change.                                              *)
THEOREM RememberedLoginsAreCurrent == Spec => []RememberedIsCurrent
<1>1. Init => OperatorInv
  BY OperatorInit
<1>2. OperatorInv /\ [Next]_vars => OperatorInv'
  BY OperatorStep
<1>3. OperatorInv => RememberedIsCurrent
  BY DEF OperatorInv
<1> QED
  BY <1>1, <1>2, <1>3, PTL DEF Spec

---------------------------------------------------------------------------
(* OnceGuard: a signed request is admitted once per window.                 *)

LEMMA GuardStep ==
  ASSUME OperatorInv, [Next]_vars
  PROVE  [Guard!GuardNext]_(Guard!guardVars)
<1>1. CASE UNCHANGED <<now, admitted>>
  BY <1>1 DEF Guard!guardVars
<1>2. CASE Tick
  BY <1>2 DEF Tick, Guard!GuardNext, Guard!Pass
<1>3. ASSUME NEW w \in Workers, ReserveNonce(w)
      PROVE  [Guard!GuardNext]_(Guard!guardVars)
  <2>1. UNCHANGED now /\ (Accepts(w) \/ UNCHANGED admitted)
    BY <1>3, ReserveCases
  <2>2. CASE UNCHANGED admitted
    BY <1>1, <2>1, <2>2
  <2>3. CASE Accepts(w)
    <3> DEFINE k == <<work[w].sid, work[w].req.nonce>>
               end == work[w].req.ts + Window
    <3>1. admitted[k].end < now
      BY <2>3, ReservedOnce DEF Accepts
    <3>2. admitted' = [admitted EXCEPT ![k] = [end |-> end, times |-> @.times + 1]]
      BY <2>3 DEF Accepts
    <3>3. k \in Keys /\ end \in {r.ts + Window : r \in Requests}
      BY <2>3 DEF Accepts, Keys
    <3>4. Guard!Admit(k, end)
      BY <2>1, <3>1, <3>2 DEF Guard!Admit
    <3> QED
      BY <3>3, <3>4 DEF Guard!GuardNext
  <2> QED
    BY <2>1, <2>2, <2>3
<1>4. ASSUME NEW b \in Browsers, BrowserStep(b)
      PROVE  UNCHANGED <<now, admitted>>
  BY <1>4 DEF BrowserStep, IssueSliderChallenge, VerifySlider
<1>5. ASSUME NEW w \in Workers, LoginStep(w)
      PROVE  UNCHANGED <<now, admitted>>
  BY <1>5 DEF LoginStep, RememberedAdmin, ClearMismatch, RestoreRememberedLogin,
     RenderLoginPage, PasswordLogin, Login, LogoutStart, ForgetRememberLogin, Logout
<1>6. ASSUME NEW w \in Workers, SessionStep(w)
      PROVE  UNCHANGED <<now, admitted>> \/ ReserveNonce(w)
  BY <1>6 DEF SessionStep, CreateTrustedFromCookie, CreateSession, OpenFresh,
     LoadSession, DispatchView, ClearRememberedAdminLogin, CleanupNonces,
     UpdateAdminProfile, UpdateAdminCredentialsAndRevokeSessions
<1>7. ASSUME NEW w \in Workers, Drop(w)
      PROVE  UNCHANGED <<now, admitted>>
  BY <1>7 DEF Drop
<1>8. CASE CreateFromToken
  BY <1>1, <1>8 DEF CreateFromToken
<1>9. CASE UNCHANGED vars
  BY <1>1, <1>9 DEF vars
<1> QED
  BY <1>1, <1>2, <1>3, <1>4, <1>5, <1>6, <1>7, <1>8, <1>9 DEF Next

(* Signed console requests implement OnceGuard: each runs once while its    *)
(* timestamp is good, whatever is delivered again, dropped or cleaned up.   *)
THEOREM OperatorRequestsRunOnce == Spec => OnceSpec
<1>1. Init => OperatorInv
  BY OperatorInit
<1>2. OperatorInv /\ [Next]_vars => OperatorInv'
  BY OperatorStep
<1>3. Init => Guard!GuardInit
  BY DEF Init, Guard!GuardInit, Guard!Never
<1>4. OperatorInv /\ [Next]_vars => [Guard!GuardNext]_(Guard!guardVars)
  BY GuardStep
<1> QED
  BY <1>1, <1>2, <1>3, <1>4, PTL DEF Spec, OnceSpec, Guard!GuardSpec

---------------------------------------------------------------------------
LEMMA RevokedStep ==
  ASSUME OperatorInv, [Next]_vars, NEW s \in SessionIds,
         sessions[s].status \in {"revoked", "gone"}
  PROVE  sessions'[s].status \in {"revoked", "gone"}
<1>0. sessions \in [SessionIds -> Rows]
  BY DEF OperatorInv, Types
<1>1. ASSUME NEW b \in Browsers, BrowserStep(b)
      PROVE  UNCHANGED sessions
  BY <1>1 DEF BrowserStep, IssueSliderChallenge, VerifySlider
<1>2. ASSUME NEW w \in Workers, LoginStep(w)
      PROVE  UNCHANGED sessions
  BY <1>2 DEF LoginStep, RememberedAdmin, ClearMismatch, RestoreRememberedLogin,
     RenderLoginPage, PasswordLogin, Login, LogoutStart, ForgetRememberLogin, Logout
<1>3. ASSUME NEW w \in Workers, SessionStep(w)
      PROVE  \/ UNCHANGED sessions
             \/ CreateSession(w) \/ CleanupNonces(w)
             \/ UpdateAdminCredentialsAndRevokeSessions(w)
  BY <1>3 DEF SessionStep, CreateTrustedFromCookie, OpenFresh, LoadSession,
     ReserveNonce, DispatchView, ClearRememberedAdminLogin, UpdateAdminProfile
<1>4. ASSUME NEW w \in Workers, CreateSession(w)
      PROVE  UNCHANGED sessions[s]
  BY <1>0, <1>4 DEF CreateSession
<1>5. CASE CreateFromToken
  BY <1>0, <1>5 DEF CreateFromToken
<1>6. ASSUME NEW w \in Workers, CleanupNonces(w)
      PROVE  sessions'[s].status = "gone" \/ UNCHANGED sessions[s]
  <2>1. \/ sessions'[s] = [NoRow EXCEPT !.status = "gone"]
        \/ sessions'[s] = sessions[s]
    BY <1>6 DEF CleanupNonces
  <2> QED
    BY <2>1 DEF NoRow
<1>7. ASSUME NEW w \in Workers, UpdateAdminCredentialsAndRevokeSessions(w)
      PROVE  UNCHANGED sessions[s]
  BY <1>7 DEF UpdateAdminCredentialsAndRevokeSessions, LiveSessionsOf
<1>8. ASSUME NEW w \in Workers, Drop(w)
      PROVE  UNCHANGED sessions
  BY <1>8 DEF Drop
<1>9. CASE Tick
  BY <1>9 DEF Tick
<1>10. CASE UNCHANGED vars
  BY <1>10 DEF vars
<1> QED
  BY <1>1, <1>2, <1>3, <1>4, <1>5, <1>6, <1>7, <1>8, <1>9, <1>10 DEF Next

(* No login, cleanup or late handler brings a revoked session back.         *)
THEOREM RevokedSessionsStay == Spec => RevokedStaysRevoked
<1>1. Init => OperatorInv
  BY OperatorInit
<1>2. OperatorInv /\ [Next]_vars => OperatorInv'
  BY OperatorStep
<1>3. OperatorInv /\ [Next]_vars =>
        [\A s \in SessionIds :
            sessions[s].status \in {"revoked", "gone"}
               => sessions'[s].status \in {"revoked", "gone"}]_vars
  BY RevokedStep
<1> QED
  BY <1>1, <1>2, <1>3, PTL DEF Spec, RevokedStaysRevoked
=============================================================================
