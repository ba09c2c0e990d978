-------------------------- MODULE OperatorSessions --------------------------
(***************************************************************************)
(* How an operator gets into the console and stays there: the slider, the   *)
(* password login, the remembered login, the cookie that opens a session,   *)
(* signed requests with their nonces, the change of credentials that is     *)
(* meant to throw everybody out, and the cleanup of expired rows.           *)
(*                                                                         *)
(* service/login.rs and service/admin_session.rs, the handlers of           *)
(* http/mod.rs that call them and the statements they run.  Every handler   *)
(* awaits the database between its reads and its writes: a worker is a      *)
(* handler between two awaits, holding what it has read so far.             *)
(*                                                                         *)
(* There is one operator account (one row of sub_admin).  The column        *)
(* `cookies` is written at login and never read; it is left out.            *)
(***************************************************************************)
EXTENDS Naturals, FiniteSets

CONSTANTS None,
          Names, Passes,      \* user names and password hashes
          Tokens,             \* remembered-login tokens
          SessionIds, Workers, Browsers,
          Requests,           \* signed requests: [nonce, ts]
          Ops,                \* console routes that are exercised
          SessionTTL,         \* SESSION_TTL_SECONDS
          RememberTTL,        \* LOGIN_COOKIE_TTL_SECONDS
          ProofTTL,           \* SLIDER_PROOF_TTL_SECONDS
          Window,             \* SIGNATURE_WINDOW_SECONDS
          MaxTime             \* the clock stops here (a bound of the model)

ASSUME TimesAssumption ==
    /\ SessionTTL \in Nat /\ RememberTTL \in Nat /\ ProofTTL \in Nat
    /\ Window \in Nat /\ MaxTime \in Nat \ {0}
ASSUME RequestsAssumption == \A r \in Requests : r.ts \in Nat
ASSUME NoneAssumption ==
    None \notin Names \cup Passes \cup Tokens \cup SessionIds \cup Requests

VARIABLES now,
          admin,     \* the row of sub_admin
          sessions,  \* auth_admin_sessions
          nonces,    \* auth_admin_nonces
          jar,       \* per browser: its cookies
          work,      \* per worker: the handler it is in the middle of
          admitted   \* per session and nonce: its admissions (as in OnceGuard)

vars == <<now, admin, sessions, nonces, jar, work, admitted>>

Idle == [pc |-> "idle", name |-> None, pass |-> None, next |-> None,
         br |-> None, sid |-> None, req |-> None]

NoRow  == [status |-> "none", name |-> None, until |-> 0, pass |-> None,
           late |-> FALSE]

Keys == SessionIds \X {r.nonce : r \in Requests}

TypeOK ==
    /\ now \in 1..MaxTime
    /\ admin \in [name : Names, pass : Passes, token : Tokens \cup {None},
                  until : Nat, by : Passes \cup {None}, late : BOOLEAN]
    /\ sessions \in [SessionIds ->
            [status : {"none", "live", "revoked", "gone"},
             name : Names \cup {None}, until : Nat,
             pass : Passes \cup {None}, late : BOOLEAN]]
    /\ nonces \subseteq [sid : SessionIds, nonce : {r.nonce : r \in Requests},
                         until : Nat]
    /\ jar \in [Browsers ->
            [name : Names \cup {None}, pass : Passes \cup {None},
             token : Tokens \cup {None}, tokenName : Names \cup {None},
             slide : {"none", "challenge", "proof"}, slideAt : Nat]]
    /\ work \in [Workers ->
            [pc : {"idle", "restored", "mismatch", "page", "granted",
                   "opening", "leaving", "forgetting", "fresh", "loaded",
                   "reserved", "saving"},
             name : Names \cup {None}, pass : Passes \cup {None},
             next : (Names \X Passes) \cup {None},
             br : Browsers \cup {None}, sid : SessionIds \cup {None},
             req : Requests \cup {None}]]
    /\ admitted \in [Keys -> [end : Nat, times : Nat]]

EmptyJar == [name |-> None, pass |-> None, token |-> None, tokenName |-> None,
             slide |-> "none", slideAt |-> 0]

(* The account may remember a login from before, and a browser may still    *)
(* keep the cookie of one, the same or an older one.                        *)
Init ==
    /\ now = 1
    /\ \E n \in Names, p \in Passes :
          /\ \/ admin = [name |-> n, pass |-> p, token |-> None, until |-> 0,
                         by |-> None, late |-> FALSE]
             \/ \E t \in Tokens :
                   admin = [name |-> n, pass |-> p, token |-> t,
                            until |-> 1 + RememberTTL, by |-> p, late |-> FALSE]
          /\ jar \in [Browsers -> {EmptyJar} \cup
                         {[EmptyJar EXCEPT !.token = t, !.tokenName = n] : t \in Tokens}]
    /\ sessions = [s \in SessionIds |-> NoRow]
    /\ nonces = {}
    /\ work = [w \in Workers |-> Idle]
    /\ admitted = [k \in Keys |-> [end |-> 0, times |-> 0]]

---------------------------------------------------------------------------
(* Rows and cookies *)

(* The admin cookie carries the user name and a digest of name and password *)
(* hash: it is good exactly as long as both are those of the row.           *)
CookieIsGood(b) == jar[b].name = admin.name /\ jar[b].pass = admin.pass

RememberLoginActive == admin.token # None /\ admin.until > now

(* UPDATE ... SET remember_login_token_hash = '' WHERE username = name      *)
ClearRemember(name) ==
    admin' = IF admin.name = name
             THEN [admin EXCEPT !.token = None, !.until = 0, !.by = None,
                                !.late = FALSE]
             ELSE admin

(* UPDATE ... SET remember_login_token_hash = t WHERE username = name, by a *)
(* login that had read the password hash pass.                              *)
SetRemember(name, pass, t) ==
    admin' = IF admin.name = name
             THEN [admin EXCEPT !.token = t, !.until = now + RememberTTL,
                                !.by = pass, !.late = pass # admin.pass]
             ELSE admin

FreshTokens == Tokens \ ({admin.token} \cup {jar[b].token : b \in Browsers})

Step(w, record) == work' = [work EXCEPT ![w] = record]
Done(w) == Step(w, Idle)

---------------------------------------------------------------------------
(* The slider: its state lives in the browser's login cookie.               *)

ActiveSliderProof(b) ==
    jar[b].slide = "proof" /\ now - jar[b].slideAt <= ProofTTL

IssueSliderChallenge(b) ==
    /\ jar[b].slide = "none" \/ jar[b].slide = "proof"
    /\ ~ActiveSliderProof(b)
    /\ jar' = [jar EXCEPT ![b].slide = "challenge", ![b].slideAt = now]
    /\ UNCHANGED <<now, admin, sessions, nonces, work, admitted>>

(* A wrong or late slide clears the challenge; a right one leaves a proof.  *)
VerifySlider(b, right) ==
    /\ jar[b].slide = "challenge"
    /\ jar' = [jar EXCEPT ![b].slide = IF right THEN "proof" ELSE "none",
                          ![b].slideAt = IF right THEN now ELSE 0]
    /\ UNCHANGED <<now, admin, sessions, nonces, work, admitted>>

---------------------------------------------------------------------------
(* Coming to the login page.  A browser whose cookie is good is sent on to  *)
(* the console.  Otherwise a remember cookie is tried: the row is read and, *)
(* when it holds another token, the row's token is cleared.                 *)

RememberedAdmin(w, b) ==
    /\ work[w].pc = "idle"
    /\ ~CookieIsGood(b)
    /\ LET named   == jar[b].token # None /\ jar[b].tokenName = admin.name
           active  == named /\ RememberLoginActive
           matches == active /\ jar[b].token = admin.token
           seen    == [Idle EXCEPT !.br = b, !.name = admin.name,
                                   !.pass = admin.pass]
       IN Step(w, IF matches THEN [seen EXCEPT !.pc = "restored"]
                  ELSE IF active THEN [seen EXCEPT !.pc = "mismatch"]
                  ELSE [Idle EXCEPT !.br = b, !.pc = "page"])
    /\ UNCHANGED <<now, admin, sessions, nonces, jar, admitted>>

ClearMismatch(w) ==
    /\ work[w].pc = "mismatch"
    /\ ClearRemember(work[w].name)
    /\ Step(w, [Idle EXCEPT !.br = work[w].br, !.pc = "page"])
    /\ UNCHANGED <<now, sessions, nonces, jar, admitted>>

RestoreRememberedLogin(w) ==
    /\ work[w].pc = "restored"
    /\ jar' = [jar EXCEPT ![work[w].br].name = work[w].name,
                          ![work[w].br].pass = work[w].pass]
    /\ Done(w)
    /\ UNCHANGED <<now, admin, sessions, nonces, admitted>>

(* The page itself: its cookie for a dead credential is expired.            *)
RenderLoginPage(w) ==
    /\ work[w].pc = "page"
    /\ jar' = [jar EXCEPT ![work[w].br].name = None, ![work[w].br].pass = None]
    /\ Done(w)
    /\ UNCHANGED <<now, admin, sessions, nonces, admitted>>

(* The posted form: the slider proof, then the name and the password, which *)
(* are compared with the row as it is read here.                            *)
PasswordLogin(w, right) ==
    /\ work[w].pc = "page"
    /\ LET b == work[w].br
           enter == right /\ ActiveSliderProof(b)
       IN /\ jar' = IF enter THEN jar
                    ELSE [jar EXCEPT ![b].slide = "none", ![b].slideAt = 0,
                                     ![b].name = None, ![b].pass = None]
          /\ Step(w, IF enter
                     THEN [Idle EXCEPT !.pc = "granted", !.br = b,
                                       !.name = admin.name, !.pass = admin.pass]
                     ELSE Idle)
    /\ UNCHANGED <<now, admin, sessions, nonces, admitted>>

(* The end of a login: the remembered login is set, or cleared, for the     *)
(* name that was read, and the browser gets its cookies.                    *)
Login(w) ==
    /\ work[w].pc = "granted"
    /\ LET b == work[w].br
           in == [jar[b] EXCEPT !.name = work[w].name, !.pass = work[w].pass,
                                !.slide = "none", !.slideAt = 0]
       IN \/ \E t \in FreshTokens :                        \* issue_remember_cookie
                /\ SetRemember(work[w].name, work[w].pass, t)
                /\ jar' = [jar EXCEPT ![b] = [in EXCEPT !.token = t,
                                                        !.tokenName = work[w].name]]
          \/ /\ ClearRemember(work[w].name)
             /\ jar' = [jar EXCEPT ![b] = [in EXCEPT !.token = None,
                                                     !.tokenName = None]]
    /\ Done(w)
    /\ UNCHANGED <<now, sessions, nonces, admitted>>

(* Logging out reads the account of the cookie, then clears its remembered  *)
(* login; the browser drops its cookies either way.                         *)
LogoutStart(w, b) ==
    /\ "logout" \in Ops
    /\ work[w].pc = "idle"
    /\ jar[b].name # None
    /\ jar' = [jar EXCEPT ![b] = EmptyJar]
    /\ Step(w, IF CookieIsGood(b)
               THEN [Idle EXCEPT !.pc = "leaving", !.name = admin.name]
               ELSE Idle)
    /\ UNCHANGED <<now, admin, sessions, nonces, admitted>>

Logout(w) ==
    /\ work[w].pc \in {"leaving", "forgetting"}
    /\ ClearRemember(work[w].name)
    /\ Done(w)
    /\ UNCHANGED <<now, sessions, nonces, jar, admitted>>

ForgetRememberLogin(w, b) ==
    /\ "forget" \in Ops
    /\ work[w].pc = "idle"
    /\ jar[b].token # None
    /\ Step(w, IF jar[b].tokenName = admin.name /\ RememberLoginActive
               THEN [Idle EXCEPT !.pc = "forgetting", !.name = admin.name]
               ELSE Idle)
    /\ jar' = [jar EXCEPT ![b].token = None, ![b].tokenName = None]
    /\ UNCHANGED <<now, admin, sessions, nonces, admitted>>

---------------------------------------------------------------------------
(* Sessions *)

(* The console trades its cookie for a session: the cookie is compared with *)
(* the row, then a session row is written for the name that was read.       *)
CreateTrustedFromCookie(w, b) ==
    /\ work[w].pc = "idle"
    /\ jar[b].name # None
    /\ Step(w, IF CookieIsGood(b)
               THEN [Idle EXCEPT !.pc = "opening", !.name = admin.name,
                                 !.pass = admin.pass]
               ELSE Idle)
    /\ jar' = IF CookieIsGood(b) THEN jar
              ELSE [jar EXCEPT ![b].name = None, ![b].pass = None]
    /\ UNCHANGED <<now, admin, sessions, nonces, admitted>>

CreateSession(w) ==
    /\ work[w].pc = "opening"
    /\ \E s \in SessionIds :
          /\ sessions[s].status = "none"
          /\ sessions' = [sessions EXCEPT ![s] =
                [status |-> "live", name |-> work[w].name,
                 until |-> now + SessionTTL, pass |-> work[w].pass,
                 late |-> <<work[w].name, work[w].pass>>
                              # <<admin.name, admin.pass>>]]
    /\ Done(w)
    /\ UNCHANGED <<now, admin, nonces, jar, admitted>>

(* A script that knows the admin token opens a session of no account.       *)
CreateFromToken ==
    /\ "token" \in Ops
    /\ \E s \in SessionIds :
          /\ sessions[s].status = "none"
          /\ sessions' = [sessions EXCEPT ![s] =
                [NoRow EXCEPT !.status = "live", !.until = now + SessionTTL]]
    /\ UNCHANGED <<now, admin, nonces, jar, work, admitted>>

---------------------------------------------------------------------------
(* Signed requests.  One may be delivered any number of times.              *)

FreshTimestamp(r) == now <= r.ts + Window /\ r.ts <= now + Window

OpenFresh(w, s, r) ==
    /\ work[w].pc = "idle"
    /\ sessions[s].status # "none"
    /\ FreshTimestamp(r)
    /\ Step(w, [Idle EXCEPT !.pc = "fresh", !.sid = s, !.req = r])
    /\ UNCHANGED <<now, admin, sessions, nonces, jar, admitted>>

LoadSession(w) ==
    /\ work[w].pc = "fresh"
    /\ LET row == sessions[work[w].sid] IN
       Step(w, IF row.status = "live" /\ row.until >= now
               THEN [work[w] EXCEPT !.pc = "loaded", !.name = row.name]
               ELSE Idle)
    /\ UNCHANGED <<now, admin, sessions, nonces, jar, admitted>>

NonceTaken(s, n) == \E x \in nonces : x.sid = s /\ x.nonce = n

(* The insert fails on a nonce that is there and, by the foreign key, on a  *)
(* session that is not: both read as a replay.                              *)
ReserveNonce(w) ==
    /\ work[w].pc = "loaded"
    /\ LET s == work[w].sid
           r == work[w].req
           taken == NonceTaken(s, r.nonce) \/ sessions[s].status = "gone"
       IN /\ nonces' = IF taken THEN nonces
                       ELSE nonces \cup {[sid |-> s, nonce |-> r.nonce,
                                          until |-> r.ts + Window]}
          /\ admitted' = IF taken THEN admitted
                       ELSE [admitted EXCEPT ![<<s, r.nonce>>] =
                                 [end |-> r.ts + Window, times |-> @.times + 1]]
          /\ Step(w, IF taken THEN Idle ELSE [work[w] EXCEPT !.pc = "reserved"])
    /\ UNCHANGED <<now, admin, sessions, jar>>

(* What an admitted request does. *)

DispatchView(w) ==
    /\ work[w].pc = "reserved"
    /\ Done(w)
    /\ UNCHANGED <<now, admin, sessions, nonces, jar, admitted>>

ClearRememberedAdminLogin(w) ==
    /\ "clear" \in Ops
    /\ work[w].pc = "reserved"
    /\ ClearRemember(work[w].name)
    /\ Done(w)
    /\ UNCHANGED <<now, sessions, nonces, jar, admitted>>

StillAhead(x) == x.until > now
Unexpired(x) == x.until >= now

(* DELETE ... WHERE expires_at < now; a session takes its nonces with it.   *)
CleanupNonces(w) ==
    /\ "cleanup" \in Ops
    /\ work[w].pc = "reserved"
    /\ LET dead == {s \in SessionIds : \/ sessions[s].status = "revoked"
                                       \/ /\ sessions[s].status = "live"
                                          /\ sessions[s].until < now}
       IN /\ sessions' = [s \in SessionIds |->
                IF s \in dead THEN [NoRow EXCEPT !.status = "gone"]
                ELSE sessions[s]]
          /\ nonces' = {x \in nonces : Unexpired(x) /\ x.sid \notin dead}
    /\ Done(w)
    /\ UNCHANGED <<now, admin, jar, admitted>>

(* A change of credentials, with the right current password.  The row as it *)
(* is read here supplies the password hash when only the name changes.      *)
UpdateAdminProfile(w) ==
    /\ "profile" \in Ops
    /\ work[w].pc = "reserved"
    /\ work[w].name = admin.name
    /\ \E n \in Names, p \in Passes :
          /\ <<n, p>> # <<admin.name, admin.pass>>
          /\ Step(w, [work[w] EXCEPT !.pc = "saving", !.next = <<n, p>>])
    /\ UNCHANGED <<now, admin, sessions, nonces, jar, admitted>>

KeepsRemembered(w) ==
    [admin EXCEPT !.name = work[w].next[1], !.pass = work[w].next[2]]
NewCredentials(w) ==
    [name |-> work[w].next[1], pass |-> work[w].next[2], token |-> None,
     until |-> 0, by |-> None, late |-> FALSE]

LiveOthers(w) == {s \in SessionIds : /\ sessions[s].status = "live"
                                     /\ sessions[s].name = work[w].name
                                     /\ s # work[w].sid}
LiveSessionsOf(w) == {s \in SessionIds : /\ sessions[s].status = "live"
                                         /\ sessions[s].name = work[w].name}

(* One transaction: the row of the name that was read, and every session    *)
(* of that name.                                                            *)
UpdateAdminCredentialsAndRevokeSessions(w) ==
    /\ work[w].pc = "saving"
    /\ admin' = IF admin.name = work[w].name
                THEN NewCredentials(w) ELSE admin
    /\ sessions' = [s \in SessionIds |->
          IF s \in LiveSessionsOf(w) THEN [sessions[s] EXCEPT !.status = "revoked"]
          ELSE sessions[s]]
    /\ Done(w)
    /\ UNCHANGED <<now, nonces, jar, admitted>>

(* The connection closes, a statement fails or the server restarts between  *)
(* two awaits.                                                              *)
Drop(w) ==
    /\ work[w].pc # "idle"
    /\ Done(w)
    /\ UNCHANGED <<now, admin, sessions, nonces, jar, admitted>>

Tick ==
    /\ now < MaxTime
    /\ now' = now + 1
    /\ UNCHANGED <<admin, sessions, nonces, jar, work, admitted>>

---------------------------------------------------------------------------
BrowserStep(b) == IssueSliderChallenge(b) \/ \E right \in BOOLEAN : VerifySlider(b, right)

LoginStep(w) ==
    \/ \E b \in Browsers : RememberedAdmin(w, b)
    \/ ClearMismatch(w) \/ RestoreRememberedLogin(w) \/ RenderLoginPage(w)
    \/ \E right \in BOOLEAN : PasswordLogin(w, right)
    \/ Login(w)
    \/ \E b \in Browsers : LogoutStart(w, b) \/ ForgetRememberLogin(w, b)
    \/ Logout(w)

SessionStep(w) ==
    \/ \E b \in Browsers : CreateTrustedFromCookie(w, b)
    \/ CreateSession(w)
    \/ \E s \in SessionIds, r \in Requests : OpenFresh(w, s, r)
    \/ LoadSession(w) \/ ReserveNonce(w)
    \/ DispatchView(w) \/ ClearRememberedAdminLogin(w) \/ CleanupNonces(w)
    \/ UpdateAdminProfile(w) \/ UpdateAdminCredentialsAndRevokeSessions(w)

Next ==
    \/ \E b \in Browsers : BrowserStep(b)
    \/ \E w \in Workers : LoginStep(w) \/ SessionStep(w) \/ Drop(w)
    \/ CreateFromToken
    \/ Tick

Spec == Init /\ [][Next]_vars

---------------------------------------------------------------------------
(* Properties *)

(* Whoever changes the credentials closes the door behind everybody: a      *)
(* session that still answers was opened with the credentials of today, or  *)
(* by a handler that had compared its cookie before the change and wrote    *)
(* the session after it.                                                    *)
LiveSessionIsCurrent ==
    \A s \in SessionIds :
       sessions[s].status = "live" /\ sessions[s].name # None
          => \/ sessions[s].late
             \/ /\ sessions[s].name = admin.name
                /\ sessions[s].pass = admin.pass

(* The same for the remembered login: the token of the row was issued to    *)
(* somebody who gave the password of today, or by a login that was under    *)
(* way when the password changed.                                           *)
RememberedIsCurrent ==
    admin.token # None => admin.late \/ admin.by = admin.pass

(* A session that was revoked, or is gone, never answers again.             *)
RevokedStaysRevoked ==
    [][\A s \in SessionIds :
          sessions[s].status \in {"revoked", "gone"}
             => sessions'[s].status \in {"revoked", "gone"}]_vars

(* Every session's nonces keep what OnceGuard promises: a request runs once *)
(* while its timestamp is good, however often and late it is delivered and  *)
(* whatever the cleanup removes.                                            *)
Guard == INSTANCE OnceGuard WITH RequestKeys <- Keys, Ends <- {r.ts + Window : r \in Requests}
OnceSpec == Guard!GuardSpec
=============================================================================
