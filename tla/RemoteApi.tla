----------------------------- MODULE RemoteApi -----------------------------
(***************************************************************************)
(* The remote API: programs that hold a token sign requests, and the        *)
(* operator's console issues, switches and deletes those tokens while       *)
(* requests are under way.                                                  *)
(*                                                                         *)
(* service/remote_api.rs, dispatch_remote of http/mod.rs, the token         *)
(* handlers of service/admin.rs.  A call is a sequence of awaits: the       *)
(* timestamp is checked, the token is loaded, the nonce is reserved, the    *)
(* application the call is about is looked up, the request is dispatched    *)
(* (here to RemoteVariables, and to the deletion of applications), and at   *)
(* the end a row of the call log is written, an insert whose failure, for   *)
(* whatever reason, is ignored.                                             *)
(***************************************************************************)
EXTENDS RemoteVariables

CONSTANTS Tokens,      \* rows of auth_remote_api_tokens
          Signed,      \* signed calls: [nonce, ts, ask, target, code];
                       \* code: applications are named by code, not by id
          Untils,      \* when tokens may end; 0 is never
          Window,      \* SIGNATURE_WINDOW_SECONDS
          MaxTime      \* the clock stops here (a bound of the model)

ASSUME WindowAssumption == Window \in Nat /\ MaxTime \in Nat \ {0} /\ Untils \subseteq Nat
ASSUME SignedAssumption ==
    \A m \in Signed :
       m.ts \in Nat /\ m.ask \in Requests /\ m.target \in Apps \cup {None}

VARIABLES now,
          tokens,      \* [state, until]; until 0 is a token without an end
          nonces,      \* auth_remote_api_nonces
          call,        \* per actor: the call it is in the middle of
          logs,        \* auth_remote_api_logs: successes per token and nonce
          done,        \* history: how often their request was carried out
          admitted     \* history: their admissions (as in OnceGuard)

callVars == <<now, tokens, nonces, call, logs, done, admitted>>
vars == <<apps, variables, task, now, tokens, nonces, call, logs, done, admitted>>

Keys   == Tokens \X {m.nonce : m \in Signed}
NoCall == [pc |-> "idle", token |-> None, msg |-> None, target |-> None]

TypeOK ==
    /\ VariablesTypeOK
    /\ now \in 1..MaxTime
    /\ tokens \in [Tokens -> [state : {"none", "on", "off", "gone"}, until : Nat]]
    /\ nonces \subseteq [token : Tokens, nonce : {m.nonce : m \in Signed}, until : Nat]
    /\ call \in [Actors ->
          [pc : {"idle", "fresh", "loaded", "admitted", "targeted", "dispatched"},
           token : Tokens \cup {None}, msg : Signed \cup {None},
           target : Apps \cup {None}]]
    /\ \A x \in nonces : tokens[x.token].state \in {"on", "off"}
    /\ logs \in [Keys -> Nat]
    /\ done \in [Keys -> Nat]
    /\ admitted \in [Keys -> [end : Nat, times : Nat]]

Init ==
    /\ VariablesInit
    /\ now = 1
    /\ tokens = [t \in Tokens |-> [state |-> "none", until |-> 0]]
    /\ nonces = {}
    /\ call = [a \in Actors |-> NoCall]
    /\ logs = [k \in Keys |-> 0]
    /\ done = [k \in Keys |-> 0]
    /\ admitted = [k \in Keys |-> [end |-> 0, times |-> 0]]

---------------------------------------------------------------------------
(* The console's side of the tokens.  Each handler but create loads the     *)
(* token first, and writes by its id whatever became of it: an update of a  *)
(* deleted row changes nothing, so the load is left out.                    *)

CreateRemoteApiToken(t, until) ==
    /\ tokens[t].state = "none"
    /\ tokens' = [tokens EXCEPT ![t] = [state |-> "on", until |-> until]]
    /\ UNCHANGED <<apps, variables, task, now, nonces, call, logs, done, admitted>>

SetRemoteApiTokenStatus(t, state) ==
    /\ tokens[t].state \in {"on", "off"}
    /\ tokens' = [tokens EXCEPT ![t].state = state]
    /\ UNCHANGED <<apps, variables, task, now, nonces, call, logs, done, admitted>>

DeleteRemoteApiToken(t) ==
    /\ tokens[t].state \in {"on", "off"}
    /\ nonces' = {x \in nonces : x.token # t}
    /\ tokens' = [tokens EXCEPT ![t].state = "gone"]
    /\ UNCHANGED <<apps, variables, task, now, call, logs, done, admitted>>

(* cleanup_nonces, for this table; a deleted or cleared log is left out of  *)
(* the model.                                                               *)
DeleteExpiredRemoteApiNonces ==
    /\ nonces' = {x \in nonces : x.until >= now}
    /\ UNCHANGED <<apps, variables, task, now, tokens, call, logs, done, admitted>>

(* The console's own requests about variables and applications.             *)
ConsoleBegin(a, ask) ==
    /\ call[a].pc = "idle"
    /\ Begin(a, ask)
    /\ UNCHANGED callVars

ConsoleEnd(a) ==
    /\ call[a].pc = "idle"
    /\ task[a].pc = "written"
    /\ Fail(a)
    /\ UNCHANGED <<apps, variables, now, tokens, nonces, call, logs, done, admitted>>

---------------------------------------------------------------------------
(* A call *)

FreshTimestamp(m) == now <= m.ts + Window /\ m.ts <= now + Window

Receive(a, t, m) ==
    /\ call[a].pc = "idle" /\ task[a].pc = "idle"
    /\ tokens[t].state # "none"
    /\ FreshTimestamp(m)
    /\ call' = [call EXCEPT ![a] = [NoCall EXCEPT !.pc = "fresh", !.token = t,
                                                  !.msg = m]]
    /\ UNCHANGED <<apps, variables, task, now, tokens, nonces, logs, done, admitted>>

Usable(t) == tokens[t].state = "on" /\ (tokens[t].until = 0 \/ tokens[t].until > now)

LoadUsableToken(a) ==
    /\ call[a].pc = "fresh"
    /\ call' = [call EXCEPT ![a] = IF Usable(call[a].token)
                                   THEN [@ EXCEPT !.pc = "loaded"] ELSE NoCall]
    /\ UNCHANGED <<apps, variables, task, now, tokens, nonces, logs, done, admitted>>

NonceOpen(t, n) == \E x \in nonces : x.token = t /\ x.nonce = n /\ x.until > now
NonceTaken(t, n) == \E x \in nonces : x.token = t /\ x.nonce = n

(* INSERT IGNORE: a nonce that is there and a token that is gone both leave *)
(* no row, and read as a replay.                                            *)
ReserveNonce(a) ==
    /\ call[a].pc = "loaded"
    /\ LET t == call[a].token
           m == call[a].msg
           refused == NonceTaken(t, m.nonce) \/ tokens[t].state = "gone"
       IN IF refused
          THEN /\ call' = [call EXCEPT ![a] = NoCall]
               /\ UNCHANGED <<nonces, admitted>>
          ELSE /\ nonces' = nonces \cup {[token |-> t, nonce |-> m.nonce,
                                          until |-> m.ts + Window]}
               /\ admitted' = [admitted EXCEPT ![<<t, m.nonce>>] =
                                 [end |-> m.ts + Window, times |-> @.times + 1]]
               /\ call' = [call EXCEPT ![a].pc = "admitted"]
    /\ UNCHANGED <<apps, variables, task, now, tokens, logs, done>>

(* target_app_id: an app_id is taken as it comes, an app_code is looked up. *)
TargetOf(m) == IF m.code /\ m.target \notin apps THEN None ELSE m.target

(* dispatch_remote looks up the application a call is about, for the log.   *)
Dispatch(a) ==
    /\ call[a].pc = "admitted"
    /\ call' = [call EXCEPT ![a].pc = "targeted", ![a].target = TargetOf(call[a].msg)]
    /\ UNCHANGED <<apps, variables, task, now, tokens, nonces, logs, done, admitted>>

(* apply_remote_payload_transform turns codes into ids: a code without an   *)
(* application ends the call.  Then the request goes to its handler.        *)
TransformPayload(a) ==
    /\ call[a].pc = "targeted"
    /\ LET m == call[a].msg
       IN IF m.code /\ ~(m.ask.apps \subseteq apps)
          THEN /\ call' = [call EXCEPT ![a] = NoCall]
               /\ UNCHANGED <<apps, variables, task>>
          ELSE /\ call' = [call EXCEPT ![a].pc = "dispatched"]
               /\ Begin(a, m.ask)
    /\ UNCHANGED <<now, tokens, nonces, logs, done, admitted>>

KeyOf(a) == <<call[a].token, call[a].msg.nonce>>

(* A step of the handler a call was dispatched to, or of the console's own. *)
Handle(a) ==
    /\ VariableStep(a)
    /\ done' = IF call[a].pc = "dispatched" /\ task'[a].pc = "written"
               THEN [done EXCEPT ![KeyOf(a)] = @ + 1] ELSE done
    /\ UNCHANGED <<now, tokens, nonces, call, logs, admitted>>

Returned(a)  == task[a].pc \in {"written", "idle"}
Succeeded(a) == task[a].pc = "written"

(* The handler is back.  A failure is logged as such and not followed here. *)
DispatchFailed(a) ==
    /\ call[a].pc = "dispatched"
    /\ task[a].pc = "idle"
    /\ call' = [call EXCEPT ![a] = NoCall]
    /\ UNCHANGED <<apps, variables, task, now, tokens, nonces, logs, done, admitted>>

(* The row refers to the token and to the application (foreign keys).       *)
LogFits(a) == tokens[call[a].token].state # "gone" /\ call[a].target \in apps \cup {None}

(* record_success: the insert may fail, and nobody hears of it.             *)
RecordSuccess(a) ==
    /\ call[a].pc = "dispatched"
    /\ Succeeded(a)
    /\ \/ logs' = logs
       \/ LogFits(a) /\ logs' = [logs EXCEPT ![KeyOf(a)] = @ + 1]
    /\ call' = [call EXCEPT ![a] = NoCall]
    /\ Fail(a)
    /\ UNCHANGED <<apps, variables, now, tokens, nonces, done, admitted>>

(* The connection closes, a statement fails or the server restarts between  *)
(* two awaits.                                                              *)
Drop(a) ==
    /\ task[a].pc # "idle" \/ call[a].pc # "idle"
    /\ call' = [call EXCEPT ![a] = NoCall]
    /\ Fail(a)
    /\ UNCHANGED <<apps, variables, now, tokens, nonces, logs, done, admitted>>

Tick ==
    /\ now < MaxTime
    /\ now' = now + 1
    /\ UNCHANGED <<apps, variables, task, tokens, nonces, call, logs, done, admitted>>

---------------------------------------------------------------------------
TokenStep ==
    \E t \in Tokens :
       \/ \E until \in Untils : CreateRemoteApiToken(t, until)
       \/ \E state \in {"on", "off"} : SetRemoteApiTokenStatus(t, state)
       \/ DeleteRemoteApiToken(t)

CallStep(a) ==
    \/ \E t \in Tokens, m \in Signed : Receive(a, t, m)
    \/ LoadUsableToken(a) \/ ReserveNonce(a) \/ Dispatch(a)
    \/ TransformPayload(a) \/ DispatchFailed(a) \/ RecordSuccess(a)

Next ==
    \/ TokenStep
    \/ DeleteExpiredRemoteApiNonces
    \/ \E a \in Actors :
          \/ \E ask \in Requests : ConsoleBegin(a, ask)
          \/ ConsoleEnd(a)
          \/ Handle(a)
          \/ CallStep(a)
          \/ Drop(a)
    \/ Tick

Spec == Init /\ [][Next]_vars

---------------------------------------------------------------------------
(* Properties *)

(* A signed call runs once while its timestamp is good, whatever is         *)
(* delivered again, cleaned up or deleted meanwhile (reserve_nonce,         *)
(* delete_expired_remote_api_nonces, delete_remote_api_token).              *)
Guard == INSTANCE OnceGuard
            WITH RequestKeys <- Keys, Ends <- {m.ts + Window : m \in Signed}
OnceSpec == Guard!GuardSpec

(* The log never shows more successes of a signed call than there were, and *)
(* no more were carried out than admitted, however its handler fails, its   *)
(* connection drops or its token and application are deleted meanwhile      *)
(* (dispatch_remote, record_log).  The log may well show fewer: nobody      *)
(* hears of an insert that fails.                                           *)
LogNeverOverstates ==
    \A k \in Keys : logs[k] <= done[k] /\ done[k] <= admitted[k].times

(* An application that could not read a variable can do so after a request  *)
(* of this step that left it on (asked to, or, converting it, had read it   *)
(* on: a conversion puts back the status another request just changed), and *)
(* that opened it to everybody or named the application, unless the         *)
(* variable was open to it already.                                         *)
GrantedTo(app, v) == variables[v].scope = "public" \/ app \in variables[v].links

Readable(app, v) == v \in FindReadable(app, variables[v].name)

ReadableByRequest ==
    [][\A v \in VariableIds, app \in Apps :
          ~Readable(app, v) /\ Readable(app, v)' =>
          \E a \in Actors :
             /\ task[a].pc # "written" /\ task'[a].pc = "written"
             /\ \/ variables[v].on
                \/ IF task[a].ask.op = "convert" THEN task[a].copy.on
                   ELSE task[a].ask.on
             /\ \/ GrantedTo(app, v)
                \/ app \in task[a].ask.apps
                \/ task[a].ask.scope = "public"]_vars
=============================================================================
