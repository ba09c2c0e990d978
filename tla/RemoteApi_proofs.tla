-------------------------- MODULE RemoteApi_proofs --------------------------
(***************************************************************************)
(* Proofs about RemoteApi: types, that a signed call runs once, that the    *)
(* log shows no success too many, and that nobody reads a variable unasked. *)
(*                                                                         *)
(*   Held        what a request about variables knows at each of its steps  *)
(*   CallsHeld   whose call it is, from when its timestamp is checked       *)
(*   NonceKept   while an admission's window is open its nonce is stored,   *)
(*               or its token is gone and nothing is admitted for it        *)
(*   CountsHeld  a call under way still has its admission to use up, or its  *)
(*               success to log                                             *)
(***************************************************************************)
EXTENDS RemoteApi, FiniteSetTheorems, TLAPS

Rows == [state : {"none", "live", "gone"}, name : VariableNames \cup {None},
         scope : {"public", "private"}, on : BOOLEAN, links : SUBSET Apps]

Copies == [name : VariableNames, on : BOOLEAN]

Tasks == [pc : {"idle", "asked", "found", "checked", "written"},
          ask : Requests \cup {None}, id : VariableIds \cup {None},
          copy : Copies \cup {None}]

Calls == [pc : {"idle", "fresh", "loaded", "admitted", "targeted", "dispatched"},
          token : Tokens \cup {None}, msg : Signed \cup {None},
          target : Apps \cup {None}]

Held == {t \in Tasks :
           /\ t.pc # "idle" => t.ask \in Requests
           /\ t.pc = "found" => t.id \in VariableIds /\ t.copy \in Copies
           /\ t.pc = "checked" /\ t.ask.op \in {"update", "convert", "setApps"}
              => t.id \in VariableIds /\ t.copy \in Copies}

(* The applications a variable names exist.                                *)
GrantsExist == \A v \in VariableIds : variables[v].links \subseteq apps

VariablesInv ==
    /\ apps \subseteq Apps
    /\ variables \in [VariableIds -> Rows]
    /\ GrantsExist
    /\ task \in [Actors -> Held]

LEMMA VariablesTypes == VariablesInv => VariablesTypeOK
<1> SUFFICES ASSUME VariablesInv PROVE VariablesTypeOK
  OBVIOUS
<1>1. variables \in [VariableIds ->
          [state : {"none", "live", "gone"}, name : VariableNames \cup {None},
           scope : {"public", "private"}, on : BOOLEAN, links : SUBSET apps]]
  BY DEF VariablesInv, GrantsExist, Rows
<1>2. task \in [Actors -> Tasks]
  BY DEF VariablesInv, Held
<1> QED
  BY <1>1, <1>2 DEF VariablesTypeOK, VariablesInv, Tasks, Copies

LEMMA Asked == ASSUME NEW ask \in Requests
               PROVE  /\ ask.op \in Operations /\ ask.name \in VariableNames
                      /\ ask.scope \in {"public", "private"} /\ ask.on \in BOOLEAN
                      /\ ask.apps \subseteq Apps
                      /\ AppsOf(ask) \subseteq ask.apps
BY AskAssumption DEF AppsOf

LEMMA VariablesStart == VariablesInit => VariablesInv
<1> SUFFICES ASSUME VariablesInit PROVE VariablesInv
  OBVIOUS
<1>1. NoVariable \in Rows /\ NoVariable.links = {}
  BY DEF NoVariable, Rows
<1>2. NoTask \in Held
  BY DEF NoTask, Held, Tasks
<1> QED
  BY <1>1, <1>2 DEF VariablesInit, VariablesInv, GrantsExist

(* Steps that write one task and no variable.                              *)
LEMMA TaskWritten ==
    ASSUME VariablesInv, NEW a \in Actors, NEW t \in Held, Set(a, t),
           UNCHANGED <<apps, variables>>
    PROVE  VariablesInv'
BY DEF VariablesInv, GrantsExist, Set

LEMMA IdleHeld == NoTask \in Held
BY DEF NoTask, Held, Tasks

LEMMA WrittenHeld ==
    ASSUME NEW t \in Held, t.pc # "idle"
    PROVE  [t EXCEPT !.pc = "written", !.copy = None] \in Held
BY DEF Held, Tasks

LEMMA BeginKeeps ==
    ASSUME VariablesInv, NEW a \in Actors, NEW ask \in Requests, Begin(a, ask)
    PROVE  VariablesInv'
<1> DEFINE t == [NoTask EXCEPT !.pc = "asked", !.ask = ask]
<1>1. t \in Held
  BY DEF NoTask, Held, Tasks
<1> QED
  BY <1>1, TaskWritten DEF Begin

LEMMA FailKeeps ==
    ASSUME VariablesInv, NEW a \in Actors, Fail(a), UNCHANGED <<apps, variables>>
    PROVE  VariablesInv'
BY IdleHeld, TaskWritten DEF Fail

LEMMA LoadKeeps ==
    ASSUME VariablesInv, NEW a \in Actors, LoadVariable(a)
    PROVE  VariablesInv'
<1>0. task[a] \in Held /\ task[a].pc = "asked" /\ task[a].ask \in Requests
  BY DEF VariablesInv, LoadVariable, Held
<1>1. CASE Fail(a)
  BY <1>1, FailKeeps DEF LoadVariable
<1>2. ASSUME NEW v \in Named(task[a].ask.name),
             Set(a, [task[a] EXCEPT !.pc = "found", !.id = v,
                                    !.copy = CopyOf(variables[v])])
      PROVE  VariablesInv'
  <2>1. v \in VariableIds /\ variables[v].name = task[a].ask.name
    BY <1>2 DEF Named
  <2>2. CopyOf(variables[v]) \in Copies
    BY <1>0, <2>1, Asked DEF CopyOf, Copies, VariablesInv, Rows
  <2> DEFINE copy == CopyOf(variables[v])
             t == [task[a] EXCEPT !.pc = "found", !.id = v, !.copy = copy]
  <2> HIDE DEF copy
  <2>3. t \in Held
    BY <1>0, <2>1, <2>2 DEF Held, Tasks, copy
  <2> QED
    BY <1>2, <2>3, TaskWritten DEF LoadVariable, copy
<1> QED
  BY <1>1, <1>2 DEF LoadVariable

LEMMA CheckKeeps ==
    ASSUME VariablesInv, NEW a \in Actors, CheckApps(a)
    PROVE  VariablesInv'
<1>0. task[a] \in Held
  BY DEF VariablesInv
<1>1. CASE Fail(a)
  BY <1>1, FailKeeps DEF CheckApps
<1>2. CASE Set(a, [task[a] EXCEPT !.pc = "checked"])
  <2>1. [task[a] EXCEPT !.pc = "checked"] \in Held
    BY <1>0 DEF CheckApps, Held, Tasks
  <2> QED
    BY <1>2, <2>1, TaskWritten DEF CheckApps
<1> QED
  BY <1>1, <1>2 DEF CheckApps

LEMMA FindKeeps ==
    ASSUME VariablesInv, NEW a \in Actors, FindForUpsert(a)
    PROVE  VariablesInv'
<1>0. /\ task[a] \in Held
      /\ task[a].pc = "checked"
      /\ task[a].ask \in Requests
      /\ task[a].ask.op = "upsert"
  BY DEF VariablesInv, FindForUpsert, Held
<1>1. CASE Set(a, [task[a] EXCEPT !.copy = [name |-> task[a].ask.name,
                                            on |-> task[a].ask.on]])
  <2>1. [name |-> task[a].ask.name, on |-> task[a].ask.on] \in Copies
    BY <1>0, Asked DEF Copies
  <2> DEFINE copy == [name |-> task[a].ask.name, on |-> task[a].ask.on]
  <2> HIDE DEF copy
  <2>2. [task[a] EXCEPT !.copy = copy] \in Held
    BY <1>0, <2>1 DEF Held, Tasks, copy
  <2> QED
    BY <1>1, <2>2, TaskWritten DEF FindForUpsert, copy
<1>2. ASSUME NEW v \in Named(task[a].ask.name),
             Set(a, [task[a] EXCEPT !.id = v, !.copy = CopyOf(variables[v])])
      PROVE  VariablesInv'
  <2>1. v \in VariableIds /\ variables[v].name = task[a].ask.name
    BY <1>2 DEF Named
  <2>2. CopyOf(variables[v]) \in Copies
    BY <1>0, <2>1, Asked DEF CopyOf, Copies, VariablesInv, Rows
  <2> DEFINE copy == CopyOf(variables[v])
  <2> HIDE DEF copy
  <2>3. [task[a] EXCEPT !.id = v, !.copy = copy] \in Held
    BY <1>0, <2>1, <2>2 DEF Held, Tasks, copy
  <2> QED
    BY <1>2, <2>3, TaskWritten DEF FindForUpsert, copy
<1> QED
  BY <1>1, <1>2 DEF FindForUpsert

(* A step that writes one variable and ends the request.                   *)
LEMMA RowWritten ==
    ASSUME VariablesInv, NEW a \in Actors, task[a].pc # "idle", Written(a),
           NEW v \in VariableIds, NEW row \in Rows, row.links \subseteq apps,
           variables' = [variables EXCEPT ![v] = row], apps' = apps
    PROVE  VariablesInv'
<1>1. task' \in [Actors -> Held]
  <2>1. [task[a] EXCEPT !.pc = "written", !.copy = None] \in Held
    BY WrittenHeld DEF VariablesInv
  <2> QED
    BY <2>1 DEF VariablesInv, Written, Set
<1>2. variables' \in [VariableIds -> Rows]
  BY DEF VariablesInv
<1>3. \A x \in VariableIds : variables'[x].links \subseteq apps'
  BY DEF VariablesInv, GrantsExist
<1> QED
  BY <1>1, <1>2, <1>3 DEF VariablesInv, GrantsExist

LEMMA NothingWritten ==
    ASSUME VariablesInv, NEW a \in Actors, task[a].pc # "idle", Written(a),
           UNCHANGED <<apps, variables>>
    PROVE  VariablesInv'
<1>1. [task[a] EXCEPT !.pc = "written", !.copy = None] \in Held
  BY WrittenHeld DEF VariablesInv
<1> QED
  BY <1>1, TaskWritten DEF Written

LEMMA CreateKeeps ==
    ASSUME VariablesInv, NEW a \in Actors, CreateVariable(a)
    PROVE  VariablesInv'
<1> DEFINE ask == task[a].ask
<1>0. ask \in Requests /\ task[a].pc # "idle" /\ apps' = apps
  BY DEF VariablesInv, CreateVariable, Held
<1>1. CASE Fail(a) /\ UNCHANGED variables
  BY <1>0, <1>1, FailKeeps
<1>2. ASSUME NEW v \in VariableIds, Written(a),
             variables' = [variables EXCEPT ![v] =
                    [state |-> "live", name |-> ask.name, scope |-> ask.scope,
                     on |-> ask.on, links |-> AppsOf(ask) \cap apps]]
      PROVE  VariablesInv'
  <2> DEFINE row == [state |-> "live", name |-> ask.name, scope |-> ask.scope,
                     on |-> ask.on, links |-> AppsOf(ask) \cap apps]
  <2>1. row \in Rows /\ row.links \subseteq apps
    BY <1>0, Asked DEF Rows
  <2> HIDE DEF row, ask
  <2> QED
    BY <1>0, <1>2, <2>1, RowWritten DEF row
<1> QED
  BY <1>1, <1>2 DEF CreateVariable

LEMMA InputTyped ==
    ASSUME NEW a \in Actors, task[a] \in Held, task[a].pc = "checked",
           task[a].ask.op \in {"update", "convert", "upsert"}
    PROVE  InputOf(a).name \in VariableNames /\ InputOf(a).on \in BOOLEAN
<1>1. task[a].ask \in Requests
  BY DEF Held
<1>2. task[a].ask.op = "convert" => task[a].copy \in Copies
  BY DEF Held
<1> QED
  BY <1>1, <1>2, Asked DEF InputOf, Copies

LEMMA UpdateKeeps ==
    ASSUME VariablesInv, NEW a \in Actors, UpdateVariable(a)
    PROVE  VariablesInv'
<1> DEFINE v == task[a].id
           ask == task[a].ask
           input == InputOf(a)
<1>0. /\ task[a] \in Held
      /\ ask \in Requests
      /\ task[a].pc # "idle"
      /\ v \in VariableIds
      /\ apps' = apps
  BY DEF VariablesInv, UpdateVariable, Held, Tasks
<1>1. CASE Fail(a) /\ UNCHANGED variables
  BY <1>0, <1>1, FailKeeps
<1>2. CASE Written(a) /\ UNCHANGED variables
  BY <1>0, <1>2, NothingWritten
<1>3. CASE /\ Written(a)
           /\ variables' = [variables EXCEPT ![v] =
                    [state |-> "live", name |-> input.name, scope |-> ask.scope,
                     on |-> input.on, links |-> AppsOf(ask) \cap apps]]
  <2> DEFINE row == [state |-> "live", name |-> input.name, scope |-> ask.scope,
                     on |-> input.on, links |-> AppsOf(ask) \cap apps]
  <2>1. input.name \in VariableNames /\ input.on \in BOOLEAN
    BY <1>0, InputTyped DEF UpdateVariable
  <2>2. row \in Rows /\ row.links \subseteq apps
    BY <1>0, <2>1, Asked DEF Rows
  <2> HIDE DEF row, input, ask, v
  <2> QED
    BY <1>0, <1>3, <2>2, RowWritten DEF row
<1> QED
  BY <1>1, <1>2, <1>3 DEF UpdateVariable

LEMMA ReplaceKeeps ==
    ASSUME VariablesInv, NEW a \in Actors, ReplaceVariableApps(a)
    PROVE  VariablesInv'
<1> DEFINE v == task[a].id
<1>0. /\ task[a].ask \in Requests
      /\ task[a].pc # "idle"
      /\ v \in VariableIds
      /\ apps' = apps
      /\ Written(a)
  BY DEF VariablesInv, ReplaceVariableApps, Held
<1>1. CASE UNCHANGED variables
  BY <1>0, <1>1, NothingWritten
<1>2. CASE variables' = [variables EXCEPT ![v].links = task[a].ask.apps \cap apps]
  <2> DEFINE row == [variables[v] EXCEPT !.links = task[a].ask.apps \cap apps]
  <2>1. variables[v] \in Rows /\ task[a].ask.apps \cap apps \subseteq Apps
    BY <1>0, Asked DEF VariablesInv
  <2>2. row \in Rows /\ row.links \subseteq apps
    BY <2>1 DEF Rows
  <2>3. variables' = [variables EXCEPT ![v] = row]
    BY <1>2
  <2> HIDE DEF row, v
  <2> QED
    BY <1>0, <2>2, <2>3, RowWritten
<1> QED
  BY <1>1, <1>2 DEF ReplaceVariableApps

LEMMA StatusKeeps ==
    ASSUME VariablesInv, NEW a \in Actors, SetVariableStatus(a)
    PROVE  VariablesInv'
<1>1. PICK v \in Targets(a, "status", "batchStatus") :
         variables' = IF Live(v) THEN [variables EXCEPT ![v].on = task[a].ask.on]
                                 ELSE variables
  BY DEF SetVariableStatus
<1>2. /\ v \in VariableIds
      /\ task[a].pc # "idle"
      /\ task[a].ask \in Requests
      /\ apps' = apps
      /\ Written(a)
  BY DEF Targets, VariablesInv, SetVariableStatus, Held
<1>3. CASE UNCHANGED variables
  BY <1>2, <1>3, NothingWritten
<1>4. CASE variables' = [variables EXCEPT ![v].on = task[a].ask.on]
  <2> DEFINE row == [variables[v] EXCEPT !.on = task[a].ask.on]
  <2>1. variables[v] \in Rows /\ task[a].ask.on \in BOOLEAN
    BY <1>2, Asked DEF VariablesInv
  <2>2. row \in Rows /\ row.links \subseteq apps
    BY <1>2, <2>1 DEF Rows, VariablesInv, GrantsExist
  <2>3. variables' = [variables EXCEPT ![v] = row]
    BY <1>4
  <2> HIDE DEF row
  <2> QED
    BY <1>2, <2>2, <2>3, RowWritten
<1> QED
  BY <1>1, <1>3, <1>4

LEMMA DeleteKeeps ==
    ASSUME VariablesInv, NEW a \in Actors, DeleteVariable(a)
    PROVE  VariablesInv'
<1>1. PICK v \in Targets(a, "delete", "batchDelete") :
         variables' = IF Live(v)
                      THEN [variables EXCEPT ![v] = [NoVariable EXCEPT !.state = "gone"]]
                      ELSE variables
  BY DEF DeleteVariable
<1>2. v \in VariableIds /\ task[a].pc # "idle" /\ apps' = apps /\ Written(a)
  BY DEF Targets, DeleteVariable
<1>3. CASE UNCHANGED variables
  BY <1>2, <1>3, NothingWritten
<1>4. CASE variables' = [variables EXCEPT ![v] = [NoVariable EXCEPT !.state = "gone"]]
  <2> DEFINE row == [NoVariable EXCEPT !.state = "gone"]
  <2>1. row \in Rows /\ row.links \subseteq apps
    BY DEF NoVariable, Rows
  <2> HIDE DEF row
  <2> QED
    BY <1>2, <1>4, <2>1, RowWritten DEF row
<1> QED
  BY <1>1, <1>3, <1>4

LEMMA DeleteAppsKeeps ==
    ASSUME VariablesInv, NEW a \in Actors, DeleteApps(a)
    PROVE  VariablesInv'
<1>1. /\ apps' = apps \ task[a].ask.apps
      /\ variables' = WithoutGrants(task[a].ask.apps)
      /\ Written(a)
      /\ task[a].pc # "idle"
  BY DEF DeleteApps
<1>2. ASSUME NEW v \in VariableIds
      PROVE  variables'[v] \in Rows /\ variables'[v].links \subseteq apps'
  <2>1. variables[v] \in Rows /\ variables[v].links \subseteq apps
    BY DEF VariablesInv, GrantsExist
  <2>2. PICK kept : kept = variables[v].links \ task[a].ask.apps
    OBVIOUS
  <2>3. variables'[v] = [variables[v] EXCEPT !.links = kept]
    BY <1>1, <2>2 DEF WithoutGrants
  <2>4. kept \subseteq apps' /\ kept \subseteq Apps
    BY <1>1, <2>1, <2>2 DEF Rows
  <2> QED
    BY <2>1, <2>3, <2>4 DEF Rows
<1>3. variables' \in [VariableIds -> Rows]
  BY <1>1, <1>2 DEF WithoutGrants
<1>4. task' \in [Actors -> Held]
  <2>1. [task[a] EXCEPT !.pc = "written", !.copy = None] \in Held
    BY <1>1, WrittenHeld DEF VariablesInv
  <2> QED
    BY <1>1, <2>1 DEF VariablesInv, Written, Set
<1> QED
  BY <1>1, <1>2, <1>3, <1>4 DEF VariablesInv, GrantsExist

LEMMA VariableStepKeeps ==
    ASSUME VariablesInv, NEW a \in Actors, VariableStep(a)
    PROVE  VariablesInv' /\ apps' \subseteq apps
<1>1. VariablesInv'
  BY LoadKeeps, CheckKeeps, FindKeeps, CreateKeeps, UpdateKeeps, ReplaceKeeps,
     StatusKeeps, DeleteKeeps, DeleteAppsKeeps DEF VariableStep
<1>2. apps' \subseteq apps
  BY DEF VariableStep, LoadVariable, CheckApps, FindForUpsert, CreateVariable,
         UpdateVariable, ReplaceVariableApps, SetVariableStatus, DeleteVariable,
         DeleteApps
<1> QED
  BY <1>1, <1>2

-----------------------------------------------------------------------------
(* Calls and tokens                                                        *)

Nonces == [token : Tokens, nonce : {m.nonce : m \in Signed}, until : Nat]

(* A call in the middle has a token that was issued, and its request.      *)
CallsHeld ==
    \A a \in Actors : call[a].pc # "idle" =>
        /\ call[a].token \in Tokens
        /\ call[a].msg \in Signed
        /\ tokens[call[a].token].state # "none"

CallTypes ==
    /\ now \in 1..MaxTime
    /\ tokens \in [Tokens -> [state : {"none", "on", "off", "gone"}, until : Nat]]
    /\ nonces \subseteq Nonces
    /\ call \in [Actors -> Calls]
    /\ \A x \in nonces : tokens[x.token].state \in {"on", "off"}
    /\ logs \in [Keys -> Nat]
    /\ done \in [Keys -> Nat]
    /\ admitted \in [Keys -> [end : Nat, times : Nat]]

KeptFor(t, n) ==
    admitted[<<t, n>>].end >= now
       => \/ tokens[t].state = "gone"
          \/ \E x \in nonces : /\ x.token = t /\ x.nonce = n
                               /\ x.until = admitted[<<t, n>>].end

NonceNames == {m.nonce : m \in Signed}

NonceKept == \A t \in Tokens, n \in NonceNames : KeptFor(t, n)

RemoteInv == VariablesInv /\ CallTypes /\ CallsHeld /\ NonceKept

LEMMA Given ==
    /\ Window \in Nat /\ MaxTime \in Nat /\ MaxTime >= 1
    /\ \A t \in Untils : t \in Nat
    /\ \A m \in Signed : m.ts \in Nat /\ m.ask \in Requests /\ m.target \in Apps \cup {None}
BY WindowAssumption, SignedAssumption

LEMMA RemoteTypes == RemoteInv => TypeOK
BY VariablesTypes DEF RemoteInv, CallTypes, TypeOK, Calls, Nonces

LEMMA NoCallIsCall == NoCall \in Calls /\ NoCall.pc = "idle"
BY DEF NoCall, Calls

LEMMA RemoteStart == Init => RemoteInv
<1> SUFFICES ASSUME Init PROVE RemoteInv
  OBVIOUS
<1>1. VariablesInv
  BY VariablesStart DEF Init
<1>2. CallTypes
  BY Given, NoCallIsCall DEF Init, CallTypes
<1>3. CallsHeld
  BY NoCallIsCall DEF Init, CallsHeld
<1>4. NonceKept
  <2> SUFFICES ASSUME NEW t \in Tokens, NEW n \in NonceNames
               PROVE  ~(admitted[<<t, n>>].end >= now)
    BY DEF NonceKept, KeptFor
  <2>1. <<t, n>> \in Keys
    BY DEF Keys, NonceNames
  <2> QED
    BY <2>1 DEF Init
<1> QED
  BY <1>1, <1>2, <1>3, <1>4 DEF RemoteInv

(* Only the steps of a request and of a call touch more than tokens.       *)
Quiet == UNCHANGED <<tokens, nonces, admitted, now>>

LEMMA NoncesSame ==
    ASSUME NonceKept, UNCHANGED <<tokens, nonces, admitted, now>>
    PROVE  NonceKept'
BY DEF NonceKept, KeptFor

(* Steps that write no token, nonce or log.                                *)
LEMMA CallWritten ==
    ASSUME RemoteInv, VariablesInv', apps' \subseteq apps, Quiet,
           UNCHANGED <<logs, done>>, NEW a \in Actors, NEW c \in Calls,
           call' = [call EXCEPT ![a] = c],
           c.pc # "idle" => /\ c.token \in Tokens /\ c.msg \in Signed
                            /\ tokens[c.token].state # "none"
    PROVE  RemoteInv'
<1>1. CallTypes'
  BY DEF RemoteInv, CallTypes, Quiet
<1>2. CallsHeld'
  BY DEF RemoteInv, CallTypes, CallsHeld, Quiet
<1>3. NonceKept'
  BY NoncesSame DEF RemoteInv, Quiet
<1> QED
  BY <1>1, <1>2, <1>3 DEF RemoteInv

LEMMA CallSame ==
    ASSUME RemoteInv, VariablesInv', apps' \subseteq apps, UNCHANGED callVars
    PROVE  RemoteInv'
<1>1. CallTypes' /\ CallsHeld' /\ NonceKept'
  BY DEF RemoteInv, CallTypes, CallsHeld, NonceKept, KeptFor, callVars
<1> QED
  BY <1>1 DEF RemoteInv

LEMMA VariablesSame ==
    ASSUME VariablesInv, UNCHANGED <<apps, variables, task>>
    PROVE  VariablesInv'
BY DEF VariablesInv, GrantsExist

(* Steps of the console that write tokens and nonces.                      *)
LEMMA TokensWritten ==
    ASSUME RemoteInv, UNCHANGED <<apps, variables, task, now, call, logs, done, admitted>>,
           tokens' \in [Tokens -> [state : {"none", "on", "off", "gone"}, until : Nat]],
           \A t \in Tokens :
              /\ tokens[t].state # "none" => tokens'[t].state # "none"
              /\ tokens[t].state = "gone" => tokens'[t].state = "gone",
           nonces' \subseteq nonces,
           \A x \in nonces' : tokens'[x.token].state \in {"on", "off"},
           \A x \in nonces : \/ x \in nonces'
                             \/ tokens'[x.token].state = "gone"
                             \/ x.until < now
    PROVE  RemoteInv'
<1>1. VariablesInv'
  BY VariablesSame DEF RemoteInv
<1>2. CallTypes'
  BY DEF RemoteInv, CallTypes
<1>3. CallsHeld'
  BY DEF RemoteInv, CallsHeld
<1>4. NonceKept'
  <2>1. ASSUME NEW t \in Tokens, NEW n \in NonceNames,
               admitted[<<t, n>>].end >= now, tokens'[t].state # "gone"
        PROVE  \E x \in nonces' : /\ x.token = t /\ x.nonce = n
                                  /\ x.until = admitted[<<t, n>>].end
    <3>1. KeptFor(t, n) /\ tokens[t].state # "gone"
      BY <2>1 DEF RemoteInv, NonceKept
    <3>2. PICK x \in nonces : /\ x.token = t /\ x.nonce = n
                              /\ x.until = admitted[<<t, n>>].end
      BY <2>1, <3>1 DEF KeptFor
    <3>4. x.until \in Nat /\ now \in Nat
      BY DEF RemoteInv, CallTypes, Nonces
    <3>5. ~(x.until < now)
      BY <2>1, <3>2, <3>4
    <3> QED
      BY <2>1, <3>2, <3>5
  <2>2. ASSUME NEW t \in Tokens, NEW n \in NonceNames PROVE KeptFor(t, n)'
    BY <2>1 DEF KeptFor
  <2> QED
    BY <2>2 DEF NonceKept
<1> QED
  BY <1>1, <1>2, <1>3, <1>4 DEF RemoteInv

LEMMA TokenStepKeeps == ASSUME RemoteInv, TokenStep PROVE RemoteInv'
<1>0. /\ tokens \in [Tokens -> [state : {"none", "on", "off", "gone"}, until : Nat]]
      /\ \A x \in nonces : x.token \in Tokens /\ tokens[x.token].state \in {"on", "off"}
  BY DEF RemoteInv, CallTypes, Nonces
<1>1. ASSUME NEW t \in Tokens, NEW until \in Untils, CreateRemoteApiToken(t, until)
      PROVE  RemoteInv'
  <2>1. /\ tokens' = [tokens EXCEPT ![t] = [state |-> "on", until |-> until]]
        /\ tokens[t].state = "none"
        /\ UNCHANGED <<apps, variables, task, now, nonces, call, logs, done, admitted>>
    BY <1>1 DEF CreateRemoteApiToken
  <2>2. tokens' \in [Tokens -> [state : {"none", "on", "off", "gone"}, until : Nat]]
    BY <1>0, <2>1, Given
  <2>3. \A x \in Tokens : tokens[x].state # "none" => tokens'[x] = tokens[x]
    BY <1>0, <2>1
  <2> QED
    BY <1>0, <2>1, <2>2, <2>3, TokensWritten
<1>2. ASSUME NEW t \in Tokens, NEW state \in {"on", "off"},
             SetRemoteApiTokenStatus(t, state)
      PROVE  RemoteInv'
  <2>1. /\ tokens' = [tokens EXCEPT ![t].state = state]
        /\ tokens[t].state \in {"on", "off"}
        /\ UNCHANGED <<apps, variables, task, now, nonces, call, logs, done, admitted>>
    BY <1>2 DEF SetRemoteApiTokenStatus
  <2>2. tokens' \in [Tokens -> [state : {"none", "on", "off", "gone"}, until : Nat]]
    BY <1>0, <2>1
  <2>3. \A x \in Tokens : tokens'[x].state = IF x = t THEN state ELSE tokens[x].state
    BY <1>0, <2>1
  <2> QED
    BY <1>0, <2>1, <2>2, <2>3, TokensWritten
<1>3. ASSUME NEW t \in Tokens, DeleteRemoteApiToken(t) PROVE RemoteInv'
  <2>1. /\ tokens' = [tokens EXCEPT ![t].state = "gone"]
        /\ tokens[t].state \in {"on", "off"}
        /\ nonces' = {x \in nonces : x.token # t}
        /\ UNCHANGED <<apps, variables, task, now, call, logs, done, admitted>>
    BY <1>3 DEF DeleteRemoteApiToken
  <2>2. tokens' \in [Tokens -> [state : {"none", "on", "off", "gone"}, until : Nat]]
    BY <1>0, <2>1
  <2>3. \A x \in Tokens : tokens'[x].state = IF x = t THEN "gone" ELSE tokens[x].state
    BY <1>0, <2>1
  <2> QED
    BY <1>0, <2>1, <2>2, <2>3, TokensWritten
<1> QED
  BY <1>1, <1>2, <1>3 DEF TokenStep

LEMMA CleanupKeeps == ASSUME RemoteInv, DeleteExpiredRemoteApiNonces PROVE RemoteInv'
<1>1. \A x \in nonces : x.until \in Nat /\ now \in Nat
  BY DEF RemoteInv, CallTypes, Nonces
<1>2. \A x \in nonces : x \in nonces' \/ x.until < now
  BY <1>1 DEF DeleteExpiredRemoteApiNonces
<1>3. /\ tokens \in [Tokens -> [state : {"none", "on", "off", "gone"}, until : Nat]]
      /\ \A x \in nonces : tokens[x.token].state \in {"on", "off"}
  BY DEF RemoteInv, CallTypes
<1> QED
  BY <1>2, <1>3, TokensWritten DEF DeleteExpiredRemoteApiNonces

LEMMA TickKeeps == ASSUME RemoteInv, Tick PROVE RemoteInv'
<1>1. VariablesInv'
  BY VariablesSame DEF RemoteInv, Tick
<1>2. CallTypes' /\ CallsHeld'
  BY Given DEF RemoteInv, CallTypes, CallsHeld, Tick
<1>3. NonceKept'
  <2> SUFFICES ASSUME NEW t \in Tokens, NEW n \in NonceNames,
                      admitted[<<t, n>>].end >= now'
               PROVE  admitted[<<t, n>>].end >= now
    BY DEF RemoteInv, NonceKept, KeptFor, Tick
  <2>1. <<t, n>> \in Keys
    BY DEF Keys, NonceNames
  <2>2. now' = now + 1 /\ now \in Nat /\ admitted[<<t, n>>].end \in Nat
    BY <2>1 DEF RemoteInv, CallTypes, Tick
  <2> QED
    BY <2>2
<1> QED
  BY <1>1, <1>2, <1>3 DEF RemoteInv

-----------------------------------------------------------------------------
(* The steps of a call                                                     *)

LEMMA CallHeld ==
    ASSUME RemoteInv, NEW a \in Actors, call[a].pc # "idle"
    PROVE  /\ call[a] \in Calls
           /\ call[a].token \in Tokens
           /\ call[a].msg \in Signed
           /\ tokens[call[a].token].state # "none"
BY DEF RemoteInv, CallTypes, CallsHeld

(* The steps that only take a call along, or end it.                       *)
LEMMA CallGoesOn ==
    ASSUME RemoteInv, NEW a \in Actors, VariablesInv', apps' \subseteq apps,
           UNCHANGED <<now, tokens, nonces, logs, done, admitted>>,
           \/ call' = [call EXCEPT ![a] = NoCall]
           \/ /\ call[a].pc # "idle"
              /\ \/ call' = [call EXCEPT ![a].pc = "loaded"]
                 \/ call' = [call EXCEPT ![a].pc = "dispatched"]
                 \/ \E x \in Apps \cup {None} :
                       call' = [call EXCEPT ![a].pc = "targeted", ![a].target = x]
    PROVE  RemoteInv'
<1>0. Quiet /\ UNCHANGED <<logs, done>> /\ call \in [Actors -> Calls]
  BY DEF Quiet, RemoteInv, CallTypes
<1>1. CASE call' = [call EXCEPT ![a] = NoCall]
  BY <1>0, <1>1, NoCallIsCall, CallWritten
<1>2. ASSUME call[a].pc # "idle", NEW pc \in {"loaded", "dispatched"},
             call' = [call EXCEPT ![a].pc = pc]
      PROVE  RemoteInv'
  <2> DEFINE c == [call[a] EXCEPT !.pc = pc]
  <2>1. c \in Calls /\ c.token = call[a].token /\ c.msg = call[a].msg
    BY <1>0, <1>2, CallHeld DEF Calls
  <2>2. call' = [call EXCEPT ![a] = c]
    BY <1>0, <1>2
  <2> HIDE DEF c
  <2>3. c.token \in Tokens /\ c.msg \in Signed /\ tokens[c.token].state # "none"
    BY <1>2, <2>1, CallHeld
  <2> QED
    BY <1>0, <2>1, <2>2, <2>3, CallWritten
<1>3. ASSUME call[a].pc # "idle", NEW x \in Apps \cup {None},
             call' = [call EXCEPT ![a].pc = "targeted", ![a].target = x]
      PROVE  RemoteInv'
  <2> DEFINE c == [call[a] EXCEPT !.pc = "targeted", !.target = x]
  <2>1. c \in Calls /\ c.token = call[a].token /\ c.msg = call[a].msg
    BY <1>0, <1>3, CallHeld DEF Calls
  <2>2. call' = [call EXCEPT ![a] = c]
    BY <1>0, <1>3
  <2> HIDE DEF c
  <2>3. c.token \in Tokens /\ c.msg \in Signed /\ tokens[c.token].state # "none"
    BY <1>3, <2>1, CallHeld
  <2> QED
    BY <1>0, <2>1, <2>2, <2>3, CallWritten
<1> QED
  BY <1>1, <1>2, <1>3

LEMMA ReceiveKeeps ==
    ASSUME RemoteInv, NEW a \in Actors, NEW t \in Tokens, NEW m \in Signed,
           Receive(a, t, m)
    PROVE  RemoteInv'
<1> DEFINE c == [NoCall EXCEPT !.pc = "fresh", !.token = t, !.msg = m]
<1>1. c \in Calls /\ c.token = t /\ c.msg = m
  BY DEF NoCall, Calls
<1>2. VariablesInv' /\ apps' = apps
  BY VariablesSame DEF RemoteInv, Receive
<1>3. /\ call' = [call EXCEPT ![a] = c]
      /\ Quiet
      /\ UNCHANGED <<logs, done>>
      /\ tokens[t].state # "none"
  BY DEF Receive, Quiet
<1> HIDE DEF c
<1> QED
  BY <1>1, <1>2, <1>3, CallWritten

(* An admission stores the nonce whose window it opens.                    *)
LEMMA ReserveKeeps ==
    ASSUME RemoteInv, NEW a \in Actors, ReserveNonce(a)
    PROVE  RemoteInv'
<1> DEFINE t == call[a].token
           m == call[a].msg
           refused == NonceTaken(t, m.nonce) \/ tokens[t].state = "gone"
           x == [token |-> t, nonce |-> m.nonce, until |-> m.ts + Window]
<1>0. /\ call[a].pc # "idle"
      /\ UNCHANGED <<apps, variables, task, now, tokens, logs, done>>
  BY DEF ReserveNonce
<1>1. VariablesInv' /\ apps' = apps
  BY <1>0, VariablesSame DEF RemoteInv
<1>2. /\ t \in Tokens /\ m \in Signed /\ tokens[t].state # "none"
      /\ m.ts + Window \in Nat
      /\ m.nonce \in NonceNames
      /\ <<t, m.nonce>> \in Keys
  BY <1>0, CallHeld, Given DEF NonceNames, Keys
<1>3. CASE refused
  <2>1. call' = [call EXCEPT ![a] = NoCall] /\ UNCHANGED <<nonces, admitted>>
    BY <1>3 DEF ReserveNonce
  <2> QED
    BY <1>0, <1>1, <2>1, CallGoesOn
<1>4. CASE ~refused
  <2>1. /\ nonces' = nonces \cup {x}
        /\ admitted' = [admitted EXCEPT ![<<t, m.nonce>>] =
                          [end |-> m.ts + Window, times |-> @.times + 1]]
        /\ call' = [call EXCEPT ![a].pc = "admitted"]
    BY <1>4 DEF ReserveNonce
  <2>2. /\ tokens[t].state \in {"on", "off"}
        /\ x \in Nonces
    BY <1>2, <1>4 DEF RemoteInv, CallTypes, Nonces, NonceNames
  <2>3. CallsHeld'
    BY <1>0, <2>1 DEF RemoteInv, CallsHeld, CallTypes, Calls
  <2>4. CallTypes'
    <3>1. admitted' \in [Keys -> [end : Nat, times : Nat]]
      BY <1>2, <2>1 DEF RemoteInv, CallTypes
    <3>2. call' \in [Actors -> Calls]
      BY <1>0, <2>1 DEF RemoteInv, CallTypes, Calls
    <3>3. nonces' \subseteq Nonces /\ \A y \in nonces' : tokens'[y.token].state \in {"on", "off"}
      BY <1>0, <2>1, <2>2 DEF RemoteInv, CallTypes
    <3> QED
      BY <1>0, <3>1, <3>2, <3>3 DEF RemoteInv, CallTypes
  <2>5. NonceKept'
    <3>1. ASSUME NEW s \in Tokens, NEW n \in NonceNames, <<s, n>> = <<t, m.nonce>>
          PROVE  KeptFor(s, n)'
      <4>1. admitted'[<<s, n>>].end = m.ts + Window
        BY <1>2, <2>1, <3>1 DEF RemoteInv, CallTypes
      <4>2. x \in nonces' /\ x.token = s /\ x.nonce = n /\ x.until = m.ts + Window
        BY <2>1, <3>1
      <4> HIDE DEF x
      <4> QED
        BY <4>1, <4>2 DEF KeptFor
    <3>2. ASSUME NEW s \in Tokens, NEW n \in NonceNames, <<s, n>> # <<t, m.nonce>>
          PROVE  KeptFor(s, n)'
      <4>1. KeptFor(s, n) /\ <<s, n>> \in Keys
        BY DEF RemoteInv, NonceKept, NonceNames, Keys
      <4>2. admitted'[<<s, n>>] = admitted[<<s, n>>]
        BY <2>1, <3>2, <4>1 DEF RemoteInv, CallTypes
      <4> QED
        BY <1>0, <2>1, <4>1, <4>2 DEF KeptFor
    <3> QED
      BY <3>1, <3>2 DEF NonceKept
  <2> QED
    BY <1>1, <2>3, <2>4, <2>5 DEF RemoteInv
<1> QED
  BY <1>3, <1>4

LEMMA KeyHeld ==
    ASSUME RemoteInv, NEW a \in Actors, call[a].pc # "idle"
    PROVE  KeyOf(a) \in Keys
BY CallHeld DEF KeyOf, Keys

LEMMA RecordKeeps ==
    ASSUME RemoteInv, NEW a \in Actors, RecordSuccess(a)
    PROVE  RemoteInv'
<1>0. /\ call[a].pc # "idle"
      /\ UNCHANGED <<apps, variables, now, tokens, nonces, done, admitted>>
      /\ call' = [call EXCEPT ![a] = NoCall]
      /\ Fail(a)
  BY DEF RecordSuccess
<1>1. VariablesInv' /\ apps' = apps
  BY <1>0, FailKeeps DEF RemoteInv
<1>2. logs' \in [Keys -> Nat]
  BY <1>0, KeyHeld DEF RecordSuccess, RemoteInv, CallTypes
<1>3. CallTypes' /\ CallsHeld'
  BY <1>0, <1>2, NoCallIsCall DEF RemoteInv, CallTypes, CallsHeld
<1>4. NonceKept'
  BY <1>0, NoncesSame DEF RemoteInv
<1> QED
  BY <1>1, <1>3, <1>4 DEF RemoteInv

LEMMA HandleKeeps ==
    ASSUME RemoteInv, NEW a \in Actors, Handle(a)
    PROVE  RemoteInv'
<1>1. VariablesInv'
  BY VariableStepKeeps DEF RemoteInv, Handle
<1>2. done' \in [Keys -> Nat]
  BY KeyHeld DEF Handle, RemoteInv, CallTypes
<1>3. CallTypes' /\ CallsHeld'
  BY <1>2 DEF RemoteInv, CallTypes, CallsHeld, Handle
<1>4. NonceKept'
  BY NoncesSame DEF RemoteInv, Handle
<1> QED
  BY <1>1, <1>3, <1>4 DEF RemoteInv

LEMMA CallStepKeeps ==
    ASSUME RemoteInv, NEW a \in Actors, CallStep(a)
    PROVE  RemoteInv'
<1>1. CASE LoadUsableToken(a)
  <2>1. VariablesInv'
    BY <1>1, VariablesSame DEF RemoteInv, LoadUsableToken
  <2>2. \/ call' = [call EXCEPT ![a] = NoCall]
        \/ call' = [call EXCEPT ![a].pc = "loaded"]
    BY <1>1 DEF LoadUsableToken
  <2> QED
    BY <1>1, <2>1, <2>2, CallGoesOn DEF LoadUsableToken
<1>2. CASE Dispatch(a)
  <2>1. VariablesInv'
    BY <1>2, VariablesSame DEF RemoteInv, Dispatch
  <2>2. TargetOf(call[a].msg) \in Apps \cup {None}
    BY <1>2, CallHeld, Given DEF Dispatch, TargetOf
  <2> QED
    BY <1>2, <2>1, <2>2, CallGoesOn DEF Dispatch
<1>3. CASE TransformPayload(a)
  <2>1. call[a].msg.ask \in Requests /\ call[a].pc # "idle"
    BY <1>3, CallHeld, Given DEF TransformPayload
  <2>2. CASE call' = [call EXCEPT ![a] = NoCall] /\ UNCHANGED <<apps, variables, task>>
    <3>1. VariablesInv'
      BY <2>2, VariablesSame DEF RemoteInv
    <3> QED
      BY <1>3, <2>2, <3>1, CallGoesOn DEF TransformPayload
  <2>3. CASE /\ call' = [call EXCEPT ![a].pc = "dispatched"]
             /\ Begin(a, call[a].msg.ask)
    <3>1. VariablesInv' /\ apps' = apps
      BY <2>1, <2>3, BeginKeeps DEF RemoteInv, Begin
    <3> QED
      BY <1>3, <2>1, <2>3, <3>1, CallGoesOn DEF TransformPayload
  <2> QED
    BY <1>3, <2>2, <2>3 DEF TransformPayload
<1>4. CASE DispatchFailed(a)
  <2>1. VariablesInv'
    BY <1>4, VariablesSame DEF RemoteInv, DispatchFailed
  <2> QED
    BY <1>4, <2>1, CallGoesOn DEF DispatchFailed
<1> QED
  BY <1>1, <1>2, <1>3, <1>4, ReceiveKeeps, ReserveKeeps, RecordKeeps DEF CallStep

LEMMA RemoteStep == RemoteInv /\ [Next]_vars => RemoteInv'
<1> SUFFICES ASSUME RemoteInv, [Next]_vars PROVE RemoteInv'
  OBVIOUS
<1>1. ASSUME NEW a \in Actors, NEW ask \in Requests, ConsoleBegin(a, ask)
      PROVE  RemoteInv'
  BY <1>1, BeginKeeps, CallSame DEF RemoteInv, ConsoleBegin, Begin
<1>2. ASSUME NEW a \in Actors, ConsoleEnd(a) PROVE RemoteInv'
  <2>1. VariablesInv'
    BY <1>2, FailKeeps DEF RemoteInv, ConsoleEnd
  <2> QED
    BY <1>2, <2>1, CallSame DEF ConsoleEnd, callVars
<1>3. ASSUME NEW a \in Actors, Handle(a) PROVE RemoteInv'
  BY <1>3, HandleKeeps
<1>4. ASSUME NEW a \in Actors, Drop(a) PROVE RemoteInv'
  <2>1. VariablesInv'
    BY <1>4, FailKeeps DEF RemoteInv, Drop
  <2> QED
    BY <1>4, <2>1, CallGoesOn DEF Drop
<1>5. CASE UNCHANGED vars
  <2>1. VariablesInv'
    BY <1>5, VariablesSame DEF RemoteInv, vars
  <2> QED
    BY <1>5, <2>1, CallSame DEF vars, callVars
<1> QED
  BY <1>1, <1>2, <1>3, <1>4, <1>5, CallStepKeeps, TokenStepKeeps, CleanupKeeps,
     TickKeeps DEF Next

(* Rows, requests and calls are what their types say, and a nonce belongs  *)
(* to a token that is there (the foreign key).                             *)
THEOREM RemoteApiTypes == Spec => []TypeOK
BY RemoteStart, RemoteStep, RemoteTypes, PTL DEF Spec

-----------------------------------------------------------------------------
(* The log overstates nothing                                              *)

Finished(a) == call[a].pc = "dispatched" /\ task[a].pc = "written"

Admitted(a) == call[a].pc \in {"admitted", "targeted", "dispatched"}

(* Calls that may still be carried out, and those that may still be logged. *)
Open(k)     == {a \in Actors : Admitted(a) /\ ~Finished(a) /\ KeyOf(a) = k}
Unlogged(k) == {a \in Actors : Finished(a) /\ KeyOf(a) = k}

CountsHeld ==
    \A k \in Keys : /\ logs[k] + Cardinality(Unlogged(k)) <= done[k]
                    /\ done[k] + Cardinality(Open(k)) <= admitted[k].times

LEMMA FiniteActors ==
    ASSUME NEW S \in SUBSET Actors
    PROVE  IsFiniteSet(S) /\ Cardinality(S) \in Nat
BY AskAssumption, FS_Subset, FS_CardinalityType

(* A set that changes by one actor at most.                                *)
LEMMA OneMoves ==
    ASSUME NEW S \in SUBSET Actors, NEW T \in SUBSET Actors, NEW a,
           S \ {a} = T \ {a}
    PROVE  /\ Cardinality(T) <= Cardinality(S) + 1
           /\ a \notin T => Cardinality(T) <= Cardinality(S)
           /\ a \in S => Cardinality(T) <= Cardinality(S)
           /\ a \in S /\ a \notin T => Cardinality(T) + 1 = Cardinality(S)
<1>1. /\ Cardinality(S \ {a}) = IF a \in S THEN Cardinality(S) - 1 ELSE Cardinality(S)
      /\ Cardinality(T \ {a}) = IF a \in T THEN Cardinality(T) - 1 ELSE Cardinality(T)
  BY FiniteActors, FS_RemoveElement
<1>2. Cardinality(S) \in Nat /\ Cardinality(T) \in Nat
  BY FiniteActors
<1> QED
  BY <1>1, <1>2

LEMMA CountsStart == Init => CountsHeld
<1> SUFFICES ASSUME Init, NEW k \in Keys
             PROVE  /\ logs[k] + Cardinality(Unlogged(k)) <= done[k]
                    /\ done[k] + Cardinality(Open(k)) <= admitted[k].times
  BY DEF CountsHeld
<1>1. Unlogged(k) = {} /\ Open(k) = {}
  BY DEF Init, NoCall, Unlogged, Open, Finished, Admitted
<1> QED
  BY <1>1, FS_EmptySet DEF Init

(* A step of one actor leaves the others where they are.                   *)
Alone(a) == \A b \in Actors : b # a => call'[b] = call[b] /\ task'[b] = task[b]

LEMMA OthersStay ==
    ASSUME NEW a \in Actors, Alone(a), NEW k
    PROVE  /\ Open(k) \ {a} = Open(k)' \ {a}
           /\ Unlogged(k) \ {a} = Unlogged(k)' \ {a}
BY DEF Alone, Open, Unlogged, Admitted, Finished, KeyOf

LEMMA SetsMove ==
    ASSUME NEW a \in Actors, Alone(a), NEW k \in Keys
    PROVE  /\ Cardinality(Open(k)) \in Nat /\ Cardinality(Open(k)') \in Nat
           /\ Cardinality(Unlogged(k)) \in Nat /\ Cardinality(Unlogged(k)') \in Nat
           /\ Cardinality(Open(k)') <= Cardinality(Open(k)) + 1
           /\ Cardinality(Unlogged(k)') <= Cardinality(Unlogged(k)) + 1
           /\ a \in Open(k) \/ a \notin Open(k)'
              => Cardinality(Open(k)') <= Cardinality(Open(k))
           /\ a \in Unlogged(k) \/ a \notin Unlogged(k)'
              => Cardinality(Unlogged(k)') <= Cardinality(Unlogged(k))
           /\ a \in Open(k) /\ a \notin Open(k)'
              => Cardinality(Open(k)') + 1 = Cardinality(Open(k))
           /\ a \in Unlogged(k) /\ a \notin Unlogged(k)'
              => Cardinality(Unlogged(k)') + 1 = Cardinality(Unlogged(k))
<1> DEFINE O == Open(k)
           P == Open(k)'
           U == Unlogged(k)
           V == Unlogged(k)'
<1>1. O \in SUBSET Actors /\ P \in SUBSET Actors /\ U \in SUBSET Actors /\ V \in SUBSET Actors
  BY DEF Open, Unlogged
<1>2. O \ {a} = P \ {a} /\ U \ {a} = V \ {a}
  BY OthersStay
<1> HIDE DEF O, P, U, V
<1>3. /\ Cardinality(O) \in Nat /\ Cardinality(P) \in Nat
      /\ Cardinality(U) \in Nat /\ Cardinality(V) \in Nat
  BY <1>1, FiniteActors
<1>4. /\ Cardinality(P) <= Cardinality(O) + 1
      /\ a \in O \/ a \notin P => Cardinality(P) <= Cardinality(O)
      /\ a \in O /\ a \notin P => Cardinality(P) + 1 = Cardinality(O)
  BY <1>1, <1>2, OneMoves
<1>5. /\ Cardinality(V) <= Cardinality(U) + 1
      /\ a \in U \/ a \notin V => Cardinality(V) <= Cardinality(U)
      /\ a \in U /\ a \notin V => Cardinality(V) + 1 = Cardinality(U)
  BY <1>1, <1>2, OneMoves
<1> QED
  BY <1>3, <1>4, <1>5 DEF O, P, U, V

(* Steps that admit, carry out and log nothing, and take no call further   *)
(* than it had come.                                                       *)
LEMMA CountsSame ==
    ASSUME RemoteInv, CountsHeld, UNCHANGED <<logs, done, admitted>>,
           NEW a \in Actors, Alone(a),
           \A k \in Keys : /\ a \in Open(k)' => a \in Open(k)
                           /\ a \in Unlogged(k)' => a \in Unlogged(k)
    PROVE  CountsHeld'
<1> SUFFICES ASSUME NEW k \in Keys
             PROVE  /\ logs'[k] + Cardinality(Unlogged(k)') <= done'[k]
                    /\ done'[k] + Cardinality(Open(k)') <= admitted'[k].times
  BY DEF CountsHeld
<1>1. /\ logs[k] + Cardinality(Unlogged(k)) <= done[k]
      /\ done[k] + Cardinality(Open(k)) <= admitted[k].times
      /\ logs[k] \in Nat /\ done[k] \in Nat /\ admitted[k].times \in Nat
  BY DEF CountsHeld, RemoteInv, CallTypes
<1>2. /\ Cardinality(Open(k)) \in Nat /\ Cardinality(Open(k)') \in Nat
      /\ Cardinality(Unlogged(k)) \in Nat /\ Cardinality(Unlogged(k)') \in Nat
      /\ Cardinality(Open(k)') <= Cardinality(Open(k))
      /\ Cardinality(Unlogged(k)') <= Cardinality(Unlogged(k))
  BY SetsMove
<1> QED
  BY <1>1, <1>2

(* A step that leaves every call and request alone.                        *)
LEMMA CountsUntouched ==
    ASSUME CountsHeld, UNCHANGED <<logs, done, admitted, call, task>>
    PROVE  CountsHeld'
BY DEF CountsHeld, Open, Unlogged, Admitted, Finished, KeyOf

(* The end of a call.                                                      *)
LEMMA EndLeaves ==
    ASSUME RemoteInv, NEW a \in Actors, call' = [call EXCEPT ![a] = NoCall]
    PROVE  \A k \in Keys : a \notin Open(k)' /\ a \notin Unlogged(k)'
BY DEF RemoteInv, CallTypes, Open, Unlogged, Admitted, Finished, NoCall

LEMMA TaskOfOne ==
    ASSUME NEW a \in Actors, NEW t, Set(a, t)
    PROVE  \A b \in Actors : b # a => task'[b] = task[b]
BY DEF Set

LEMMA FailAlone ==
    ASSUME NEW a \in Actors, Fail(a)
    PROVE  \A b \in Actors : b # a => task'[b] = task[b]
<1> DEFINE t == NoTask
<1>1. Set(a, t)
  BY DEF Fail
<1> HIDE DEF t
<1> QED
  BY <1>1, TaskOfOne

LEMMA HandlersTask ==
    ASSUME VariablesInv, NEW a \in Actors, VariableStep(a)
    PROVE  /\ \A b \in Actors : b # a => task'[b] = task[b]
           /\ task[a].pc # "written"
<1>1. ASSUME Fail(a) \/ Written(a) PROVE \A b \in Actors : b # a => task'[b] = task[b]
  BY <1>1, FailAlone, TaskOfOne DEF Written
<1>2. task[a].pc # "written"
  BY DEF VariableStep, LoadVariable, CheckApps, FindForUpsert, CreateVariable,
         UpdateVariable, ReplaceVariableApps, SetVariableStatus, DeleteVariable,
         DeleteApps, Targets
<1>3. \/ Fail(a) \/ Written(a)
      \/ \E t : Set(a, t)
  BY DEF VariableStep, LoadVariable, CheckApps, FindForUpsert, CreateVariable,
         UpdateVariable, ReplaceVariableApps, SetVariableStatus, DeleteVariable,
         DeleteApps
<1> QED
  BY <1>1, <1>2, <1>3, TaskOfOne

(* Carrying a request out uses up the admission of its call.               *)
LEMMA HandleCounts ==
    ASSUME RemoteInv, CountsHeld, NEW a \in Actors, Handle(a)
    PROVE  CountsHeld'
<1>1. /\ task[a].pc # "written"
      /\ Alone(a)
      /\ UNCHANGED <<call, logs, admitted>>
  BY HandlersTask DEF Handle, Alone, RemoteInv
<1>2. CASE ~(call[a].pc = "dispatched" /\ task'[a].pc = "written")
  <2>1. done' = done
    BY <1>2 DEF Handle
  <2>2. \A k \in Keys : /\ a \in Open(k)' => a \in Open(k)
                        /\ a \in Unlogged(k)' => a \in Unlogged(k)
    BY <1>1, <1>2 DEF Open, Unlogged, Admitted, Finished, KeyOf
  <2> QED
    BY <1>1, <2>1, <2>2, CountsSame
<1>3. CASE call[a].pc = "dispatched" /\ task'[a].pc = "written"
  <2> SUFFICES ASSUME NEW k \in Keys
               PROVE  /\ logs'[k] + Cardinality(Unlogged(k)') <= done'[k]
                      /\ done'[k] + Cardinality(Open(k)') <= admitted'[k].times
    BY DEF CountsHeld
  <2>1. /\ logs[k] + Cardinality(Unlogged(k)) <= done[k]
        /\ done[k] + Cardinality(Open(k)) <= admitted[k].times
        /\ logs[k] \in Nat /\ done[k] \in Nat /\ admitted[k].times \in Nat
    BY DEF CountsHeld, RemoteInv, CallTypes
  <2>2. done'[k] = IF k = KeyOf(a) THEN done[k] + 1 ELSE done[k]
    BY <1>3 DEF Handle, RemoteInv, CallTypes
  <2>3. CASE k = KeyOf(a)
    <3>1. a \in Open(k) /\ a \notin Open(k)'
      BY <1>1, <1>3, <2>3 DEF Open, Admitted, Finished, KeyOf
    <3> QED
      BY <1>1, <2>1, <2>2, <2>3, <3>1, SetsMove
  <2>4. CASE k # KeyOf(a)
    <3>1. a \notin Open(k)' /\ a \notin Unlogged(k)'
      BY <1>1, <2>4 DEF Open, Unlogged, KeyOf
    <3> QED
      BY <1>1, <2>1, <2>2, <2>4, <3>1, SetsMove
  <2> QED
    BY <2>3, <2>4
<1> QED
  BY <1>2, <1>3

(* Logging a success ends its call.                                        *)
LEMMA RecordCounts ==
    ASSUME RemoteInv, CountsHeld, NEW a \in Actors, RecordSuccess(a)
    PROVE  CountsHeld'
<1>1. /\ Finished(a)
      /\ Alone(a)
      /\ call' = [call EXCEPT ![a] = NoCall]
      /\ UNCHANGED <<done, admitted>>
  BY FailAlone DEF RecordSuccess, Succeeded, Finished, Alone
<1>2. \A k \in Keys : a \notin Open(k)' /\ a \notin Unlogged(k)'
  BY <1>1, EndLeaves
<1> SUFFICES ASSUME NEW k \in Keys
             PROVE  /\ logs'[k] + Cardinality(Unlogged(k)') <= done'[k]
                    /\ done'[k] + Cardinality(Open(k)') <= admitted'[k].times
  BY DEF CountsHeld
<1>3. /\ logs[k] + Cardinality(Unlogged(k)) <= done[k]
      /\ done[k] + Cardinality(Open(k)) <= admitted[k].times
      /\ logs[k] \in Nat /\ done[k] \in Nat /\ admitted[k].times \in Nat
  BY DEF CountsHeld, RemoteInv, CallTypes
<1>4. CASE k = KeyOf(a)
  <2>1. a \in Unlogged(k)
    BY <1>1, <1>4 DEF Unlogged
  <2>2. logs'[k] \in Nat /\ logs'[k] <= logs[k] + 1
    BY <1>3 DEF RecordSuccess, RemoteInv, CallTypes
  <2> QED
    BY <1>1, <1>2, <1>3, <2>1, <2>2, SetsMove
<1>5. CASE k # KeyOf(a)
  <2>1. logs'[k] = logs[k]
    BY <1>5 DEF RecordSuccess, RemoteInv, CallTypes
  <2> QED
    BY <1>1, <1>2, <1>3, <2>1, SetsMove
<1> QED
  BY <1>4, <1>5

(* A new admission is the open call's own.                                 *)
LEMMA ReserveCounts ==
    ASSUME RemoteInv, CountsHeld, NEW a \in Actors, ReserveNonce(a)
    PROVE  CountsHeld'
<1>1. call[a].pc = "loaded" /\ UNCHANGED <<task, logs, done>> /\ call \in [Actors -> Calls]
  BY DEF ReserveNonce, RemoteInv, CallTypes
<1>2. CASE call' = [call EXCEPT ![a] = NoCall] /\ admitted' = admitted
  <2>1. Alone(a)
    BY <1>1, <1>2 DEF Alone
  <2> QED
    BY <1>1, <1>2, <2>1, EndLeaves, CountsSame
<1>3. CASE /\ call' = [call EXCEPT ![a].pc = "admitted"]
           /\ admitted' = [admitted EXCEPT ![KeyOf(a)] =
                 [end |-> call[a].msg.ts + Window, times |-> @.times + 1]]
  <2>1. Alone(a)
    BY <1>1, <1>3 DEF Alone
  <2> SUFFICES ASSUME NEW k \in Keys
               PROVE  /\ logs'[k] + Cardinality(Unlogged(k)') <= done'[k]
                      /\ done'[k] + Cardinality(Open(k)') <= admitted'[k].times
    BY DEF CountsHeld
  <2>2. /\ logs[k] + Cardinality(Unlogged(k)) <= done[k]
        /\ done[k] + Cardinality(Open(k)) <= admitted[k].times
        /\ logs[k] \in Nat /\ done[k] \in Nat /\ admitted[k].times \in Nat
    BY DEF CountsHeld, RemoteInv, CallTypes
  <2>3. a \notin Unlogged(k)' /\ (a \in Open(k)' => k = KeyOf(a))
    BY <1>1, <1>3 DEF Unlogged, Open, Finished, KeyOf, Calls
  <2>4. admitted'[k].times = IF k = KeyOf(a) THEN admitted[k].times + 1
                                             ELSE admitted[k].times
    BY <1>3 DEF RemoteInv, CallTypes
  <2> QED
    BY <1>1, <2>1, <2>2, <2>3, <2>4, SetsMove
<1> QED
  BY <1>2, <1>3 DEF ReserveNonce, KeyOf

LEMMA CallStepCounts ==
    ASSUME RemoteInv, CountsHeld, NEW a \in Actors, CallStep(a)
    PROVE  CountsHeld'
<1>0. call \in [Actors -> Calls] /\ task[a] \in Held
  BY DEF RemoteInv, VariablesInv, CallTypes
<1>1. ASSUME NEW t \in Tokens, NEW m \in Signed, Receive(a, t, m) PROVE CountsHeld'
  <2>1. Alone(a) /\ UNCHANGED <<logs, done, admitted>>
    BY <1>1 DEF Receive, Alone
  <2>2. call'[a].pc = "fresh"
    BY <1>0, <1>1 DEF Receive, NoCall
  <2> QED
    BY <2>1, <2>2, CountsSame DEF Open, Unlogged, Admitted, Finished
<1>2. CASE LoadUsableToken(a)
  <2>1. Alone(a) /\ UNCHANGED <<logs, done, admitted>>
    BY <1>2 DEF LoadUsableToken, Alone
  <2>2. call'[a].pc \in {"loaded", "idle"}
    BY <1>0, <1>2 DEF LoadUsableToken, NoCall, Calls
  <2> QED
    BY <2>1, <2>2, CountsSame DEF Open, Unlogged, Admitted, Finished
<1>3. CASE Dispatch(a)
  <2>1. Alone(a) /\ UNCHANGED <<logs, done, admitted>>
    <3>1. \A b \in Actors : b # a => call'[b] = call[b]
      BY <1>0, <1>3 DEF Dispatch, Calls
    <3>2. UNCHANGED <<task, logs, done, admitted>>
      BY <1>3 DEF Dispatch
    <3> QED
      BY <3>1, <3>2 DEF Alone
  <2>2. /\ call'[a].pc = "targeted" /\ call[a].pc = "admitted"
        /\ call'[a].token = call[a].token /\ call'[a].msg = call[a].msg
    BY <1>0, <1>3 DEF Dispatch, Calls
  <2> QED
    BY <2>1, <2>2, CountsSame DEF Open, Unlogged, Admitted, Finished, KeyOf
<1>4. CASE TransformPayload(a)
  <2>1. Alone(a) /\ UNCHANGED <<logs, done, admitted>>
    <3>1. \/ call' = [call EXCEPT ![a] = NoCall] /\ UNCHANGED task
          \/ call' = [call EXCEPT ![a].pc = "dispatched"] /\ Begin(a, call[a].msg.ask)
      BY <1>4 DEF TransformPayload
    <3>2. \A b \in Actors : b # a => call'[b] = call[b]
      BY <1>0, <3>1
    <3>3. \A b \in Actors : b # a => task'[b] = task[b]
      BY <3>1 DEF Begin, Set, RemoteInv, VariablesInv
    <3>4. UNCHANGED <<logs, done, admitted>>
      BY <1>4 DEF TransformPayload
    <3> QED
      BY <3>2, <3>3, <3>4 DEF Alone
  <2>2. CASE call' = [call EXCEPT ![a] = NoCall]
    BY <2>1, <2>2, EndLeaves, CountsSame
  <2>3. CASE call' = [call EXCEPT ![a].pc = "dispatched"] /\ Begin(a, call[a].msg.ask)
    <3>1. /\ call'[a].pc = "dispatched" /\ call[a].pc = "targeted"
          /\ call'[a].token = call[a].token /\ call'[a].msg = call[a].msg
      BY <1>0, <1>4, <2>3 DEF TransformPayload, Calls
    <3>2. task'[a].pc = "asked"
      BY <2>3 DEF Begin, Set, NoTask, RemoteInv, VariablesInv
    <3> QED
      BY <2>1, <3>1, <3>2, CountsSame DEF Open, Unlogged, Admitted, Finished, KeyOf
  <2> QED
    BY <1>4, <2>2, <2>3 DEF TransformPayload
<1>5. CASE DispatchFailed(a)
  <2>1. /\ Alone(a) /\ UNCHANGED <<logs, done, admitted>>
        /\ call' = [call EXCEPT ![a] = NoCall]
    BY <1>5 DEF DispatchFailed, Alone
  <2> QED
    BY <2>1, EndLeaves, CountsSame
<1> QED
  BY <1>1, <1>2, <1>3, <1>4, <1>5, ReserveCounts, RecordCounts DEF CallStep

LEMMA CountsStep == RemoteInv /\ CountsHeld /\ [Next]_vars => CountsHeld'
<1> SUFFICES ASSUME RemoteInv, CountsHeld, [Next]_vars PROVE CountsHeld'
  OBVIOUS
<1>1. CASE TokenStep \/ DeleteExpiredRemoteApiNonces \/ Tick \/ UNCHANGED vars
  BY <1>1, CountsUntouched
     DEF TokenStep, CreateRemoteApiToken, SetRemoteApiTokenStatus,
         DeleteRemoteApiToken, DeleteExpiredRemoteApiNonces, Tick, vars
<1>2. ASSUME NEW a \in Actors, NEW ask \in Requests, ConsoleBegin(a, ask)
      PROVE  CountsHeld'
  <2>1. Alone(a) /\ UNCHANGED <<logs, done, admitted>> /\ call'[a].pc = "idle"
    BY <1>2 DEF ConsoleBegin, Begin, Set, Alone, callVars
  <2> QED
    BY <2>1, CountsSame DEF Open, Unlogged, Admitted, Finished
<1>3. ASSUME NEW a \in Actors, ConsoleEnd(a) PROVE CountsHeld'
  <2>1. UNCHANGED <<logs, done, admitted, call>> /\ call'[a].pc = "idle" /\ Fail(a)
    BY <1>3 DEF ConsoleEnd
  <2>2. Alone(a)
    BY <2>1, FailAlone DEF Alone
  <2> QED
    BY <2>1, <2>2, CountsSame DEF Open, Unlogged, Admitted, Finished
<1>4. ASSUME NEW a \in Actors, Drop(a) PROVE CountsHeld'
  <2>1. /\ UNCHANGED <<logs, done, admitted>> /\ Fail(a)
        /\ call' = [call EXCEPT ![a] = NoCall]
    BY <1>4 DEF Drop
  <2>2. Alone(a)
    BY <2>1, FailAlone DEF Alone
  <2> QED
    BY <2>1, <2>2, EndLeaves, CountsSame
<1> QED
  BY <1>1, <1>2, <1>3, <1>4, HandleCounts, CallStepCounts DEF Next

(* Whatever fails, is dropped or deleted on the way, the log counts no      *)
(* success that was not carried out, and nothing is carried out that was   *)
(* not admitted.                                                           *)
THEOREM LogIsModest == Spec => []LogNeverOverstates
<1>1. RemoteInv /\ CountsHeld => LogNeverOverstates
  <2> SUFFICES ASSUME RemoteInv, CountsHeld, NEW k \in Keys
               PROVE  logs[k] <= done[k] /\ done[k] <= admitted[k].times
    BY DEF LogNeverOverstates
  <2>1. /\ logs[k] + Cardinality(Unlogged(k)) <= done[k]
        /\ done[k] + Cardinality(Open(k)) <= admitted[k].times
        /\ logs[k] \in Nat /\ done[k] \in Nat /\ admitted[k].times \in Nat
    BY DEF CountsHeld, RemoteInv, CallTypes
  <2>2. Unlogged(k) \in SUBSET Actors /\ Open(k) \in SUBSET Actors
    BY DEF Unlogged, Open
  <2>3. Cardinality(Unlogged(k)) \in Nat /\ Cardinality(Open(k)) \in Nat
    BY <2>2, FiniteActors
  <2> QED
    BY <2>1, <2>3
<1> QED
  BY <1>1, RemoteStart, RemoteStep, CountsStart, CountsStep, PTL DEF Spec

-----------------------------------------------------------------------------
(* A signed call runs once                                                 *)

LEMMA AdmissionsOnly ==
    ASSUME Next
    PROVE  \/ admitted' = admitted /\ now' = now
           \/ admitted' = admitted /\ now' = now + 1
           \/ \E a \in Actors : ReserveNonce(a)
<1>1. ASSUME NEW a \in Actors, CallStep(a)
      PROVE  (admitted' = admitted /\ now' = now) \/ ReserveNonce(a)
  BY <1>1 DEF CallStep, Receive, LoadUsableToken, Dispatch, TransformPayload,
              DispatchFailed, RecordSuccess
<1> QED
  BY <1>1 DEF Next, TokenStep, CreateRemoteApiToken, SetRemoteApiTokenStatus,
         DeleteRemoteApiToken, DeleteExpiredRemoteApiNonces, ConsoleBegin, ConsoleEnd,
         Handle, Drop, Tick, callVars

LEMMA OnceStep == RemoteInv /\ [Next]_vars => [Guard!GuardNext]_Guard!guardVars
<1> SUFFICES ASSUME RemoteInv, [Next]_vars PROVE [Guard!GuardNext]_Guard!guardVars
  OBVIOUS
<1>1. ASSUME NEW a \in Actors, ReserveNonce(a)
      PROVE  [Guard!GuardNext]_Guard!guardVars
  <2> DEFINE t == call[a].token
             m == call[a].msg
  <2>0. call[a].pc # "idle" /\ now' = now
    BY <1>1 DEF ReserveNonce
  <2>1. t \in Tokens /\ m \in Signed /\ m.nonce \in NonceNames
    BY <2>0, CallHeld DEF NonceNames
  <2>2. CASE admitted' = admitted
    BY <2>0, <2>2 DEF Guard!guardVars
  <2>3. CASE admitted' # admitted
    <3>1. /\ ~NonceTaken(t, m.nonce)
          /\ tokens[t].state # "gone"
          /\ admitted' = [admitted EXCEPT ![<<t, m.nonce>>] =
                            [end |-> m.ts + Window, times |-> @.times + 1]]
      BY <1>1, <2>3 DEF ReserveNonce
    <3>2. <<t, m.nonce>> \in Keys /\ m.ts + Window \in {r.ts + Window : r \in Signed}
      BY <2>1 DEF Keys
    <3>3. KeptFor(t, m.nonce)
      BY <2>1 DEF RemoteInv, NonceKept
    <3>4. ~(admitted[<<t, m.nonce>>].end >= now)
      BY <3>1, <3>3 DEF KeptFor, NonceTaken
    <3>5. now \in Nat /\ admitted[<<t, m.nonce>>].end \in Nat
      BY <3>2 DEF RemoteInv, CallTypes
    <3>6. admitted[<<t, m.nonce>>].end < now
      BY <3>4, <3>5
    <3>7. Guard!Admit(<<t, m.nonce>>, m.ts + Window)
      BY <2>0, <3>1, <3>6 DEF Guard!Admit
    <3> QED
      BY <3>2, <3>7 DEF Guard!GuardNext
  <2> QED
    BY <2>2, <2>3
<1>2. CASE admitted' = admitted /\ now' = now
  BY <1>2 DEF Guard!guardVars
<1>3. CASE admitted' = admitted /\ now' = now + 1
  BY <1>3 DEF Guard!GuardNext, Guard!Pass
<1>4. CASE UNCHANGED vars
  BY <1>4 DEF vars, Guard!guardVars
<1> QED
  BY <1>1, <1>2, <1>3, <1>4, AdmissionsOnly

(* However often a signed call is delivered, it is admitted once while its *)
(* timestamp is good: deleting tokens and expired nonces opens no gap.     *)
THEOREM SignedCallsRunOnce == Spec => OnceSpec
<1>1. Init => Guard!GuardInit
  BY DEF Init, Guard!GuardInit, Guard!Never
<1> QED
  BY <1>1, RemoteStart, RemoteStep, OnceStep, PTL DEF Spec, OnceSpec, Guard!GuardSpec

-----------------------------------------------------------------------------
(* Nobody reads a variable unasked                                         *)

Opens(row, app) ==
    row.state = "live" /\ row.on /\ (row.scope = "public" \/ app \in row.links)

LEMMA ReadableIsOpen ==
    ASSUME NEW v \in VariableIds, NEW app
    PROVE  /\ Readable(app, v) <=> Opens(variables[v], app)
           /\ Readable(app, v)' <=> Opens(variables'[v], app)
BY DEF Readable, FindReadable, Named, Live, Opens

(* The request that opened v to app: as ReadableByRequest has it.          *)
AskedOn(a) ==
    IF task[a].ask.op = "convert" THEN task[a].copy.on ELSE task[a].ask.on

Asker(a, v, app) ==
    /\ task[a].pc # "written" /\ task'[a].pc = "written"
    /\ variables[v].on \/ AskedOn(a)
    /\ \/ GrantedTo(app, v)
       \/ app \in task[a].ask.apps
       \/ task[a].ask.scope = "public"

LEMMA WrittenAsks ==
    ASSUME VariablesInv, NEW a \in Actors, Written(a)
    PROVE  task'[a].pc = "written"
<1>1. task \in [Actors -> Held] /\ task[a] \in Tasks
  BY DEF VariablesInv, Held
<1> QED
  BY <1>1 DEF Written, Set, Tasks

(* A row written as a request asked opens it to nobody else.               *)
LEMMA RowOpens ==
    ASSUME VariablesInv, NEW a \in Actors, Written(a), task[a].pc # "written",
           NEW v \in VariableIds, NEW x \in VariableIds, NEW name, NEW on, NEW app,
           variables' = [variables EXCEPT ![x] =
               [state |-> "live", name |-> name, scope |-> task[a].ask.scope,
                on |-> on, links |-> AppsOf(task[a].ask) \cap apps]],
           on => AskedOn(a),
           ~Opens(variables[v], app), Opens(variables'[v], app)
    PROVE  Asker(a, v, app)
<1>1. v = x
  BY DEF VariablesInv
<1>2. /\ on
      /\ \/ task[a].ask.scope = "public"
         \/ app \in AppsOf(task[a].ask)
  BY <1>1 DEF VariablesInv, Opens
<1>3. AppsOf(task[a].ask) \subseteq task[a].ask.apps
  BY DEF AppsOf
<1> QED
  BY <1>2, <1>3, WrittenAsks DEF Asker

LEMMA StepOpens ==
    ASSUME VariablesInv, NEW a \in Actors, VariableStep(a),
           NEW v \in VariableIds, NEW app,
           ~Opens(variables[v], app), Opens(variables'[v], app)
    PROVE  Asker(a, v, app)
<1>0. variables' # variables /\ variables \in [VariableIds -> Rows]
  BY DEF VariablesInv
<1>1. CASE CreateVariable(a)
  <2>1. task[a].ask.op # "convert" /\ task[a].pc # "written" /\ Written(a)
    BY <1>0, <1>1 DEF CreateVariable
  <2>2. PICK x \in VariableIds : variables' = [variables EXCEPT ![x] =
               [state |-> "live", name |-> task[a].ask.name,
                scope |-> task[a].ask.scope, on |-> task[a].ask.on,
                links |-> AppsOf(task[a].ask) \cap apps]]
    BY <1>0, <1>1 DEF CreateVariable
  <2>3. task[a].ask.on => AskedOn(a)
    BY <2>1 DEF AskedOn
  <2> QED
    BY <2>1, <2>2, <2>3, RowOpens
<1>2. CASE UpdateVariable(a)
  <2>1. task[a].id \in VariableIds /\ task[a].pc # "written" /\ Written(a)
    BY <1>0, <1>2 DEF UpdateVariable, VariablesInv, Held, Tasks
  <2>2. PICK x \in VariableIds : x = task[a].id
    BY <2>1
  <2>3. PICK name : name = InputOf(a).name
    OBVIOUS
  <2>4. PICK on : on = InputOf(a).on
    OBVIOUS
  <2>5. variables' = [variables EXCEPT ![x] =
           [state |-> "live", name |-> name, scope |-> task[a].ask.scope,
            on |-> on, links |-> AppsOf(task[a].ask) \cap apps]]
    BY <1>0, <1>2, <2>2, <2>3, <2>4 DEF UpdateVariable
  <2>6. on => AskedOn(a)
    BY <2>4 DEF InputOf, AskedOn
  <2> QED
    BY <2>1, <2>5, <2>6, RowOpens
<1>3. CASE ReplaceVariableApps(a)
  <2>1. /\ variables' = [variables EXCEPT ![task[a].id].links = task[a].ask.apps \cap apps]
        /\ task[a].pc # "written"
        /\ Written(a)
    BY <1>0, <1>3 DEF ReplaceVariableApps
  <2>2. /\ variables'[v].on = variables[v].on
        /\ variables'[v].scope = variables[v].scope
        /\ variables'[v].links \subseteq variables[v].links \cup task[a].ask.apps
    BY <1>0, <2>1 DEF Rows
  <2> QED
    BY <2>1, <2>2, WrittenAsks DEF Asker, Opens, GrantedTo
<1>4. CASE SetVariableStatus(a)
  <2>1. PICK x \in Targets(a, "status", "batchStatus") :
           variables' = [variables EXCEPT ![x].on = task[a].ask.on]
    BY <1>0, <1>4 DEF SetVariableStatus
  <2>2. /\ task[a].pc # "written"
        /\ task[a].ask.op # "convert"
        /\ Written(a)
    BY <1>4, <2>1 DEF Targets, SetVariableStatus
  <2>3. /\ variables'[v].on \in {variables[v].on, task[a].ask.on}
        /\ variables'[v].scope = variables[v].scope
        /\ variables'[v].links = variables[v].links
    BY <1>0, <2>1 DEF Rows
  <2> QED
    BY <2>2, <2>3, WrittenAsks DEF Asker, AskedOn, Opens, GrantedTo
<1>5. CASE DeleteVariable(a)
  <2>1. PICK x \in VariableIds :
           variables' = [variables EXCEPT ![x] = [NoVariable EXCEPT !.state = "gone"]]
    BY <1>0, <1>5 DEF DeleteVariable, Targets
  <2>2. variables'[v] = variables[v] \/ variables'[v].state = "gone"
    BY <1>0, <2>1 DEF NoVariable
  <2> QED
    BY <2>2 DEF Opens
<1>6. CASE DeleteApps(a)
  <2>1. PICK gone : variables' = WithoutGrants(gone)
    BY <1>0, <1>6 DEF DeleteApps
  <2>2. PICK kept : kept = variables[v].links \ gone
    OBVIOUS
  <2>3. variables[v] \in Rows /\ variables'[v] = [variables[v] EXCEPT !.links = kept]
    BY <1>0, <2>1, <2>2 DEF WithoutGrants
  <2> QED
    BY <2>2, <2>3 DEF Opens, Rows
<1> QED
  BY <1>0, <1>1, <1>2, <1>3, <1>4, <1>5, <1>6
     DEF VariableStep, LoadVariable, CheckApps, FindForUpsert

LEMMA VariablesWritten ==
    ASSUME Next, variables' # variables
    PROVE  \E a \in Actors : VariableStep(a)
BY DEF Next, TokenStep, CreateRemoteApiToken, SetRemoteApiTokenStatus,
       DeleteRemoteApiToken, DeleteExpiredRemoteApiNonces, ConsoleBegin, ConsoleEnd,
       Begin, Handle, Drop, Tick, CallStep, Receive, LoadUsableToken, ReserveNonce, Dispatch,
       TransformPayload, DispatchFailed, RecordSuccess

(* An application reads a variable it could not read because a request     *)
(* that ended in this very step asked for it, or, converting the variable, *)
(* had read it in force.                                                   *)
THEOREM VariablesOpenOnRequest == Spec => ReadableByRequest
<1>1. ASSUME RemoteInv, [Next]_vars
      PROVE  \A v \in VariableIds, app \in Apps :
          ~Readable(app, v) /\ Readable(app, v)' => \E a \in Actors : Asker(a, v, app)
  <2> SUFFICES ASSUME NEW v \in VariableIds, NEW app \in Apps,
                      ~Readable(app, v), Readable(app, v)'
               PROVE  \E a \in Actors : Asker(a, v, app)
    OBVIOUS
  <2>1. ~Opens(variables[v], app) /\ Opens(variables'[v], app)
    BY ReadableIsOpen
  <2>2. variables' # variables
    BY <2>1
  <2>3. PICK a \in Actors : VariableStep(a)
    BY <1>1, <2>2, VariablesWritten DEF vars
  <2> QED
    BY <1>1, <2>1, <2>3, StepOpens DEF RemoteInv
<1>2. ASSUME RemoteInv, [Next]_vars
      PROVE  \A v \in VariableIds, app \in Apps :
          ~Readable(app, v) /\ Readable(app, v)' =>
          \E a \in Actors :
             /\ task[a].pc # "written" /\ task'[a].pc = "written"
             /\ \/ variables[v].on
                \/ IF task[a].ask.op = "convert" THEN task[a].copy.on
                   ELSE task[a].ask.on
             /\ \/ GrantedTo(app, v)
                \/ app \in task[a].ask.apps
                \/ task[a].ask.scope = "public"
  BY <1>1, <1>2 DEF Asker, AskedOn
<1> QED
  BY <1>2, RemoteStart, RemoteStep, PTL DEF Spec, ReadableByRequest
=============================================================================
