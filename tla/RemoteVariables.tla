-------------------------- MODULE RemoteVariables --------------------------
(***************************************************************************)
(* Remote variables: values a client program reads by name, readable by     *)
(* every application (public) or by the applications a row of               *)
(* auth_remote_variable_apps names (private).                               *)
(*                                                                         *)
(* service/admin.rs, service/admin/variables.rs and their statements in     *)
(* repository/mod.rs.  A request finds the variable, checks that the        *)
(* applications exist and writes, three statements or transactions with     *)
(* other requests in between.  The console addresses a variable by its id,  *)
(* the remote API by its name.  The value of a variable is read and written *)
(* together with its status wherever the status is not changed alone, and   *)
(* is left out.                                                             *)
(***************************************************************************)
EXTENDS Naturals, FiniteSets

CONSTANTS None,
          Apps, VariableIds, VariableNames,
          Actors,      \* whoever has a request under way
          Requests     \* what is asked: [op, name, scope, on, apps]

Operations == {"create", "upsert", "update", "convert", "setApps", "status",
               "batchStatus", "delete", "batchDelete", "deleteApps"}

ASSUME AskAssumption ==
    /\ None \notin VariableIds
    /\ IsFiniteSet(Actors)
    /\ Requests \subseteq [op : Operations, name : VariableNames,
                           scope : {"public", "private"}, on : BOOLEAN,
                           apps : SUBSET Apps]

VARIABLES apps,        \* the applications that exist
          variables,   \* auth_remote_variables with their granted apps
          task         \* per actor: its request and what it has read

remoteVars == <<apps, variables, task>>

NoVariable == [state |-> "none", name |-> None, scope |-> "public",
               on |-> FALSE, links |-> {}]
NoTask     == [pc |-> "idle", ask |-> None, id |-> None, copy |-> None]

CopyOf(row) == [name |-> row.name, on |-> row.on]

VariablesTypeOK ==
    /\ apps \subseteq Apps
    /\ variables \in [VariableIds ->
          [state : {"none", "live", "gone"}, name : VariableNames \cup {None},
           scope : {"public", "private"}, on : BOOLEAN, links : SUBSET apps]]
    /\ task \in [Actors ->
          [pc : {"idle", "asked", "found", "checked", "written"},
           ask : Requests \cup {None}, id : VariableIds \cup {None},
           copy : [name : VariableNames, on : BOOLEAN] \cup {None}]]

VariablesInit ==
    /\ apps = Apps
    /\ variables = [v \in VariableIds |-> NoVariable]
    /\ task = [a \in Actors |-> NoTask]

---------------------------------------------------------------------------
(* Rows *)

Live(v)       == variables[v].state = "live"
Named(name)   == {v \in VariableIds : Live(v) /\ variables[v].name = name}

(* What a client of the application gets to read under a name.              *)
FindReadable(app, name) ==
    {v \in Named(name) : /\ variables[v].on
                         /\ \/ variables[v].scope = "public"
                            \/ app \in variables[v].links}

(* The unique key on the name.                                              *)
NameFree(name, but) == Named(name) \subseteq {but}

(* The applications a request carries: of those that write a variable, only *)
(* a private one's.                                                         *)
AppsOf(ask) == IF ask.scope = "private" \/ ask.op \in {"setApps", "deleteApps"}
               THEN ask.apps ELSE {}

Set(a, record) == task' = [task EXCEPT ![a] = record]
Fail(a)        == Set(a, NoTask)
Written(a)     == Set(a, [task[a] EXCEPT !.pc = "written", !.copy = None])

---------------------------------------------------------------------------
(* The steps of a request *)

Begin(a, ask) ==
    /\ task[a].pc = "idle"
    /\ Set(a, [NoTask EXCEPT !.pc = "asked", !.ask = ask])
    /\ UNCHANGED <<apps, variables>>

NeedsVariable == {"update", "convert", "setApps", "status", "delete"}

(* load_remote_variable: a variable that is not there ends the request, and *)
(* so does granting applications of a public one.                           *)
LoadVariable(a) ==
    /\ task[a].pc = "asked"
    /\ task[a].ask.op \in NeedsVariable
    /\ LET found == Named(task[a].ask.name) IN
       \/ /\ found = {}
          /\ Fail(a)
       \/ \E v \in found :
             IF task[a].ask.op = "setApps" /\ variables[v].scope # "private"
             THEN Fail(a)
             ELSE Set(a, [task[a] EXCEPT !.pc = "found", !.id = v,
                                         !.copy = CopyOf(variables[v])])
    /\ UNCHANGED <<apps, variables>>

(* ensure_variable_apps_exist; ensure_apps_exist before a deletion          *)
CheckApps(a) ==
    /\ \/ task[a].pc = "asked" /\ task[a].ask.op \in {"create", "upsert", "deleteApps"}
       \/ task[a].pc = "found" /\ task[a].ask.op \in {"update", "convert", "setApps"}
    /\ IF AppsOf(task[a].ask) \subseteq apps
       THEN Set(a, [task[a] EXCEPT !.pc = "checked"]) ELSE Fail(a)
    /\ UNCHANGED <<apps, variables>>

(* upsert looks for the name only after the applications were checked.      *)
FindForUpsert(a) ==
    /\ task[a].pc = "checked"
    /\ task[a].ask.op = "upsert"
    /\ task[a].id = None
    /\ task[a].copy = None
    /\ LET found == Named(task[a].ask.name) IN
       IF found = {}
       THEN Set(a, [task[a] EXCEPT !.copy = [name |-> task[a].ask.name,
                                             on |-> task[a].ask.on]])
       ELSE \E v \in found :
               Set(a, [task[a] EXCEPT !.id = v, !.copy = CopyOf(variables[v])])
    /\ UNCHANGED <<apps, variables>>

(* create_remote_variable: one transaction; a taken name rolls it back, an  *)
(* application that is gone is skipped by INSERT IGNORE.                    *)
CreateVariable(a) ==
    /\ task[a].pc = "checked"
    /\ \/ task[a].ask.op = "create"
       \/ task[a].ask.op = "upsert" /\ task[a].id = None /\ task[a].copy # None
    /\ LET ask == task[a].ask IN
       IF ~NameFree(ask.name, None)
       THEN Fail(a) /\ UNCHANGED variables
       ELSE \E v \in VariableIds :
              /\ variables[v].state = "none"
              /\ variables' = [variables EXCEPT ![v] =
                    [state |-> "live", name |-> ask.name, scope |-> ask.scope,
                     on |-> ask.on, links |-> AppsOf(ask) \cap apps]]
              /\ Written(a)
    /\ UNCHANGED apps

ConvertedOn(a) ==
    LET t == task[a] IN
    [name |-> IF t.ask.op = "convert" THEN t.copy.name ELSE t.ask.name,
     on   |-> t.ask.op = "convert" \/ t.ask.on]

(* What update_remote_variable writes: a conversion keeps the name and the  *)
(* status it has read.                                                      *)
InputOf(a) ==
    LET t == task[a] IN
    [name |-> IF t.ask.op = "convert" THEN t.copy.name ELSE t.ask.name,
     on   |-> IF t.ask.op = "convert" THEN t.copy.on ELSE t.ask.on]

(* update_remote_variable: no row is reported as saved all the same.        *)
UpdateVariable(a) ==
    /\ task[a].pc = "checked"
    /\ task[a].id # None
    /\ task[a].ask.op \in {"update", "convert", "upsert"}
    /\ LET v == task[a].id
           input == InputOf(a)
       IN IF ~Live(v)
          THEN Written(a) /\ UNCHANGED variables
          ELSE IF ~NameFree(input.name, v)
          THEN Fail(a) /\ UNCHANGED variables
          ELSE /\ variables' = [variables EXCEPT ![v] =
                    [state |-> "live", name |-> input.name,
                     scope |-> task[a].ask.scope, on |-> input.on,
                     links |-> AppsOf(task[a].ask) \cap apps]]
               /\ Written(a)
    /\ UNCHANGED apps

(* replace_remote_variable_apps: whatever the scope has become.             *)
ReplaceVariableApps(a) ==
    /\ task[a].pc = "checked"
    /\ task[a].ask.op = "setApps"
    /\ variables' = IF Live(task[a].id)
                    THEN [variables EXCEPT ![task[a].id].links =
                             task[a].ask.apps \cap apps]
                    ELSE variables
    /\ Written(a)
    /\ UNCHANGED apps

(* A status change or a deletion follows a look at the row; the batch       *)
(* routes of the console name ids and look at nothing.                      *)
Targets(a, op, batch) ==
    {v \in VariableIds : \/ /\ task[a].pc = "found" /\ task[a].ask.op = op
                            /\ v = task[a].id
                         \/ task[a].pc = "asked" /\ task[a].ask.op = batch}

SetVariableStatus(a) ==
    /\ \E v \in Targets(a, "status", "batchStatus") :
          variables' = IF Live(v)
                       THEN [variables EXCEPT ![v].on = task[a].ask.on]
                       ELSE variables
    /\ Written(a)
    /\ UNCHANGED apps

DeleteVariable(a) ==
    /\ \E v \in Targets(a, "delete", "batchDelete") :
          variables' = IF Live(v)
                       THEN [variables EXCEPT ![v] = [NoVariable EXCEPT !.state = "gone"]]
                       ELSE variables
    /\ Written(a)
    /\ UNCHANGED apps

KeptGrants(gone) == variables
WithoutGrants(gone) ==
    [v \in VariableIds |-> [variables[v] EXCEPT !.links = @ \ gone]]

(* delete_apps: one statement, which deletes those that are still there;    *)
(* the grants of an application go with it (the foreign key).               *)
DeleteApps(a) ==
    /\ task[a].pc = "checked"
    /\ task[a].ask.op = "deleteApps"
    /\ apps' = apps \ task[a].ask.apps
    /\ variables' = WithoutGrants(task[a].ask.apps)
    /\ Written(a)

VariableStep(a) ==
    \/ LoadVariable(a) \/ CheckApps(a) \/ FindForUpsert(a)
    \/ CreateVariable(a) \/ UpdateVariable(a) \/ ReplaceVariableApps(a)
    \/ SetVariableStatus(a) \/ DeleteVariable(a) \/ DeleteApps(a)
=============================================================================
