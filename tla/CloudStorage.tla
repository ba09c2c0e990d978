--------------------------- MODULE CloudStorage ---------------------------
(***************************************************************************)
(* Files in the console's cloud storage: the providers' configurations and  *)
(* the default one, upload tickets, the two uploads, deletion and           *)
(* downloads.                                                               *)
(*                                                                         *)
(* service/admin.rs, service/admin/cloud_storage.rs, the download route of  *)
(* http/mod.rs and the statements of repository/mod.rs.  A file is a row    *)
(* of auth_cloud_files and an object on the local disk or in a bucket; no   *)
(* transaction spans the two.  A handler awaits between all its statements  *)
(* and requests; a worker is one such handler.  A restart forgets the       *)
(* workers and nothing else.                                                *)
(*                                                                         *)
(* What a file contains is abstracted to `fits`: whether content, size,     *)
(* hash, name and type agree with the ticket and the configuration.         *)
(***************************************************************************)
EXTENDS Naturals, FiniteSets

CONSTANTS None,
          Local,      \* the provider that is this machine's disk
          Remotes,    \* the other providers
          Buckets,    \* what the operator may enter as a provider's bucket
          Files,      \* rows of auth_cloud_files, each naming its own object
          Tickets,    \* rows of auth_cloud_upload_tickets
          Saves,      \* forms: [provider, on, bucket, secret, default]
          Workers,
          TicketTTL,  \* UPLOAD_TICKET_TTL_SECONDS
          MaxTime     \* the clock stops here (a bound of the model)

ASSUME ProvidersAssumption == Local \notin Remotes
ASSUME NoneAssumption == None \notin Remotes \cup Buckets \cup Files \cup Tickets
ASSUME SavesAssumption ==
    Saves \subseteq [provider : Remotes \cup {Local}, on : BOOLEAN,
                    bucket : Buckets \cup {None}, secret : BOOLEAN,
                    default : BOOLEAN]
ASSUME ClockAssumption == TicketTTL \in Nat /\ MaxTime \in Nat \ {0}

Providers == Remotes \cup {Local}

VARIABLES now,
          configs,    \* auth_cloud_storage_configs, one row per provider
          files,      \* auth_cloud_files; doomed and strayed are history: a
                      \* deletion of the object has been asked for, and one
                      \* that looked elsewhere than where it is marked the row
          objects,    \* what storage holds: [file, at], at a <<provider, bucket>>
          tickets,    \* auth_cloud_upload_tickets
          work,       \* per worker: the handler it is in the middle of
          leaks       \* objects storage keeps though their request failed

vars == <<now, configs, files, objects, tickets, work, leaks>>

NoConfig == [there |-> FALSE, on |-> FALSE, bucket |-> None, secret |-> FALSE,
             default |-> FALSE]
NoFile   == [state |-> "none", provider |-> None, at |-> None, ticket |-> None,
             doomed |-> FALSE, strayed |-> FALSE]
NoTicket == [state |-> "none", provider |-> None, until |-> 0]
Unread   == [on |-> FALSE, bucket |-> None, secret |-> FALSE]
Idle     == [pc |-> "idle", goal |-> None, ticket |-> None, provider |-> None,
             cfg |-> Unread, file |-> None, ask |-> None]

Places == Providers \X (Buckets \cup {None})

TypeOK ==
    /\ now \in 1..MaxTime
    /\ configs \in [Providers -> [there : BOOLEAN, on : BOOLEAN,
                    bucket : Buckets \cup {None}, secret : BOOLEAN,
                    default : BOOLEAN]]
    /\ files \in [Files -> [state : {"none", "active", "deleted"},
                  provider : Providers \cup {None}, at : Places \cup {None},
                  ticket : Tickets \cup {None}, doomed : BOOLEAN, strayed : BOOLEAN]]
    /\ objects \subseteq [file : Files, at : Places]
    /\ tickets \in [Tickets -> [state : {"none", "pending", "used", "gone"},
                    provider : Providers \cup {None}, until : Nat]]
    /\ work \in [Workers ->
          [pc : {"idle", "missing", "local", "nodefault", "ready", "ticketed",
                 "configured", "storing", "stored", "found", "removing",
                 "removed", "saving", "saved", "serving"},
           goal : {None, "page", "ticket", "base64"},
           ticket : Tickets \cup {None}, provider : Providers \cup {None},
           cfg : [on : BOOLEAN, bucket : Buckets \cup {None}, secret : BOOLEAN],
           file : Files \cup {None}, ask : Saves \cup {None}]]
    /\ leaks \subseteq [file : Files, at : Places]

Init ==
    /\ now = 1
    /\ configs = [p \in Providers |-> NoConfig]
    /\ files = [f \in Files |-> NoFile]
    /\ objects = {}
    /\ tickets = [t \in Tickets |-> NoTicket]
    /\ work = [w \in Workers |-> Idle]
    /\ leaks = {}

Defaults == {p \in Providers : configs[p].default}

Set(w, record) == work' = [work EXCEPT ![w] = record]
Done(w)        == Set(w, Idle)

(* What a handler keeps of the configuration it reads.                      *)
ForStore(p)  == [Unread EXCEPT !.on = configs[p].on, !.bucket = configs[p].bucket]
ForAccess(p) == [Unread EXCEPT !.bucket = configs[p].bucket]
ForSave(p)   == [Unread EXCEPT !.secret = configs[p].secret]

(* Where a configuration, as it was read, puts and looks for objects.       *)
PlaceOf(p, cfg) == <<p, IF p = Local THEN None ELSE cfg.bucket>>

---------------------------------------------------------------------------
(* The default configuration.  ensure_cloud_local_config runs first in the  *)
(* storage pages, the ticket and the base64 upload.                         *)

EnsureLocalConfig(w, goal) ==
    /\ work[w].pc = "idle"
    /\ Set(w, [Idle EXCEPT !.goal = goal,
                           !.pc = IF configs[Local].there THEN "local" ELSE "missing"])
    /\ UNCHANGED <<now, configs, files, objects, tickets, leaks>>

(* The insert of the local row; a row that has appeared is reset by it.     *)
UpsertLocal(w) ==
    /\ work[w].pc = "missing"
    /\ configs' = [configs EXCEPT ![Local] =
                     [NoConfig EXCEPT !.there = TRUE, !.on = TRUE,
                                      !.default = configs[Local].default]]
    /\ Set(w, [work[w] EXCEPT !.pc = "local"])
    /\ UNCHANGED <<now, files, objects, tickets, leaks>>

FindDefault(w) ==
    /\ work[w].pc = "local"
    /\ Set(w, [work[w] EXCEPT !.pc = IF Defaults = {} THEN "nodefault" ELSE "ready"])
    /\ UNCHANGED <<now, configs, files, objects, tickets, leaks>>

AddDefault(p) == configs' = [configs EXCEPT ![p].default = TRUE]
SetDefault(p) == configs' = [q \in Providers |->
                               [configs[q] EXCEPT !.default = (q = p)]]

DefaultToLocal(w) ==
    /\ work[w].pc = "nodefault"
    /\ SetDefault(Local)
    /\ Set(w, [work[w] EXCEPT !.pc = "ready"])
    /\ UNCHANGED <<now, files, objects, tickets, leaks>>

ShowPage(w) ==
    /\ work[w].pc = "ready" /\ work[w].goal = "page"
    /\ Done(w)
    /\ UNCHANGED <<now, configs, files, objects, tickets, leaks>>

(* What an operator may save: a default must be on, and a remote provider   *)
(* that is on must be complete, its secret typed in or read from its row.   *)
Acceptable(ask, cfg) ==
    /\ ask.default => ask.on
    /\ ask.provider = Local => ask.bucket = None
    /\ ask.provider # Local /\ ask.on
         => ask.bucket # None /\ (ask.secret \/ cfg.secret)

ReadForSave(w, ask) ==
    /\ work[w].pc = "idle"
    /\ Acceptable(ask, configs[ask.provider])
    /\ Set(w, [Idle EXCEPT !.pc = "saving", !.ask = ask,
                           !.cfg = ForSave(ask.provider)])
    /\ UNCHANGED <<now, configs, files, objects, tickets, leaks>>

TypedSecret(ask, cfg) == ask.provider # Local /\ ask.secret
SavedSecret(ask, cfg) == ask.provider # Local /\ (ask.secret \/ cfg.secret)

UpsertConfig(w) ==
    /\ work[w].pc = "saving"
    /\ LET ask == work[w].ask IN
       /\ configs' = [configs EXCEPT ![ask.provider] =
             [there |-> TRUE, on |-> ask.on, bucket |-> ask.bucket,
              secret |-> SavedSecret(ask, work[w].cfg),
              default |-> @.default]]
       /\ Set(w, IF ask.default THEN [work[w] EXCEPT !.pc = "saved"] ELSE Idle)
    /\ UNCHANGED <<now, files, objects, tickets, leaks>>

SetDefaultConfig(w) ==
    /\ work[w].pc = "saved"
    /\ SetDefault(work[w].ask.provider)
    /\ Done(w)
    /\ UNCHANGED <<now, files, objects, tickets, leaks>>

---------------------------------------------------------------------------
(* Uploads *)

(* require_enabled_default_config, then the ticket's row.                   *)
CreateUploadTicket(w, t) ==
    /\ work[w].pc = "ready" /\ work[w].goal = "ticket"
    /\ tickets[t].state = "none"
    /\ \/ \E p \in Defaults :
             /\ configs[p].on
             /\ tickets' = [tickets EXCEPT ![t] =
                  [state |-> "pending", provider |-> p, until |-> now + TicketTTL]]
       \/ /\ \A p \in Defaults : ~configs[p].on
          /\ UNCHANGED tickets
    /\ Done(w)
    /\ UNCHANGED <<now, configs, files, objects, leaks>>

(* The remote API's upload carries its content and needs no ticket.         *)
TakeDefaultForBase64(w) ==
    /\ work[w].pc = "ready" /\ work[w].goal = "base64"
    /\ \/ \E p \in Defaults :
             /\ configs[p].on
             /\ Set(w, [Idle EXCEPT !.pc = "storing", !.provider = p,
                                    !.cfg = ForStore(p)])
       \/ (\A p \in Defaults : ~configs[p].on) /\ Done(w)
    /\ UNCHANGED <<now, configs, files, objects, tickets, leaks>>

FindTicket(w, t) ==
    /\ work[w].pc = "idle"
    /\ tickets[t].state = "pending" /\ tickets[t].until >= now
    /\ Set(w, [Idle EXCEPT !.pc = "ticketed", !.ticket = t,
                           !.provider = tickets[t].provider])
    /\ UNCHANGED <<now, configs, files, objects, tickets, leaks>>

ReadTicketConfig(w) ==
    /\ work[w].pc = "ticketed"
    /\ Set(w, [work[w] EXCEPT !.pc = "configured",
                                     !.cfg = ForStore(work[w].provider)])
    /\ UNCHANGED <<now, configs, files, objects, tickets, leaks>>

TicketKnown(t) == tickets[t].state \in {"pending", "used"}
TicketPending(t) == tickets[t].state = "pending"

(* UPDATE ... SET status = 'used' WHERE id = t AND status = 'pending'       *)
MarkTicketUsed(w) ==
    /\ work[w].pc = "configured"
    /\ LET t == work[w].ticket IN
       IF TicketPending(t)
       THEN /\ tickets' = [tickets EXCEPT ![t].state = "used"]
            /\ Set(w, [work[w] EXCEPT !.pc = "storing"])
       ELSE tickets' = tickets /\ Done(w)
    /\ UNCHANGED <<now, configs, files, objects, leaks>>

(* How a request to storage can end: done or not, and known to be or not; a *)
(* remote provider may have done what timed out.                            *)
UncheckedOutcomes(p) == BOOLEAN \X {TRUE}
Outcomes(p) == {<<TRUE, TRUE>>, <<FALSE, FALSE>>}
               \cup (IF p = Local THEN {} ELSE {<<TRUE, FALSE>>})

(* store_cloud_upload: the configuration as it was read decides.            *)
StoreObject(w, fits) ==
    /\ work[w].pc = "storing"
    /\ LET p == work[w].provider IN
       IF ~(work[w].cfg.on /\ fits)
       THEN Done(w) /\ UNCHANGED <<objects, leaks>>
       ELSE \E f \in Files :
              LET o == [file |-> f, at |-> PlaceOf(p, work[w].cfg)] IN
              /\ files[f].state = "none"
              /\ \A x \in objects : x.file # f
              /\ \A v \in Workers : work[v].file # f
              /\ \E e \in Outcomes(p) :
                    /\ objects' = IF e[1] THEN objects \cup {o} ELSE objects
                    /\ leaks' = IF e[1] /\ ~e[2] THEN leaks \cup {o} ELSE leaks
                    /\ IF e[2] THEN Set(w, [work[w] EXCEPT !.pc = "stored", !.file = f])
                       ELSE Done(w)
    /\ UNCHANGED <<now, configs, files, tickets>>

Leak(w) == [file |-> work[w].file, at |-> PlaceOf(work[w].provider, work[w].cfg)]

CreateFile(w, works) ==
    /\ work[w].pc = "stored"
    /\ IF works
       THEN /\ files' = [files EXCEPT ![work[w].file] =
                 [NoFile EXCEPT !.state = "active", !.provider = work[w].provider,
                                !.at = Leak(w).at, !.ticket = work[w].ticket]]
            /\ leaks' = leaks
       ELSE files' = files /\ leaks' = leaks \cup {Leak(w)}
    /\ Done(w)
    /\ UNCHANGED <<now, configs, objects, tickets>>

---------------------------------------------------------------------------
(* Deletion: the row is read, the object is removed from wherever the       *)
(* provider's configuration points today, and the row is marked.            *)

FindForDelete(w, f) ==
    /\ work[w].pc = "idle"
    /\ files[f].state = "active"
    /\ Set(w, [Idle EXCEPT !.pc = "found", !.file = f, !.provider = files[f].provider])
    /\ UNCHANGED <<now, configs, files, objects, tickets, leaks>>

ConfigForDelete(w) ==
    /\ work[w].pc = "found"
    /\ Set(w, [work[w] EXCEPT !.pc = "removing", !.cfg = ForAccess(work[w].provider)])
    /\ UNCHANGED <<now, configs, files, objects, tickets, leaks>>

UncheckedRemoval(p) == BOOLEAN \X {TRUE}
Removal(p) == Outcomes(p)

(* An object that is not there counts as removed.                           *)
DeleteObject(w) ==
    /\ work[w].pc = "removing"
    /\ \E e \in Removal(work[w].provider) :
          /\ objects' = IF e[1] THEN objects \ {Leak(w)} ELSE objects
          /\ files' = [files EXCEPT ![work[w].file].doomed = @ \/ e[1]]
          /\ IF e[2] THEN Set(w, [work[w] EXCEPT !.pc = "removed"]) ELSE Done(w)
    /\ UNCHANGED <<now, configs, tickets, leaks>>

MarkFileDeleted(w) ==
    /\ work[w].pc = "removed"
    /\ LET f == work[w].file IN
       files' = [files EXCEPT ![f].state = "deleted",
                              ![f].strayed = @ \/ Leak(w).at # files[f].at]
    /\ Done(w)
    /\ UNCHANGED <<now, configs, objects, tickets, leaks>>

---------------------------------------------------------------------------
(* Downloads, once the shared token or a ticket was accepted (the counters  *)
(* they leave behind are not modelled): the active row, its configuration,  *)
(* and from there the content or a signed address.                          *)

FindForDownload(w, f) ==
    /\ work[w].pc = "idle"
    /\ files[f].state = "active"
    /\ Set(w, [Idle EXCEPT !.pc = "serving", !.file = f,
                              !.provider = files[f].provider,
                              !.cfg = ForAccess(files[f].provider)])
    /\ UNCHANGED <<now, configs, files, objects, tickets, leaks>>

Serve(w) ==
    /\ work[w].pc = "serving"
    /\ Done(w)
    /\ UNCHANGED <<now, configs, files, objects, tickets, leaks>>

---------------------------------------------------------------------------
CleanupTickets ==
    /\ tickets' = [t \in Tickets |->
          IF tickets[t].state \in {"pending", "used"} /\ tickets[t].until < now
          THEN [NoTicket EXCEPT !.state = "gone"] ELSE tickets[t]]
    /\ UNCHANGED <<now, configs, files, objects, work, leaks>>

Tick ==
    /\ now < MaxTime
    /\ now' = now + 1
    /\ UNCHANGED <<configs, files, objects, tickets, work, leaks>>

(* The server stops and starts again.                                       *)
Restart ==
    /\ work' = [w \in Workers |-> Idle]
    /\ leaks' = leaks \cup {Leak(w) : w \in {v \in Workers : work[v].pc = "stored"}}
    /\ UNCHANGED <<now, configs, files, objects, tickets>>

WorkerStep(w) ==
    \/ \E goal \in {"page", "ticket", "base64"} : EnsureLocalConfig(w, goal)
    \/ UpsertLocal(w) \/ FindDefault(w) \/ DefaultToLocal(w) \/ ShowPage(w)
    \/ \E ask \in Saves : ReadForSave(w, ask)
    \/ UpsertConfig(w) \/ SetDefaultConfig(w)
    \/ \E t \in Tickets : CreateUploadTicket(w, t) \/ FindTicket(w, t)
    \/ TakeDefaultForBase64(w) \/ ReadTicketConfig(w) \/ MarkTicketUsed(w)
    \/ \E fits \in BOOLEAN : StoreObject(w, fits)
    \/ \E works \in BOOLEAN : CreateFile(w, works)
    \/ \E f \in Files : FindForDelete(w, f) \/ FindForDownload(w, f)
    \/ ConfigForDelete(w) \/ DeleteObject(w) \/ MarkFileDeleted(w)
    \/ Serve(w)

Next ==
    \/ \E w \in Workers : WorkerStep(w)
    \/ CleanupTickets \/ Tick \/ Restart

Spec == Init /\ [][Next]_vars

---------------------------------------------------------------------------
(* Properties *)

(* However many uploads present a ticket at once, one file comes of it.     *)
OneFilePerTicket ==
    \A t \in Tickets :
       Cardinality({f \in Files : files[f].ticket = t}
                   \cup {work[w].file : w \in {v \in Workers :
                           work[v].pc = "stored" /\ work[v].ticket = t}}) <= 1

(* A file that is listed, or that a download has found, has its object,     *)
(* unless a deletion of it has begun: the object goes first, and the row    *)
(* can outlive it for good when the request fails or the server stops in    *)
(* between.                                                                 *)
Offered(f) == \/ files[f].state = "active"
              \/ \E w \in Workers : work[w].pc = "serving" /\ work[w].file = f

OfferedFileHasObject ==
    \A f \in Files : Offered(f) /\ ~files[f].doomed
                        => [file |-> f, at |-> files[f].at] \in objects

(* Nothing is kept in storage that the tables do not account for, except    *)
(* what a failed or interrupted upload left, and what was in a bucket the   *)
(* configuration no longer pointed to when the file was deleted.            *)
ObjectsAccountedFor ==
    \A o \in objects :
       \/ o \in leaks
       \/ \E w \in Workers : work[w].pc = "stored" /\ Leak(w) = o
       \/ files[o.file].state = "active"
       \/ files[o.file].strayed

(* Once there is a default there always is exactly one, whoever saves       *)
(* configurations at once: changing it is a single statement, and nothing   *)
(* deletes a configuration.                                                 *)
OneDefaultKept ==
    [][/\ Defaults # {} => Defaults' # {}
       /\ \A p, q \in Defaults' : p = q]_vars

(* A stored secret disappears only by a save without one that had read the  *)
(* row before the secret was there.                                         *)
SecretErasedOnlyByStaleSave ==
    [][\A p \in Remotes : configs[p].secret /\ ~configs'[p].secret
          => \E w \in Workers : /\ work[w].pc = "saving"
                                /\ work[w].ask.provider = p
                                /\ ~work[w].cfg.secret]_vars
=============================================================================
