# TLA+ models of network-auth

network-auth is a licence server: a program sells *cards* (licence keys), its
clients log in with a card and keep a session alive, operators manage cards,
devices and applications in a web console, and other programs do so through a
signed remote API. It is one Rust process (axum) with its state in MySQL, plus a
few files and a set of deployment scripts. This directory holds TLA+ models of it,
the TLC configurations that check them and TLAPS proofs about them.

Paths below are relative to the repository root; the Rust crate is in `src/`.

## 1. The system

| Part | State | Operations | Source |
| --- | --- | --- | --- |
| Client authorization | `auth_cards`, `auth_devices`, `auth_sessions`, `auth_nonces`, the settings in `auth_apps` | login challenge, login, heartbeat, config, variable, download tickets, logout, unbind | `src/service/client.rs`, `src/repository/mod.rs` |
| Operator console | the same tables | create, disable, enable, adjust, reset, delete cards, one by one, in batches or by activation range; disable, enable, delete devices; settings; cleanup | `src/service/admin.rs`, `src/repository/mod.rs` |
| Security reports | `auth_security_reports`, `auth_security_policies`, `auth_messages` | report, count, decide, apply, notify; set a policy; act on, mark, delete messages; clean up by retention | `src/service/client.rs`, `src/service/admin.rs`, `src/repository/mod.rs` |
| Operator login | the row of `sub_admin`, `auth_admin_sessions`, `auth_admin_nonces`, cookies | slider, login, remembered login, session from a cookie or token, signed requests, credential change, logout | `src/service/login.rs`, `src/service/admin_session.rs`, `src/http/mod.rs` |
| Remote API | `auth_remote_api_tokens`, `auth_remote_api_nonces`, `auth_remote_api_logs` | signed calls that reach the console's operations; issue, switch, delete tokens | `src/service/remote_api.rs`, `src/http/mod.rs` |
| Remote variables | `auth_remote_variables`, `auth_remote_variable_apps` | create, update, upsert, convert, grant, switch, delete, alone and in batches; read by a client | `src/service/admin.rs`, `src/service/admin/variables.rs` |
| Cloud storage | `auth_cloud_storage_configs`, `auth_cloud_files`, `auth_cloud_upload_tickets`, objects on disk or in a bucket | save a configuration, choose the default, issue and redeem an upload ticket, upload, delete, download | `src/service/admin/cloud_storage.rs`, `src/service/admin.rs` |
| Slider images | `pool.json` and a directory of images | prewarm command, one challenge | `src/service/login.rs` |
| Installer | `config/local.php`, the schema, the operator's row, `install.lock` | install, migrate | `src/install.rs` |
| Release deployment | the directory of releases, the `current` link, the service | switch with smoke test and rollback, rollback to PHP, prune | `deploy/scripts`, `src/deploy.rs` |

How they interact: the parts meet in the database. A handler reads some rows,
checks them, awaits further queries, and then writes, either in a transaction that
locks some of the rows again (`SELECT ... FOR UPDATE`) or in a single conditional
`UPDATE`. The console's operations change the very rows a client request has just
checked, and the remote API calls the console's operations with an actor of its
own. Nothing of this is kept in memory, so a restart loses exactly the requests in
flight. Three parts also keep files or remote objects, which no transaction covers:
cloud storage, the slider images and the installer; and the deployment tools work on
a directory and a symbolic link without any lock.

What is hard about it:

* **Interleaving.** The distance between check and write is the width of several
  queries. A heartbeat checks session, device and card and then rotates the token
  with an `UPDATE` that looks at token, status and counter only. A cookie is compared
  with the account and the session written later. A configuration, a variable or a
  deployment link is read once and acted upon to the end.
* **Ordering.** Expiry is a comparison with the clock, made at different moments by
  the handler and by the database; the cleanup deletes what has expired.
* **Concurrent writes of the same value.** Durations, use counters and unbind counters
  are changed by logins, unbinds and operators.
* **Retries and loss.** A response may be lost after its transaction committed; a
  signed request may be delivered again; a storage provider may have done what its
  answer did not say.
* **Crashes and failures half way.** An installation is a hundred statements and four
  file writes with nothing around them; an upload and a deletion span the storage and a
  table; files are rewritten in place, so that a full disk or a death in the rewrite
  leaves a part of them; a release is removed file by file.

For each part, what makes it correct:

* *Client authorization*: single login on cards that are not shared; a session token
  has one successor; what was revoked stays revoked; a count card grants what it was
  filled with; a challenge is used once; a device keeps its key; an unbind is charged
  once and to the device that signed it.
* *Operator console*: disabling a card or a device takes effect in bounded time
  whatever is in flight; a reset card starts afresh.
* *Security reports*: an enforced action ends the session it names for good, and a
  card disabled by one is quiet at once; decisions keep to the policy; reports come no
  faster than the limits; references stay whole.
* *Operator login*: a change of credentials leaves no session and no remembered login
  of the old ones; a signed request runs once.
* *Remote API and variables*: a call runs once and the log never shows more than was
  done; a variable becomes readable only because somebody asked for it.
* *Cloud storage*: a ticket yields one file; what is offered exists; nothing is kept
  that nobody accounts for; there is one default; a secret is not lost.
* *Slider images*: the pool is readable unless there is a reason, and a command that
  runs alone, and whose writes succeed, repairs it.
* *Installer*: the key of the cards survives; what was interrupted can be finished; the
  lock means installed.
* *Deployment*: the link always names a release that is there; what was switched to is
  what serves, if the service was to be restarted; a rollback to PHP has a release.

## 2. The modules

| Module | What it is |
| --- | --- |
| `ClientAuth` | cards, devices, sessions and nonces of one application, with the client's and the operator's operations on them, interleaved where the code awaits between a check and a write |
| `SessionLease` | the abstract promise of a session: granted once, one valid token at a time, exchanged one at a time, ended for good |
| `SecurityReports` | extends `ClientAuth` with reports, policies, messages and retention; a step of `ClientAuth` becomes a step that also applies ON DELETE SET NULL to the new tables (`ClientAuthStep`) |
| `OnceGuard` | the abstract promise of a signed-request window: admitted once while its timestamp is good |
| `OperatorSessions` | the operator's login, cookies, sessions, signed requests and change of credentials; implements `OnceGuard` |
| `RemoteVariables` | variables, the applications they are granted to, and the requests that change them |
| `RemoteApi` | extends `RemoteVariables`: tokens, signed calls and their nonces, dispatch, call log; the console is one more actor; implements `OnceGuard` |
| `CloudStorage` | configurations, tickets, files and objects, with lost answers and restarts |
| `SliderPool` | the pool file and the image files, with processes that share no lock, whose writes may fail and which may die |
| `Installer` | the installation step by step, with aborts, failed writes, crashes and a second installer |
| `Releases` | the directory, the link, the service and the three tools |
| `MCClientAuth`, `MCSecurityReports`, `MCOperatorSessions`, `MCRemoteApi`, `MCCloudStorage`, `MCSliderPool`, `MCReleases` | values and symmetries for TLC; `Installer` needs none |
| `ClientAuth_proofs`, `SecurityReports_proofs`, `OperatorSessions_proofs`, `RemoteApi_proofs`, `CloudStorage_proofs`, `SliderPool_proofs`, `Installer_proofs`, `Releases_proofs` | the theorems of section 4 |

Common conventions. A table is a function from row ids to rows; an id is never used
twice (AUTO_INCREMENT), so a row that was deleted stays `deleted` or `gone`. A handler
that stops between two awaits is a record in an in-flight set or of a worker (`work`,
`call`, `task`, `proc`, `job`), holding what it has read; whatever is in it may be
stale when it is used, which is the point. A closed connection, a failed statement
and a restart forget that record (`Drop`, `Restart`, `Crash`, `Abort`, `Killed`). A file
operation that fails half way is an action of its own, since it leaves a part of its
work and its handler may go on (`WriteFails`, `LockFails`, `ImageFails`, `PruneFails`,
`RemovalFails`).
Some variables are *history*: written by the actions and read by the properties only
(`late`, `spent`, `granted`, `fair`, `disabledAt`, `accepted`, `quieted`, `disposed`,
`admitted`, `done`, `leaks`, `doomed`, `strayed`, `shown`, `torn`, `overlapped`, `half`,
`misled`, `alone`, `failed`, `crossed`, `cut`). A definition that stands just before
another under a name of its own and is used nowhere is a plausible slip (section 3).

### ClientAuth

| Code | Model |
| --- | --- |
| `login` in `service/client.rs` up to the transaction | `LoginPrepare`, with `ProvenKey` |
| `create_plain_ephemeral_login` | `LoginCommit`; with verification disabled `LoginSnapshot` and `LoginCommitVirtual` |
| `prepare_client_session`, `assert_client_session`, `card_from_session` | `SessionPrepare` |
| `rotate_client_session`, `revoke_client_session` | `Rotate`, `Logout` |
| `unbind`, `unbind_client_device` | `UnbindPrepare`, `UnbindCommit` |
| `create_cards`, `import_cards` | `CreateCard` |
| `set_card_status` | `EnableCardRead` and `EnableCardWrite`, or `DisableCards` |
| `adjust_card_duration`, `batch_adjust_card_duration` | `AdjustRead`, `AdjustWrite` |
| reset of a duration or of uses, deletion | `ResetDuration`, `ResetUses`, `DeleteCards` |
| `operate_time_cards_by_activated_range` | `RangeEdit` |
| `set_device_status` | `DisableDevice`, `RevokeDevice` (two statements), `EnableDevices` |
| `batch_card_devices_status`, device deletion | `DisableDevices`, `EnableDevices`, `DeleteDevices` |
| `update_app_settings` | `UpdateApp` |
| `cleanup_nonces` | `Cleanup`: `ForgetNonces`, `ForgetSessions` (one statement each) |
| a refused transaction, a lost connection, a restart | `Drop` |

### SecurityReports

| Code | Model |
| --- | --- |
| `security_report` up to `prepare_client_session` | `ReportPrepare` |
| `find_security_report_by_event`, `duplicate_security_report_response` | `ReportLookup`; its rotation is `ReportRotateAgain` |
| `security_policy`, `assert_security_report_rate_limit`, `security_risk_score`, `security_decision`, `security_target_action` | `ReportDecide`, with `WithinRates`, `Score`, `PolicyAction`, `TargetAction` |
| `create_client_security_report` | `ReportCommit`: report, message, `Dispose` and rotation in one transaction |
| `set_security_policy` | `SetPolicy` |
| `act_message` in the console and the repository | `ActRead`, `ActWrite` |
| `update_messages_status`, `delete_messages`, `clear_app_activity_data` | `MarkMessages`, `DeleteMessages`, `ClearActivity` |
| `cleanup_security_data` | `SweepRead`, `SweepMessages`, `SweepReports` |

### OperatorSessions

| Code | Model |
| --- | --- |
| `issue_slider_challenge`, `verify_slider` | `IssueSliderChallenge`, `VerifySlider` |
| `admin_login_get` with `restore_remembered_login` | `RenderLoginPage`, `RestoreRememberedLogin`, `ClearMismatch` |
| `admin_login_post`, `login`, `password_login_admin` | `LoginStep`: `PasswordLogin`, `Login` |
| `logout`, `forget_remember_login` | `LogoutStart`, `Logout`, `ForgetRememberLogin` |
| `create_admin_session`, `create_session` | `CreateTrustedFromCookie` or `CreateFromToken` (the comparison), then `CreateSession` (the insert) |
| `open`: `fresh_timestamp`, `load_session`, `reserve_nonce`, then the route | `OpenFresh`, `LoadSession`, `ReserveNonce`, `DispatchView` or the route's action |
| `update_admin_profile`, `update_admin_credentials_and_revoke_sessions` | `UpdateAdminProfile`, `UpdateAdminCredentialsAndRevokeSessions` |
| `cleanup_nonces` | `CleanupNonces` |

A session or remembered login written by a handler that had compared the credentials
before they changed is marked `late`: the code allows it, and the properties say that
nothing else survives the change. The column `cookies` is written and never read.

### RemoteVariables and RemoteApi

| Code | Model |
| --- | --- |
| `create_variable` ... `set_remote_variable_apps_by_name` | `VariableStep`: `Begin`, `LoadVariable` or `FindForUpsert`, `CheckApps`, then `CreateVariable`, `UpdateVariable`, `SetVariableStatus` or `DeleteVariable` |
| `converted_remote_variable_input` | `CopyOf`: the name and status the conversion will write back |
| deletion of applications with their grants | `CheckApps`, then `DeleteApps` with `WithoutGrants` |
| `create_`, `update_`, `delete_remote_api_token` | `TokenStep` |
| `authenticate_inner` | `Receive`, `LoadUsableToken`, `ReserveNonce` |
| `target_app_id`, `dispatch_remote` with `apply_remote_payload_transform` | `TargetOf`, `Dispatch`, `TransformPayload` |
| the handler a call is dispatched to | `Handle`: a `VariableStep`, counted in `done` when it is the one that writes |
| `record_success`, `record_failure`, `write_remote_api_log` | `RecordSuccess`, `DispatchFailed`: the insert of the log row may fail, and does without its token or application (`LogFits`, the foreign keys) |

`record_log` discards whatever the insert returns, so that a call that was carried out
may be missing from the log for any reason. What the code does keep is the other
direction, `LogNeverOverstates`.

### CloudStorage

| Code | Model |
| --- | --- |
| `ensure_cloud_local_config` | `EnsureLocalConfig`, `UpsertLocal`, `FindDefault`, `DefaultToLocal`: four statements |
| `save_cloud_storage_config` | `ReadForSave`, `UpsertConfig`, `SetDefaultConfig` |
| `create_cloud_upload_ticket` | `CreateUploadTicket` |
| `upload_cloud_file` | `FindTicket`, `ReadTicketConfig`, `MarkTicketUsed`, `StoreObject`, `CreateFile` |
| `upload_cloud_file_base64` | `TakeDefaultForBase64`, `StoreObject`, `CreateFile` |
| `delete_cloud_file` | `FindForDelete`, `ConfigForDelete`, `DeleteObject`, `MarkFileDeleted` |
| `cloud_download_response` | `FindForDownload`, `Serve` |
| a provider's answer | `Outcomes`: done, refused, or done though the request failed; the local disk has no third outcome |

An object is at a provider and bucket. A handler keeps what it read of the
configuration, so an upload goes to the bucket of that moment; a deletion looks in the
bucket of today. When that is another one the object stays behind, and the file's row
says so (`strayed`): `ObjectsAccountedFor` excuses those objects and no other remote
ones.

### SliderPool

A reader of the pool (`Prewarm`, `Challenge`) goes through `ReadFile`, `CheckImages`
and, if the pool is due, `FetchImage`, `WriteImage`, `OpenFile`, `WriteFile` (the file
is `Torn` between the two) and `Prune`. Two commands are two processes: the mutex of
`prewarm_slider_images` is inside one of them, so nothing orders their steps. An image
is named by its content; its modification time decides what `Prune` removes.

Every file operation can fail. `ImageFails`: a truncated image stays, and the result is
given up, but the same image may have been counted by another result of the batch.
`WriteFails`: `fs::write` has truncated pool.json, and what it wrote is no pool; a first
fill and a write after the check of the images then fail the reader, but a refresh that
has a current pool swallows the error (`refresh_slider_image_pool_or_current_pool`), so
that the command prunes beside the pool it had in hand and reports success over a torn
file. `PruneFails`: some of the stale images stay and the command fails. The field
`failed` of a reader remembers that a write of its own failed and it went on.

### Installer

`Step(i)` is `run_system_install_with_strategy`, one statement or file operation at a
time: the schema's statements, the column change around its foreign key (inspect,
drop, modify, restore), the settings row, the card search backfill by card and chunk,
the operator's row, the secrets of `config/local.php` (read, open, write), the lock.
`Abort` ends a request after any step but inside a file write, which awaits nothing; it
is also a statement or the opening of a file that fails. `WriteFails` is the rewrite of
the config that fails once the file is truncated, with the process alive: it leaves
`Remains` of the content, in which a define that was cut is none (`define_inner` wants
its closing bracket) and a character that was cut makes the file unreadable
(`ReadFails`, in whoever reads it next). `LockFails` is the same in `write_lock_file`:
the lock is there, the token is not shown. `Crash` ends all installers and leaves the
remains of a file being written. The two schema upgrades that do what the others do are
left out.

### Releases

The directory is a *listing*: each release with its modification time, 0 for one that
is not there. So is the plan of a prune, the part of the listing it read that it will
remove; `release_entries` sorts by time, newest first, which `IsNewest`, `Newest` and
`NewestPhp` ask of the times themselves.

`StartSwitch`, `LinkTarget`, `PrepareTarget`, `PrepareStorage`, `PreflightTarget`,
`RestartService`, `SmokeTarget`, `GiveUp`, `LinkPrevious`, `RestorePrevious` are
`switch-release.sh`;
`StartPhp`, `LinkPhp`, `SwitchNginx`, `StopService` are `rollback-to-php-release.sh`;
`StartPrune`, `PlanPrune`, `RemovePart`, `RemoveRest`, `RemovalFails`, `PruneDone` are
`prune-releases` in `src/deploy.rs`, also run at the end of a switch. `ServiceFails` and
the restart by systemd, an unpacked release and a shell that dies happen around them.

`remove_dir_all` is many steps. `RemovePart` takes something: the release may then fail
any test it used to pass, and if an entry of the directory itself went, its modification
time is now, which makes it the newest. The last one, `RemoveRest`, takes the directory
out of the listing; `RemovalFails` and `Killed` leave it half removed. Three tests are
told apart (`Tests`): what `switch-release.sh` asks of a Rust release (`Runs`), what the
prune takes for PHP (`is_php_release`: `LooksPhp`) and what the rollback to PHP enters
(`assertPhpRelease`: `EntersPhp`). A release passes those its package passed, less what
was lost since (`passes`).

`restart` is FALSE under `--skip-service-restart`: the switch leaves the service as it
is, the old release answers the health check and the prune is reached with it still in
service. So `SwitchedIsServed` promises the service only to a switch that restarts it.
Where nginx sends the requests is no state: no tool reads it.

### What is abstracted

* The server's clock and MySQL's `NOW()` are one clock. A handler's clock is sampled in
  the step in which it reads its first row.
* A transaction that locks its rows is one step; one that fails leaves no trace, so it
  is a `Drop`. The login path that locks no card row is split where it reads a list
  that may become stale.
* Signatures: a request is signed with the key that the row held when the handler
  checked it. Session tokens are numbered per session. Tokens drawn at random are
  fresh values of a finite set.
* A batch adjustment is one read and one write per card: more interleavings than the
  code's loop has. Each statement of a cleanup is a step of its own, in any order.
* The policy, the four counts and the score of a report are read in one step.
  `attestation_failed` is a field of the input. A report and its message share an id.
* Releases modified in one second are listed in the order of the directory, which is
  some order: no two have the same time in the model. A Rust release passes neither test
  for PHP as it is unpacked; a PHP release may pass one, the other or both.
* What a file contains is one Boolean: whether content, size, hash, name and type agree
  with the ticket and the configuration. Values of variables are written together with
  their status and left out.
* `last_seen` columns, audit rows, search tokens (outside `Installer`), remarks and the
  routing of a request to its application are left out.

## 3. What TLC checks

| Run | Question | Bounds |
| --- | --- | --- |
| `single_login` | can two installations use one unshared card at once, other than by a late rotation (`SingleLogin`)? | 2 installations, devices, sessions, requests; the card is enabled, deleted and sold again under the same key; time 1..4, sessions live 1 |
| `sessions` | is a session a lease (`LeaseSpec`), does a revoked one stay revoked (`RevokedForever`), is a disabled device without sessions (`DisabledDeviceIsQuiet`), is a challenge used once while valid (`ChallengeOncePerLife`)? | one installation and device id, 2 sessions, 2 requests, time 1..3; challenges with and without an id |
| `cards` | does a count card grant only what it was filled with (`CountConserved`), does a reset end every use (`UnusedCardHasNoSession`), does a disabled card run dry within one session lifetime (`DisabledCardDrains`)? | one card of either type, 2 sessions, 2 requests; disabling, resets and adjustments alone and by activation range; time 1..3 |
| `unbinding` | is a card charged within its limit (`UnbindWithinLimit`) and only for a device that signed (`UnbindPaysForDevice`), does a device keep its key (`KeySticky`)? | 1 installation, 2 keys and keyless logins, 2 device rows, 2 regions, card limit 1, verification and address check switched at any time |
| `dispositions` | is a card disabled by a report or an operator quiet at once (`EnforcedIsQuiet`), does an enforced action end its session for good (`DisposedStayEnded`), do decisions keep to the policy (`DecisionWithinPolicy`)? | 2 sessions, 2 requests, 1 report; permanent or count card; policies changed at any time; mild and critical events; messages acted on, marked, deleted, cleared; time stands still, since none of the three depends on expiry |
| `report_rate` | do reports that keep their session come no faster than the limit and one critical report (`ReportRateHolds`), and are all references whole (`ReportTypeOK`)? | 1 session, 2 requests, 3 reports, session limit 1, window 1, time 1..3, cleanup with a retention of one tick |
| `operator` | after a change of credentials, is every session and remembered login of today's (`LiveSessionIsCurrent`, `RememberedIsCurrent`); does a signed request run once (`OnceSpec`)? | 2 names, passwords, tokens, sessions and handlers, one browser that may hold an old cookie, one nonce signed with two timestamps; time 1..2 |
| `remote_api` | does a call run once (`OnceSpec`), does the log never show more than was done (`LogNeverOverstates`), does a variable become readable only by a request (`ReadableByRequest`)? also `TypeOK` | a console and a caller, 1 token with or without an end, 1 application, 2 variable ids of one name, six operations; time 1..2 |
| `cloud_storage` | the five properties of section 1: `OneFilePerTicket`, `OfferedFileHasObject`, `ObjectsAccountedFor`, `OneDefaultKept`, `SecretErasedOnlyByStaleSave` | the local disk and one remote provider, 2 buckets, 2 files, 1 ticket, 2 handlers, a save with and one without a secret; time 1..2 |
| `releases` | is the link's release there (`CurrentPresent`), is what was switched to with a restart what serves (`SwitchedIsServed`), does the newest whole PHP release survive (`PhpReleaseKept`)? also `TypeOK` | one operator with every tool, one who only prunes; 2 Rust releases and 2 that the prune takes for PHP, one of which a rollback enters; both Rust ones and that one are there at the start, the other is unpacked newer or older than all of them; modification times 1..5; `--keep 1` |
| `slider_pool` | is the pool readable unless there is a reason (`UnreadableHasCause`), does a command that runs alone repair it (`PrewarmRepairs`)? | 2 commands, 1 challenge, 2 images, a pool of 1, any write or removal may fail; time 0..1 |
| `installer` | `SystemKeySurvives`, `ForeignKeyRestored`, `IndexedWhole`, `LockMeansInstalled`, `ShownTokenWorks`, and that it ends (`InstallCompletes`) | 2 installers, 2 schema statements, 1 card of 2 chunks, one crash, abort or failed write at any point |

The bounds are small on purpose, and each is the smallest in which the hazard exists:
the hazards of section 6 are races of two handlers over one object, and a third
session, file or release is given where a property needs a victim. Lifetimes and
windows of 0 or 1 tick are enough, because the code only ever compares a moment with
now: a lifetime of 0 means "good in this tick only", and the runs contain the tick
after it, with its cleanup. `MaxTime`, `MaxCounter`, `MaxStops`, `Workers` and the ids
bound the clock, the counters and the requests in flight; `Switchers` keeps the second
operator of `releases` to the prune, the tool whose plan grows old; `Ops`, `Requests`, `Signed`
and `Saves` name the operations an instance receives, so that a run spends its states
on the race it is about. Together the runs take every action and every disjunct.

Symmetry is over ids that no action tells apart, in runs that check safety only;
`installer`, the one with a liveness property, has none. `CHECK_DEADLOCK FALSE` stands
in the six configurations of `ClientAuth` and `SecurityReports`, whose ids and clock run
out; in the others nothing ever stops for good, and deadlock is checked.

### Fairness

Only `Installer` states fairness. `WF_vars(Step(i))`: the runtime drives a request that
is under way to its end, as long as nothing interrupts it, since an installation waits
for nobody. `WF_vars(~lock /\ Begin(i))`: an operator whose system is not installed
begins again, the assumption without which an aborted installation just stays so. The
interruptions (`Abort`, `WriteFails`, `LockFails`, `Crash`) have no fairness and are
bounded by `MaxStops`.
`InstallCompletes` then says that what an interruption leaves behind never makes every
later installation fail, except for the one thing that does: a rewrite cut short took
the key of the cards from `config/local.php`, or left a file that cannot be read.

The other modules claim no liveness: whether a client or an operator tries again is
theirs to decide.

### Refinement

`SessionLease` is implemented by `ClientAuth` and, with reports, by `SecurityReports`
(`lease <- Leases`, `current <- Tokens`). `OnceGuard` is implemented by
`OperatorSessions`, where a key is a session and a nonce, and by `RemoteApi`, where it is
a token and a nonce. What a lease is good for is proved from `SessionLease` alone
(`LeasesNeverRepeat`: a token that was exchanged is never accepted again), and carried
over to both modules by the refinement.

### Every property can fail

For each property `PROJECT.json` names a plausible slip in the code (a comparison left
out, a filter too narrow, an off-by-one, a flag not carried over) as an operator that
stands before the definition it would replace; with it the run finds the property
violated.

### What the models showed about the code

Four sentences of the schema are stronger than what the code does. They are kept in
`ClientAuth` as formulas that no run claims; each fails when it is added as an
INVARIANT to the configuration named.

| Formula | Says | Does | Seen in |
| --- | --- | --- | --- |
| `SingleDevicePerCard` | `schema.sql:59`: 0 is single login | a heartbeat that passed its checks just before its session expired, and is written after another device was let in, gives its session a new expiry | `SingleLogin.cfg` |
| `ChallengeOnce` | `schema.sql:240`: nonces protect against replay | a login checked before its challenge expired, and committed after the cleanup forgot the nonce, is accepted a second time | `Sessions.cfg` |
| `UnusedIsUnactivated` | `schema.sql:125`: status 0 is unused | `set_card_status` writes the status it chose from a row read before a first login activated the card | `Cards.cfg` with `enableCard` in `Ops` |
| `NoLostAdjustment` | `schema.sql:63`: seconds deducted for an unbind | `adjust_card_duration` overwrites a deduction made after its read | `Unbinding.cfg` with `adjust` in `Ops` |

`SingleLogin` and `ChallengeOncePerLife` are the strongest forms of the first two that
hold. Further behaviour met while modelling, which contradicts no document and is in
the models as it is in the code:

* *Installer*: `install.lock` is never read by the Rust program. The key of the cards
  is read before the secrets are ensured. The backfill handles one batch of cards per
  run, and never selects a card that has only some of its tokens again. The config is
  rewritten in place: a write that fails loses the key of the cards and the secrets
  although nobody dies, and `install.lock` of an earlier installation stays.
* *Remote API*: the call log and audit inserts ignore their failure, so that a call that
  was carried out may be missing; a log row refers to a token and an application that
  may be gone; a conversion writes back the status it
  read; the update of a variable deleted meanwhile reports success.
* *Cloud storage*: a save without a secret can erase one stored after it read the row.
* *Deployment*: `is_php_release` of the prune asks for other files than
  `assertPhpRelease` of the rollback. Removing the entries of a release makes it the
  newest by modification time. If that is an old PHP one, and another prune reads the
  directory before the removal has ended or after it failed, that prune keeps the
  half-removed release as the newest PHP one and removes the whole one (`misled`).
  With `--skip-service-restart` the smoke test and the prune run while the previous
  release serves. Nothing in a prune looks at what the service runs.
* *Slider images*: a torn `pool.json` is never repaired, since every command reads it
  first; a command whose refresh fails to write it reports success all the same; an
  image that is fetched again keeps its modification time; a challenge can write back
  the pool it read over a newer one; `--force` has no effect when a command finds, in its
  second round, a pool that is not due.

## 4. What is proved

For every value of the constants that satisfies the ASSUMEs of the module concerned
(types of the inputs, NULL is no value, bounds are numbers, lifetimes positive where
the code's are).

| Theorem | States | Argument |
| --- | --- | --- |
| `TypeCorrect` | `[]TypeOK` of `ClientAuth` | inductive; one lemma per group of actions and per row constructor |
| `SingleLoginHolds` | `[]SingleLogin` | with `TypeOK`. `NoneRevived`: no action but a login makes a session alive that was not, unless it marks it `late`; `LoginKeepsSingle`: a login that passes finds no rival |
| `SessionsAreLeases` | `LeaseSpec` | a login is a `Grant`, a rotation an `Exchange`, whatever revokes or deletes an `End`, the rest stutters |
| `RevocationIsFinal`, `KeysStick` | `RevokedForever`, `KeySticky` | what the actions can do to one session (`SessionWrites`) and to one device (`DeviceWrites`) |
| `UnbindsWithinLimit`, `UnbindsPayForDevice` | `[]UnbindWithinLimit`, `UnbindPaysForDevice` | what the actions can do to one card (`CardWrites`): only an unbind raises the count |
| `CountIsConserved` | `[]CountConserved` | `CountInv`, below |
| `ResetEndsSessions` | `[]UnusedCardHasNoSession` | `UnusedInv`, below |
| `ChallengeAcceptedOnce` | `ChallengeOncePerLife` | `Reserved`: an accepted challenge that is still valid is in `auth_nonces` |
| `DisabledDevicesAreQuiet` | `[]DisabledDeviceIsQuiet`, where no request is lost (`"drop" \notin Ops`, as in the run) | a login finds the device disabled; whoever disables one row is in `revokes` until its second statement |
| `DisabledCardsDrain` | `[]DisabledCardDrains` | `DrainInv`, below |
| `LeasesNeverRepeat`, `TokensAcceptedOnce` | `LeaseSpec => []TokensFresh`, `Spec => []TokensFresh` | `LeasesAdvance`, an invariant of `SessionLease`: the tokens given back come before the current one; then the refinement |
| `ReportTypeCorrect` | `[]ReportTypeOK` | `DetachedType`: ON DELETE SET NULL restores the foreign keys after any step that deletes rows |
| `ReportsKeepLeases` | `LeaseSpec` of `SecurityReports` | steps of `ClientAuth` by `LeaseStep`; a report's rotation is an `Exchange`, a disposition an `End` |
| `ReportTokensAcceptedOnce` | `ReportSpec => []TokensFresh` | `ReportsKeepLeases` and `LeasesNeverRepeat` |
| `ReportsKeepSingleLogin`, `ReportsReviveNothing`, `ReportsConserveCounts`, `ReportsKeepUnbinds`, `ReportsKeepChallenges`, `ReportsKeepKeys`, `ReportsKeepResets` | under `ReportSpec`: `[]SingleLogin`, `RevokedForever`, `[]CountConserved`, `[]UnbindWithinLimit` and `UnbindPaysForDevice`, `ChallengeOncePerLife`, `KeySticky`, `[]UnusedCardHasNoSession` | `ClientOrAside`, below: the invariants of `ClientAuth` again, with one more kind of step |
| `ReportsKeepDevicesQuiet` | `[]DisabledDeviceIsQuiet` under `ReportSpec`, where no request is lost | a disposition disables a device and ends its sessions in one transaction |
| `ReportsDrainCards` | `[]DisabledCardDrains` under `ReportSpec` | `ReportDrainInv`, below |
| `DispositionsLast` | `[]DisposedStayEnded` | `DispositionInv`, below |
| `EnforcementIsQuiet` | `[]EnforcedIsQuiet` | `QuietedInv`: a card that was quieted is a disabled card; no login and no rotation of a disposed session gets past it |
| `ReportRatesHold` | `[]ReportRateHolds` | `RateInv`, below |
| `DecisionsWithinPolicy` | `DecisionWithinPolicy` | the lists of `PolicyAction` and `TargetAction`, ranked |
| `RemoteApiTypes` | `[]TypeOK` of `RemoteApi` | `RemoteInv`, below |
| `LogIsModest` | `[]LogNeverOverstates` | `CountsHeld`, below |
| `SignedCallsRunOnce` | `OnceSpec` | `NonceKept`, as in `OperatorSessions`, with tokens for sessions |
| `VariablesOpenOnRequest` | `ReadableByRequest` | four actions write rows; each writes what its request asked for or, converting, what it had read |
| `OperatorTypes` | `[]TypeOK` of `OperatorSessions` | `OperatorInv`, below |
| `SessionsAreCurrent`, `RememberedLoginsAreCurrent` | `[]LiveSessionIsCurrent`, `[]RememberedIsCurrent` | `OperatorInv` |
| `OperatorRequestsRunOnce` | `OnceSpec` | `NonceKept` makes `ReserveNonce` an `Admit` |
| `RevokedSessionsStay` | `RevokedStaysRevoked` | types; ids are not used twice |
| `CloudTypes` | `[]TypeOK` of `CloudStorage` | `CloudInv`, below |
| `TicketsYieldOneFile` | `[]OneFilePerTicket` | `Redeemed`, then a set whose elements are all equal has at most one |
| `OfferedFilesExist`, `StorageIsAccountedFor` | `[]OfferedFileHasObject`, `[]ObjectsAccountedFor` | `CloudInv` |
| `DefaultIsKept`, `SecretsOutliveFreshSaves` | `OneDefaultKept`, `SecretErasedOnlyByStaleSave` | four statements write configurations (`ConfigWrites`); two keep the default, two set one |
| `UnreadablePoolHasCause` | `[](TypeOK /\ UnreadableHasCause)` | `PoolInv`: what a reader holds when it checks or writes is a pool |
| `LonePrewarmRepairs` | `PrewarmRepairs` | `Undisturbed`, below |
| `InstallerTypes`, `SystemKeyOutlivesInstalls`, `ForeignKeyIsRestored`, `CardsIndexedWhole`, `LockStandsForInstallation`, `ShownTokensWork` | the types and the five safety properties of `Installer` | one inductive invariant in five parts, below |
| `InstallationsEnd` | `EveryStepAdvances`: a step of an installer lowers its `Rank`, which nobody else's raises | `Rank` is the step, then the cards not begun, then the statements or chunks left: well-founded, since the cards are finitely many |
| `LoneInstallationsComplete` | `OnlyLockEnds`: an installer that overlaps no other, where no rewrite of the config was ever cut short, ends its run by a step of its own only if that writes the lock | `LoneCourse`, below |
| `ReleaseTypes`, `CurrentIsPresent`, `SwitchedReleasesServe`, `PhpReleasesStay` | `[]TypeOK`, `[]CurrentPresent`, `[]SwitchedIsServed`, `PhpReleaseKept` of `Releases` | `ReleasesInv`, below |

Why the invariants have to be strengthened:

* `DispositionInv`. An action may name a device or a card instead of a session and end
  the sessions found through it, so one must know that the session is still found
  there. Whatever names a session together with a device and a card *refers*: while
  the device (card) it names is still there, the session is one of that device (card).
  `RowsAge` carries this over a step.
* `CountInv`. An id that no card has had yet has granted nothing, so that a card starts
  with its whole total when it is created.
* `UnusedInv`. The card that a live session names exists and has been used at some time
  later than 0, the mark of an unused card: a login writes both, and a reset ends the
  sessions together with the mark.
* `DrainInv`. `Horizon`: no session outlasts now by more than a lifetime. `CallsDrain`: a
  request under way has its clock from before now, and from before its card was
  disabled if the card now is. So what it may still write ends within a lifetime of
  the disabling.
* `ClientOrAside`. A step with reports is a step of `ClientAuth`, whose lemmas apply as
  they are, or one aside: the lemma says what those may do to a card, a device and a
  session (disable, disable with its sessions, end, or rotate like a heartbeat, marked
  `late` when it should be). Each property of `ClientAuth` then needs its invariant for
  that one kind of step more. `ReportDrainInv` adds to `DrainInv` what a report carries
  between its steps, the expiry its session is to get, just as `CallsDrain` does for
  heartbeats.
* `RateInv`. A report that was decided on is within the rates for as long as its token
  is current: whoever inserts a report takes the token, so no two reports that counted
  the same rows are both inserted. Only a critical report may exceed the session limit,
  and then by one.
* `RemoteInv`. `Held` and `CallsHeld` say what a request about variables and a signed
  call carry at each step; `NonceKept` is that of `OperatorInv` for tokens; `GrantsExist`
  keeps grants to applications that are there.
* `CountsHeld`. A call under way still has its admission to use up, or its success to
  log: admissions less executions are at least the calls between the two, executions
  less log rows at least the calls that are done and not yet logged. So each finite set
  of calls shrinks with the step that spends it.
* `OperatorInv`. `Held` says what a handler carries at each await. `NonceKept`: while an
  admission's window is open its nonce is stored, or its session is gone with it; the
  cleanup deletes a nonce only after the end of its window.
* `CloudInv`. `Fits`: what a handler knows of the file in its hands (an object it has
  stored is there, and alone under that name; one it has removed is not).
  `Apart`: handlers that have stored objects have different ones. `Placed`: a file's
  object is where its row says, and a local one has no bucket, so the deletion of a
  local file finds it under any configuration. `Redeemed`: a redeemed ticket has one
  holder, the handler that redeemed it and then the file that came of it.
* `Installer`. `Progress`: what is committed once an installer is past a step.
  `OneAccount`: installers that never overlap are alone and add one operator.
  `SecretsHeld`: while the config file is rewritten, its secrets are in the hands of the
  one who rewrites it. `ForeignKeyHeld`: whoever dropped the key is on its way to restore
  it. `IndexHeld`: of the installers that write one card's tokens, the last to clear it
  has all it wrote in the table.
  `LoneCourse`: what an installer that runs alone has seen is still so when it acts on
  it (the foreign key it drops or restores, the settings row it adds), and the key it
  encrypts tokens with is that of the cards.
* `Undisturbed`. A command that runs beside nobody, and whose own writes have not
  failed, meets only its own work: the pool it decides on is the one in `pool.json`,
  every image it has counted is whole, and once it has written a fresh pool it does not
  read again.
* `ReleasesInv`. `Equipped`: what a tool has at each of its steps. `Lonely`: tools that
  never overlapped are alone. `Untouched`: a release no removal has begun on passes what
  its package did. `OnCourse`: where the link, the service and the plan of a tool stand
  that is alone; a switch goes back to a release it has not pruned, and a plan never
  holds the current release. `PhpSpared`: a plan, however old, holds a whole PHP release
  only while a newer whole one is there; so the newest is in no plan. When a removal
  begins on that newer one, a still newer one is there for the same reason; that the
  newest exists at all is the well-foundedness of `>` below `MaxTime`.
* `SingleLogin` needs none, because `late` remembers exactly the steps that could break
  it.

Model-checked only: `InstallCompletes`, since liveness under fairness and `ENABLED` are
out of the prover's reach. What of it needs no fairness is proved: an
installation takes finitely many steps (`InstallationsEnd`), and the last step of one
that is left alone is the writing of the lock, whatever interrupted ones left behind
short of a config file whose rewrite was cut short (`LoneInstallationsComplete`).
Every other property of a run is stated by a theorem.

## 5. Not modelled, and why

* The status of an application, client keys, exports, lists and what pages show: read
  and written alone, by nothing that depends on anything else.
* Download tokens and tickets of the cloud storage with their counters, and imports of
  local files.
* Remote calls that reach cards, devices or files pass the same steps of `RemoteApi`,
  which is not composed with the modules of those operations: each of them is an
  operation of the console, modelled there.
* The deadlocks of InnoDB. A transaction is one step; a rolled-back one is a `Drop`.
* Routing and headers (`http/mod.rs`, whose handlers are mapped with the operations they
  call), the Lua sandbox, the card search index as a function, the cryptography,
  configuration parsing, the client SDKs and the web assets keep no state that handlers
  share; the models take their results as given.

## 6. Hazards

`PROJECT.json` lists, under `hazards`, what in this code is hard to test, each at its
line, with the properties that cover it. In short: stale checks of sessions, cards,
cookies, configurations and the deployment link; two writers of one counter, duration,
default or secret; deletion and re-creation under the same name; two statements, or a
table and a storage, without a transaction; retries after cleanup; reports counted and
judged before they are applied; files rewritten in place, by processes that share no
lock and whose writes may fail; releases removed part by part; an installation
interrupted anywhere. Four have no property: login with
verification off (the snapshot is modelled, but the promise of single login is for
verified cards), the two lost updates of section 3, and deadlocks.

## 7. Plan

Done: all modules of section 2, their runs and the theorems of section 4. Left, most
important first:

1. `RemoteApi` composed with `ClientAuth`'s console operations, so that a token deleted
   in mid-call meets the cards.
2. Download tokens and tickets in `CloudStorage`.
3. The rows that login, unbind, report and console transactions lock, in their order,
   and that of a cycle of them one always commits.
4. Liveness for a client: under fair scheduling a retried login succeeds while the card
   is in force and nobody withdraws it.
