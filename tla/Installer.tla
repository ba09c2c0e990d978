----------------------------- MODULE Installer ------------------------------
(***************************************************************************)
(* The installer and schema migration (src/src/install.rs), run by the     *)
(* /install page of a serving process (src/src/http/mod.rs) and, from the  *)
(* schema on, by the migrate command. An installation is a sequence of     *)
(* file writes and statements, each committed by itself: nothing makes it  *)
(* a transaction, nothing keeps two from running at once, and a later one  *)
(* has to finish what an interrupted one began.                            *)
(***************************************************************************)
EXTENDS Naturals, FiniteSets

CONSTANTS
  Installers,   \* requests that install, each with an account of its own
  Statements,   \* statements of the schema file, all CREATE ... IF NOT EXISTS
  Chunks,       \* INSERTs the search tokens of one card need
  Cards,        \* cards of an existing database
  Batch,        \* CARD_SEARCH_BACKFILL_BATCH_SIZE
  MaxStops      \* bound on crashes, aborted requests and failed writes

ASSUME InstallerAssumption ==
  /\ Statements \in Nat \ {0} /\ Chunks \in Nat \ {0} /\ Batch \in Nat \ {0}
  /\ MaxStops \in Nat /\ IsFiniteSet(Cards)
  /\ "none" \notin Installers /\ "first" \notin Installers

VARIABLES
  config,      \* the secrets config/local.php defines, and whether it is text
  database,    \* tables, the patched column, the rows an install adds
  tokens,      \* the chunks of search tokens each card has
  lock,        \* whether install.lock was written
  job,         \* what each installer is doing
  shown,       \* the installers whose last run handed out an admin token
  stops,       \* crashes, aborts and failed writes so far
  overlapped,  \* whether two installers ever ran at once
  torn         \* whether a rewrite of the config was ever cut short

vars == <<config, database, tokens, lock, job, shown, stops, overlapped, torn>>

Secrets == [key : {"none", "first", "other"}, hash : {"none", "first"} \cup Installers,
            text : BOOLEAN]
Nothing == [key |-> "none", hash |-> "none", text |-> TRUE]
Whole == 1..Chunks
Writing == {"writeDb", "writeSecrets"}
Steps == Writing \cup {"idle", "prepare", "readDb", "openDb", "systemKey", "schema",
  "column", "foreignKey", "dropKey", "modify", "restore", "settings", "addSettings",
  "cards", "clear", "insert", "admin", "addAdmin", "readSecrets", "openSecrets", "lock"}

TypeOK ==
  /\ config \in Secrets
  /\ database \in [tables : 0..Statements, nullable : BOOLEAN, foreignKey : BOOLEAN,
                   settings : BOOLEAN, admins : SUBSET Installers]
  /\ tokens \in [Cards -> SUBSET Whole]
  /\ job \in [Installers -> [step : Steps, content : Secrets, key : {"none", "first", "other"},
              hadKey : BOOLEAN, todo : SUBSET Cards, at : SUBSET Cards, chunk : 0..Chunks,
              token : BOOLEAN]]
  /\ shown \subseteq Installers /\ stops \in 0..MaxStops
  /\ lock \in BOOLEAN /\ overlapped \in BOOLEAN /\ torn \in BOOLEAN

Idle == [step |-> "idle", content |-> Nothing, key |-> "none", hadKey |-> FALSE,
         todo |-> {}, at |-> {}, chunk |-> 0, token |-> FALSE]

\* The process that serves the page was started from a config with a SYS_KEY;
\* the token hash may be a placeholder (AppConfig::validate). The database is
\* an old one, with a NOT NULL column and cards not indexed yet, or empty (then
\* no card waits for its tokens).
Init ==
  /\ config \in [key : {"first"}, hash : {"none", "first"}, text : {TRUE}]
  /\ \E legacy \in BOOLEAN :
       /\ database = [tables |-> IF legacy THEN Statements ELSE 0, nullable |-> ~legacy,
                      foreignKey |-> legacy, settings |-> FALSE, admins |-> {}]
       /\ tokens = [c \in Cards |-> IF legacy THEN {} ELSE Whole]
  /\ lock = FALSE
  /\ job = [i \in Installers |-> Idle]
  /\ shown = {} /\ stops = 0 /\ overlapped = FALSE /\ torn = FALSE

Running == {i \in Installers : job[i].step # "idle"}
At(i, step) == job[i].step = step
Goto(i, step) == job' = [job EXCEPT ![i].step = step]
Fail(i) == job' = [job EXCEPT ![i] = Idle]
History == <<shown, stops, overlapped, torn>>

-----------------------------------------------------------------------------
(* run_system_install_with_strategy *)

\* install_system_response: the lock of an earlier installation is not read.
Begin(i) ==
  /\ At(i, "idle")
  /\ Goto(i, "prepare")
  /\ shown' = shown \ {i}
  /\ overlapped' = (overlapped \/ Running # {})
  /\ UNCHANGED <<config, database, tokens, lock, stops, torn>>

\* prepare_database_with_strategy: creates the database and drops the tables
\* it probes with, so it leaves nothing behind.
Prepare(i) ==
  /\ At(i, "prepare")
  /\ Goto(i, "readDb")
  /\ UNCHANGED <<config, database, tokens, lock>> /\ UNCHANGED History

FreshSecrets(read, i) ==
  [key |-> "other", hash |-> IF read.hash = "none" THEN i ELSE read.hash, text |-> TRUE]

\* ensure_secrets adds what the file lacks; the page shows a token it added.
WithSecrets(read, i) ==
  [key |-> IF read.key = "none" THEN "other" ELSE read.key,
   hash |-> IF read.hash = "none" THEN i ELSE read.hash, text |-> TRUE]

AlwaysShown(read, secrets) == TRUE
TokenShown(read, secrets) == secrets.hash # read.hash

\* write_db_config reads the file, replaces its database part and writes it
\* back whole: fs::write truncates the file when it opens it.
ReadConfig(i) ==
  /\ job[i].step \in {"readDb", "readSecrets"} /\ config.text
  /\ LET read == config
         secrets == WithSecrets(read, i)
         next == IF At(i, "readDb")
                 THEN [job[i] EXCEPT !.step = "openDb", !.content = read]
                 ELSE [job[i] EXCEPT !.step = IF secrets = read THEN "lock" ELSE "openSecrets",
                                     !.content = secrets, !.token = TokenShown(read, secrets)]
     IN  job' = [job EXCEPT ![i] = next]
  /\ UNCHANGED <<config, database, tokens, lock>> /\ UNCHANGED History

OpenConfig(i) ==
  /\ job[i].step \in {"openDb", "openSecrets"}
  /\ config' = Nothing
  /\ Goto(i, IF At(i, "openDb") THEN "writeDb" ELSE "writeSecrets")
  /\ UNCHANGED <<database, tokens, lock>> /\ UNCHANGED History

WriteConfig(i) ==
  /\ job[i].step \in Writing
  /\ config' = job[i].content
  /\ Goto(i, IF At(i, "writeDb") THEN "systemKey" ELSE "lock")
  /\ UNCHANGED <<database, tokens, lock>> /\ UNCHANGED History

\* config_system_key
SystemKey(i) ==
  /\ At(i, "systemKey") /\ config.text
  /\ job' = [job EXCEPT ![i].step = "schema", ![i].key = config.key]
  /\ UNCHANGED <<config, database, tokens, lock>> /\ UNCHANGED History

\* fs::read_to_string refuses a file that is not UTF-8.
ReadFails(i) ==
  /\ job[i].step \in {"readDb", "systemKey", "readSecrets"} /\ ~config.text
  /\ Fail(i)
  /\ UNCHANGED <<config, database, tokens, lock>> /\ UNCHANGED History

\* One statement of the schema file; those of a database that has them do
\* nothing. The tables of a new database already have the new column.
Schema(i) ==
  /\ At(i, "schema")
  /\ IF database.tables < Statements
     THEN /\ database' = [database EXCEPT !.tables = @ + 1,
                            !.foreignKey = @ \/ database.tables + 1 = Statements]
          /\ UNCHANGED job
     ELSE UNCHANGED database /\ Goto(i, "column")
  /\ UNCHANGED <<config, tokens, lock>> /\ UNCHANGED History

\* ensure_nullable_column: each question and each ALTER is a statement.
InspectColumn(i) ==
  /\ At(i, "column")
  /\ Goto(i, IF database.nullable THEN "settings" ELSE "foreignKey")
  /\ UNCHANGED <<config, database, tokens, lock>> /\ UNCHANGED History

InspectForeignKey(i) ==
  /\ At(i, "foreignKey")
  /\ Goto(i, IF database.foreignKey THEN "dropKey" ELSE "modify")
  /\ UNCHANGED <<config, database, tokens, lock>> /\ UNCHANGED History

DropForeignKey(i) ==
  /\ At(i, "dropKey")
  /\ IF database.foreignKey
     THEN /\ database' = [database EXCEPT !.foreignKey = FALSE]
          /\ job' = [job EXCEPT ![i].step = "modify", ![i].hadKey = TRUE]
     ELSE UNCHANGED database /\ Fail(i)
  /\ UNCHANGED <<config, tokens, lock>> /\ UNCHANGED History

ModifyAndForget(i) ==
  /\ At(i, "modify")
  /\ database' = [database EXCEPT !.nullable = TRUE]
  /\ Goto(i, "settings")
  /\ UNCHANGED <<config, tokens, lock>> /\ UNCHANGED History

ModifyColumn(i) ==
  /\ At(i, "modify")
  /\ database' = [database EXCEPT !.nullable = TRUE]
  /\ Goto(i, IF job[i].hadKey THEN "restore" ELSE "settings")
  /\ UNCHANGED <<config, tokens, lock>> /\ UNCHANGED History

RestoreForeignKey(i) ==
  /\ At(i, "restore")
  /\ IF database.foreignKey
     THEN UNCHANGED database /\ Fail(i)
     ELSE /\ database' = [database EXCEPT !.foreignKey = TRUE]
          /\ job' = [job EXCEPT ![i].step = "settings", ![i].hadKey = FALSE]
  /\ UNCHANGED <<config, tokens, lock>> /\ UNCHANGED History

SettingsUnseen(i) ==
  /\ At(i, "settings")
  /\ Goto(i, "addSettings")
  /\ UNCHANGED <<config, database, tokens, lock>> /\ UNCHANGED History

\* ensure_site_settings: the row has a fixed id, a second INSERT fails.
InspectSettings(i) ==
  /\ At(i, "settings")
  /\ Goto(i, IF database.settings THEN "cards" ELSE "addSettings")
  /\ UNCHANGED <<config, database, tokens, lock>> /\ UNCHANGED History

AddSettings(i) ==
  /\ At(i, "addSettings")
  /\ IF database.settings
     THEN UNCHANGED database /\ Fail(i)
     ELSE database' = [database EXCEPT !.settings = TRUE] /\ Goto(i, "cards")
  /\ UNCHANGED <<config, tokens, lock>> /\ UNCHANGED History

\* backfill_card_search_tokens: the cards without any token, one batch, if the
\* config had a key.
SelectCards(i) ==
  /\ At(i, "cards")
  /\ \E batch \in SUBSET {c \in Cards : tokens[c] = {}} :
       /\ Cardinality(batch) <= Batch
       /\ Cardinality(batch) = Batch \/ batch = {c \in Cards : tokens[c] = {}}
       /\ job' = [job EXCEPT ![i].todo = IF job[i].key = "none" THEN {} ELSE batch,
                             ![i].step = "clear"]
  /\ UNCHANGED <<config, database, tokens, lock>> /\ UNCHANGED History

\* The cards were encrypted under the first key: under another one the card
\* cannot be read and the migration fails. Else its old tokens are deleted.
ClearCard(i) ==
  /\ At(i, "clear") /\ job[i].todo # {}
  /\ IF job[i].key # "first"
     THEN Fail(i) /\ UNCHANGED tokens
     ELSE \E c \in job[i].todo :
            /\ tokens' = [tokens EXCEPT ![c] = {}]
            /\ job' = [job EXCEPT ![i].step = "insert", ![i].at = {c},
                                  ![i].todo = @ \ {c}]
  /\ UNCHANGED <<config, database, lock>> /\ UNCHANGED History

\* insert_card_search_token_chunk: the chunks in order, INSERT IGNORE.
InsertChunk(i) ==
  /\ At(i, "insert") /\ job[i].chunk < Chunks
  /\ \E c \in job[i].at : tokens' = [tokens EXCEPT ![c] = @ \cup {job[i].chunk + 1}]
  /\ job' = [job EXCEPT ![i].chunk = @ + 1]
  /\ UNCHANGED <<config, database, lock>> /\ UNCHANGED History

CardDoneEarly(i) ==
  /\ At(i, "insert") /\ job[i].chunk > 0
  /\ job' = [job EXCEPT ![i].step = "clear", ![i].at = {}, ![i].chunk = 0]
  /\ UNCHANGED <<config, database, tokens, lock>> /\ UNCHANGED History

CardDone(i) ==
  /\ At(i, "insert") /\ job[i].chunk = Chunks
  /\ job' = [job EXCEPT ![i].step = "clear", ![i].at = {}, ![i].chunk = 0]
  /\ UNCHANGED <<config, database, tokens, lock>> /\ UNCHANGED History

CardsDone(i) ==
  /\ At(i, "clear") /\ job[i].todo = {}
  /\ Goto(i, "admin")
  /\ UNCHANGED <<config, database, tokens, lock>> /\ UNCHANGED History

AdminUnseen(i) ==
  /\ At(i, "admin")
  /\ Goto(i, "addAdmin")
  /\ UNCHANGED <<config, database, tokens, lock>> /\ UNCHANGED History

\* ensure_admin_account: only into an empty table.
InspectAdmin(i) ==
  /\ At(i, "admin")
  /\ Goto(i, IF database.admins = {} THEN "addAdmin" ELSE "readSecrets")
  /\ UNCHANGED <<config, database, tokens, lock>> /\ UNCHANGED History

AddAdmin(i) ==
  /\ At(i, "addAdmin")
  /\ IF i \in database.admins
     THEN UNCHANGED database /\ Fail(i)
     ELSE database' = [database EXCEPT !.admins = @ \cup {i}] /\ Goto(i, "readSecrets")
  /\ UNCHANGED <<config, tokens, lock>> /\ UNCHANGED History

\* write_lock_file, and the page that shows the token once.
WriteLock(i) ==
  /\ At(i, "lock")
  /\ lock' = TRUE
  /\ shown' = IF job[i].token THEN shown \cup {i} ELSE shown
  /\ job' = [job EXCEPT ![i] = Idle]
  /\ UNCHANGED <<config, database, tokens, stops, overlapped, torn>>

-----------------------------------------------------------------------------

\* The visitor closes the page, so that the handler ends where it awaits the
\* database; or a statement fails, or a file cannot be read or opened.
Abort(i) ==
  /\ i \in Running /\ job[i].step \notin Writing /\ stops < MaxStops
  /\ Fail(i)
  /\ stops' = stops + 1
  /\ UNCHANGED <<config, database, tokens, lock, shown, overlapped, torn>>

\* What a rewrite cut short leaves of the content: a define that was cut is no
\* define, a character that was cut makes the file unreadable.
Remains(content) ==
  {c \in Secrets : c.key \in {"none", content.key} /\ c.hash \in {"none", content.hash}}

\* fs::write of the config fails after it truncated the file (the disk is full)
\* and the handler returns ConfigWriteFailed; nothing puts the old file back.
WriteFails(i) ==
  /\ job[i].step \in Writing /\ stops < MaxStops
  /\ config' \in Remains(job[i].content)
  /\ Fail(i)
  /\ stops' = stops + 1 /\ torn' = TRUE
  /\ UNCHANGED <<database, tokens, lock, shown, overlapped>>

\* The same in write_lock_file: the file is there, the token is not shown.
LockFails(i) ==
  /\ At(i, "lock") /\ stops < MaxStops
  /\ lock' = TRUE
  /\ Fail(i)
  /\ stops' = stops + 1
  /\ UNCHANGED <<config, database, tokens, shown, overlapped, torn>>

\* The process dies, with every installer in it, and is started again.
Crash ==
  LET writers == {i \in Installers : job[i].step \in Writing} IN
  /\ Running # {} /\ stops < MaxStops
  /\ config' \in {config} \cup UNION {Remains(job[i].content) : i \in writers}
  /\ job' = [i \in Installers |-> Idle]
  /\ stops' = stops + 1
  /\ torn' = (torn \/ writers # {})
  /\ UNCHANGED <<database, tokens, lock, shown, overlapped>>

Step(i) ==
  \/ Prepare(i) \/ ReadConfig(i) \/ OpenConfig(i) \/ WriteConfig(i) \/ SystemKey(i)
  \/ ReadFails(i) \/ Schema(i)
  \/ InspectColumn(i) \/ InspectForeignKey(i) \/ DropForeignKey(i)
  \/ ModifyColumn(i) \/ RestoreForeignKey(i)
  \/ InspectSettings(i) \/ AddSettings(i)
  \/ SelectCards(i) \/ ClearCard(i) \/ InsertChunk(i) \/ CardDone(i)
  \/ CardsDone(i)
  \/ InspectAdmin(i) \/ AddAdmin(i)
  \/ WriteLock(i)

Next ==
  \/ \E i \in Installers : Begin(i) \/ Step(i) \/ Abort(i) \/ WriteFails(i) \/ LockFails(i)
  \/ Crash

\* A request that was begun is driven to its end by the runtime; an operator
\* who has no installed system begins again.
Fairness ==
  \A i \in Installers : WF_vars(Step(i)) /\ WF_vars(~lock /\ Begin(i))

Spec == Init /\ [][Next]_vars /\ Fairness

-----------------------------------------------------------------------------
(* Properties *)

\* The SYS_KEY under which the cards of the database are encrypted is lost
\* from the config only while it is being rewritten, after a rewrite was cut
\* short (it failed, or the process died in it), or when two installers
\* rewrote it at once.
SystemKeySurvives ==
  config.key # "first" =>
    torn \/ overlapped \/ \E i \in Installers : job[i].step \in Writing

\* The foreign key dropped around a column change is missing only while the
\* change runs, or because one was interrupted (nothing restores it then).
ForeignKeyRestored ==
  database.tables = Statements /\ ~database.foreignKey =>
    stops > 0 \/ \E i \in Installers : job[i].step \in {"modify", "restore"}

\* A card has some of its search tokens but not all of them only while an
\* installer writes them, or because one was interrupted: no later backfill
\* selects that card.
IndexedWhole ==
  \A c \in Cards : tokens[c] \notin {{}, Whole} =>
    stops > 0 \/ \E i \in Installers : c \in job[i].at

\* The lock stands for a finished installation: schema, settings row, one
\* operator and the secrets are there, whatever was interrupted and begun
\* again before. (Two installers that overlap may each create an operator, and
\* one may write the config back without the other's secrets; a rewrite of
\* the config that was cut short, also by a later installation, may lose the
\* secrets and leaves the lock.)
LockMeansInstalled ==
  lock =>
    /\ database.tables = Statements /\ database.nullable /\ database.settings
    /\ \E i \in Installers : \/ database.admins = {i}
                              \/ (overlapped /\ i \in database.admins)
    /\ \/ config.key # "none" /\ config.hash # "none"
       \/ torn \/ overlapped \/ \E i \in Installers : job[i].step \in Writing

\* The admin token an installer was shown is the one the config accepts, unless
\* a rewrite of the config was cut short or two installers ran at once.
ShownTokenWorks ==
  \A i \in shown : config.hash = i \/ torn \/ overlapped
                     \/ \E j \in Installers : job[j].step \in Writing

\* Once nothing interrupts it any more an installation completes, unless an
\* interruption left a config without the SYS_KEY of the cards (then no
\* migration can pass the backfill) or one that cannot be read.
InstallCompletes == <>lock \/ <>[](config.key # "first" \/ ~config.text)
=============================================================================
