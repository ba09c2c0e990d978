-------------------------- MODULE Installer_proofs --------------------------
(***************************************************************************)
(* Proofs about Installer: its types and its safety properties, for any     *)
(* number of installers, statements, cards and interruptions.  The          *)
(* inductive invariant is in five parts:                                    *)
(*   Progress      what is committed once an installer is past a step       *)
(*   OneAccount    installers that do not overlap are alone, and only the   *)
(*                 first adds an operator                                   *)
(*   SecretsHeld   the secrets of config/local.php are, while the file is   *)
(*                 rewritten, in the hands of the one who rewrites it       *)
(*   ForeignKeyHeld  whoever dropped the foreign key is on its way to       *)
(*                 restore it                                               *)
(*   IndexHeld     of the installers that write tokens of one card, the     *)
(*                 last to have cleared it has all it wrote in the table    *)
(* Of the liveness of Installer (InstallCompletes) this module proves what  *)
(* does not need fairness: every step brings its installer nearer to its    *)
(* end, and one that runs alone and untorn ends only by writing the lock    *)
(* (invariant LoneCourse).                                                  *)
(***************************************************************************)
EXTENDS Installer, TLAPS

Keys == {"none", "first", "other"}

Jobs == [step : Steps, content : Secrets, key : Keys, hadKey : BOOLEAN,
         todo : SUBSET Cards, at : SUBSET Cards, chunk : 0..Chunks,
         token : BOOLEAN]

Databases == [tables : 0..Statements, nullable : BOOLEAN, foreignKey : BOOLEAN,
              settings : BOOLEAN, admins : SUBSET Installers]

AfterAdmin == {"readSecrets", "openSecrets", "writeSecrets", "lock"}
AfterSettings == AfterAdmin \cup {"cards", "clear", "insert", "admin", "addAdmin"}
AfterColumn == AfterSettings \cup {"restore", "settings", "addSettings"}
AfterSchema == AfterColumn \cup {"column", "foreignKey", "dropKey", "modify"}

Progress ==
  /\ \A i \in Installers :
       /\ job[i].step \in AfterSchema => database.tables = Statements
       /\ job[i].step \in AfterColumn => database.nullable
       /\ job[i].step \in AfterSettings => database.settings
       /\ job[i].step \in AfterAdmin => database.admins # {}
  /\ lock => /\ database.tables = Statements /\ database.nullable
             /\ database.settings /\ database.admins # {}

OneAccount ==
  ~overlapped =>
    /\ \A i, j \in Installers :
         job[i].step # "idle" /\ job[j].step # "idle" => i = j
    /\ \A i \in Installers : job[i].step = "addAdmin" => database.admins = {}
    /\ database.admins = {} \/ \E i \in Installers : database.admins = {i}

Held(secrets) ==
  /\ secrets.key = "first" /\ secrets.text
  /\ lock => secrets.hash # "none"
  /\ \A i \in shown : secrets.hash = i

SecretsHeld ==
  ~torn /\ ~overlapped =>
    /\ (\A i \in Installers : job[i].step \notin Writing) => Held(config)
    /\ \A i \in Installers :
         /\ job[i].step \in {"openDb", "writeDb", "openSecrets", "writeSecrets"}
              => Held(job[i].content)
         /\ job[i].step \in {"openSecrets", "writeSecrets"}
              => /\ job[i].content.hash # "none"
                 /\ job[i].token => job[i].content.hash = i
         /\ job[i].step = "lock"
              => config.hash # "none" /\ (job[i].token => config.hash = i)

ForeignKeyHeld ==
  stops = 0 /\ database.tables = Statements /\ ~database.foreignKey =>
    \E i \in Installers :
      \/ job[i].step = "restore"
      \/ job[i].step = "modify" /\ job[i].hadKey

IndexHeld ==
  /\ \A i \in Installers :
       /\ job[i].step # "insert" => job[i].at = {} /\ job[i].chunk = 0
       /\ \A c, d \in job[i].at : c = d
  /\ stops = 0 =>
       \A c \in Cards :
         \/ tokens[c] = Whole
         \/ \E i \in Installers : c \in job[i].at /\ 1..job[i].chunk \subseteq tokens[c]
         \/ tokens[c] = {} /\ \A i \in Installers : c \notin job[i].at

InstallerInv ==
  TypeOK /\ Progress /\ OneAccount /\ SecretsHeld /\ ForeignKeyHeld /\ IndexHeld

-----------------------------------------------------------------------------
(* The constants and the records.                                           *)

LEMMA Counts == /\ Statements \in Nat /\ Statements > 0
                /\ Chunks \in Nat /\ Chunks > 0 /\ MaxStops \in Nat
BY InstallerAssumption

LEMMA NamesDiffer == "none" \notin Installers /\ "first" \notin Installers
BY InstallerAssumption

LEMMA IdleJob ==
  /\ Idle \in Jobs /\ Idle.step = "idle" /\ Idle.at = {} /\ Idle.chunk = 0
  /\ Nothing \in Secrets
BY Counts DEF Idle, Jobs, Steps, Secrets, Nothing, Keys, Writing

LEMMA Types ==
  TypeOK <=> /\ config \in Secrets /\ database \in Databases
             /\ tokens \in [Cards -> SUBSET Whole]
             /\ job \in [Installers -> Jobs]
             /\ shown \subseteq Installers /\ stops \in 0..MaxStops
             /\ lock \in BOOLEAN /\ overlapped \in BOOLEAN /\ torn \in BOOLEAN
BY DEF TypeOK, Jobs, Keys, Databases

(* A step that rewrites the job of one installer leaves the others alone.   *)
LEMMA JobWritten ==
  ASSUME TypeOK, NEW i \in Installers, NEW r \in Jobs, job' = [job EXCEPT ![i] = r]
  PROVE  /\ job' \in [Installers -> Jobs]
         /\ job'[i] = r
         /\ \A j \in Installers : j # i => job'[j] = job[j]
BY Types

LEMMA JobStepped ==
  ASSUME TypeOK, NEW i \in Installers, NEW s \in Steps, Goto(i, s)
  PROVE  /\ job' \in [Installers -> Jobs]
         /\ job'[i] = [job[i] EXCEPT !.step = s]
         /\ job'[i].step = s /\ job'[i].content = job[i].content
         /\ job'[i].key = job[i].key /\ job'[i].hadKey = job[i].hadKey
         /\ job'[i].todo = job[i].todo /\ job'[i].at = job[i].at
         /\ job'[i].chunk = job[i].chunk /\ job'[i].token = job[i].token
         /\ \A j \in Installers : j # i => job'[j] = job[j]
<1>1. job[i] \in Jobs
  BY Types
<1>2. [job[i] EXCEPT !.step = s] \in Jobs
  BY <1>1 DEF Jobs
<1>3. job' = [job EXCEPT ![i] = [job[i] EXCEPT !.step = s]]
  BY DEF Goto
<1> QED
  BY <1>1, <1>2, <1>3, JobWritten DEF Jobs

LEMMA JobFailed ==
  ASSUME TypeOK, NEW i \in Installers, Fail(i)
  PROVE  /\ job' \in [Installers -> Jobs]
         /\ job'[i] = Idle
         /\ \A j \in Installers : j # i => job'[j] = job[j]
BY IdleJob, JobWritten DEF Fail

-----------------------------------------------------------------------------
(* Steps                                                                    *)

(* A step of one installer that leaves files and database alone keeps the   *)
(* invariant, provided the place it comes to is one it may come to.         *)
LEMMA Moved ==
  ASSUME InstallerInv, NEW i \in Installers, NEW r \in Jobs,
         job' = [job EXCEPT ![i] = r],
         UNCHANGED <<config, database, tokens, lock, shown, stops, overlapped, torn>>,
         job[i].step \notin Writing, r.step \notin Writing,
         r.step # "idle" => job[i].step # "idle",
         r.step \in AfterSchema => database.tables = Statements,
         r.step \in AfterColumn => database.nullable,
         r.step \in AfterSettings => database.settings,
         r.step \in AfterAdmin => database.admins # {},
         r.step = "addAdmin" => database.admins = {},
         ~torn /\ ~overlapped =>
           /\ r.step \in {"openDb", "openSecrets"} => Held(r.content)
           /\ r.step = "openSecrets" =>
                r.content.hash # "none" /\ (r.token => r.content.hash = i)
           /\ r.step = "lock" => config.hash # "none" /\ (r.token => config.hash = i),
         job[i].step = "restore" \/ (job[i].step = "modify" /\ job[i].hadKey)
           => database.foreignKey,
         r.at = job[i].at, r.chunk = job[i].chunk,
         r.step # "insert" => r.at = {} /\ r.chunk = 0
  PROVE  InstallerInv'
<1>1. /\ job' \in [Installers -> Jobs] /\ job'[i] = r
      /\ \A j \in Installers : j # i => job'[j] = job[j]
  BY JobWritten DEF InstallerInv
<1>2. TypeOK'
  BY <1>1, Types DEF InstallerInv, TypeOK, Jobs, Keys
<1>3. Progress'
  BY <1>1 DEF InstallerInv, Progress
<1>4. OneAccount'
  BY <1>1 DEF InstallerInv, OneAccount
<1>5. SecretsHeld'
  <2>1. \A s : Held(s)' <=> Held(s)
    BY DEF Held
  <2>2. ASSUME ~torn, ~overlapped, \A j \in Installers : job'[j].step \notin Writing
        PROVE  Held(config)
    BY <1>1, <2>2 DEF InstallerInv, SecretsHeld
  <2> QED
    BY <1>1, <2>1, <2>2 DEF InstallerInv, SecretsHeld, Held, Writing
<1>6. ForeignKeyHeld'
  BY <1>1 DEF InstallerInv, ForeignKeyHeld
<1>7. IndexHeld'
  BY <1>1 DEF InstallerInv, IndexHeld
<1> QED
  BY <1>2, <1>3, <1>4, <1>5, <1>6, <1>7 DEF InstallerInv

(* The steps that only look.                                                *)

LEMMA PrepareKeeps ==
  ASSUME InstallerInv, NEW i \in Installers, Prepare(i)
  PROVE  InstallerInv'
<1> DEFINE r == [job[i] EXCEPT !.step = "readDb"]
<1>1. job[i] \in Jobs /\ job[i].step = "prepare"
  BY Types DEF InstallerInv, Prepare, At
<1>2. r \in Jobs /\ r.step = "readDb" /\ r.at = job[i].at /\ r.chunk = job[i].chunk
  BY <1>1 DEF Jobs, Steps
<1>3. job' = [job EXCEPT ![i] = r] /\ UNCHANGED <<config, database, tokens, lock, shown, stops, overlapped, torn>>
  BY DEF Prepare, Goto, History
<1>4. r.at = {} /\ r.chunk = 0
  BY <1>1, <1>2 DEF InstallerInv, IndexHeld
<1> QED
  BY <1>1, <1>2, <1>3, <1>4, Moved
     DEF Writing, AfterSchema, AfterColumn, AfterSettings, AfterAdmin

LEMMA ReadConfigKeeps ==
  ASSUME InstallerInv, NEW i \in Installers, ReadConfig(i)
  PROVE  InstallerInv'
<1>1. /\ job[i] \in Jobs /\ config \in Secrets
      /\ job[i].step \in {"readDb", "readSecrets"}
      /\ job[i].at = {} /\ job[i].chunk = 0
  BY Types DEF InstallerInv, ReadConfig, IndexHeld
<1> DEFINE secrets == WithSecrets(config, i)
           db == [job[i] EXCEPT !.step = "openDb", !.content = config]
           sec == [job[i] EXCEPT !.step = IF secrets = config THEN "lock" ELSE "openSecrets",
                                 !.content = secrets,
                                 !.token = TokenShown(config, secrets)]
           r == IF job[i].step = "readDb" THEN db ELSE sec
<1>2. /\ secrets \in Secrets /\ secrets.hash # "none"
      /\ config.key = "first" => secrets.key = "first"
      /\ secrets.text
      /\ config.hash # "none" => secrets.hash = config.hash
      /\ config.hash = "none" => secrets.hash = i
  BY <1>1, NamesDiffer DEF WithSecrets, Secrets
<1>3. TokenShown(config, secrets) \in BOOLEAN
      /\ (TokenShown(config, secrets) => secrets.hash = i /\ secrets # config)
  BY <1>1, <1>2 DEF TokenShown
<1>4. /\ db \in Jobs /\ db.step = "openDb" /\ db.content = config
      /\ db.at = job[i].at /\ db.chunk = job[i].chunk
  BY <1>1 DEF Jobs, Steps
<1>5. /\ sec \in Jobs /\ sec.step = IF secrets = config THEN "lock" ELSE "openSecrets"
      /\ sec.content = secrets /\ sec.token = TokenShown(config, secrets)
      /\ sec.at = job[i].at /\ sec.chunk = job[i].chunk
  BY <1>1, <1>2, <1>3 DEF Jobs, Steps
<1>6. job' = [job EXCEPT ![i] = r] /\ UNCHANGED <<config, database, tokens, lock, shown, stops, overlapped, torn>>
  BY <1>1 DEF ReadConfig, At, History
<1>7. ASSUME ~torn, ~overlapped
      PROVE  Held(config) /\ Held(secrets)
  <2>1. \A j \in Installers : job[j].step \notin Writing
    BY <1>1, <1>7 DEF InstallerInv, OneAccount, Writing
  <2>2. Held(config)
    BY <1>7, <2>1 DEF InstallerInv, SecretsHeld
  <2>3. shown \subseteq Installers
    BY Types DEF InstallerInv
  <2> QED
    BY <1>2, <2>2, <2>3, NamesDiffer DEF Held
<1>8. job[i].step = "readSecrets" =>
        /\ database.tables = Statements /\ database.nullable
        /\ database.settings /\ database.admins # {}
  BY DEF InstallerInv, Progress, AfterSchema, AfterColumn, AfterSettings, AfterAdmin
<1>9. r \in Jobs /\ r.at = {} /\ r.chunk = 0
  BY <1>1, <1>4, <1>5
<1>10. CASE job[i].step = "readDb"
  BY <1>1, <1>4, <1>6, <1>7, <1>9, <1>10, Moved
     DEF Writing, AfterSchema, AfterColumn, AfterSettings, AfterAdmin
<1>11. CASE job[i].step = "readSecrets"
  <2>1. r = sec /\ r.step \in {"lock", "openSecrets"}
    BY <1>5, <1>11
  <2>2. r.step = "lock" => config.hash # "none" /\ ~r.token
    BY <1>2, <1>3, <1>5, <2>1
  <2>3. r.content.hash # "none" /\ (r.token => r.content.hash = i)
    BY <1>2, <1>3, <1>5, <2>1
  <2>4. r.step \notin Writing /\ r.step # "openDb" /\ r.step # "addAdmin" /\ r.step # "insert"
    BY <2>1 DEF Writing
  <2>5. /\ job[i].step \notin Writing /\ job[i].step # "idle"
        /\ job[i].step # "restore" /\ job[i].step # "modify"
    BY <1>11 DEF Writing
  <2>6. ~torn /\ ~overlapped => Held(r.content)
    BY <1>5, <1>7, <2>1
  <2>7. /\ database.tables = Statements /\ database.nullable
        /\ database.settings /\ database.admins # {}
        /\ r.at = job[i].at /\ r.chunk = job[i].chunk
    BY <1>1, <1>8, <1>9, <1>11
  <2> HIDE DEF r
  <2> QED
    BY <1>6, <1>9, <2>2, <2>3, <2>4, <2>5, <2>6, <2>7, Moved
<1> QED
  BY <1>1, <1>10, <1>11

LEMMA SystemKeyKeeps ==
  ASSUME InstallerInv, NEW i \in Installers, SystemKey(i)
  PROVE  InstallerInv'
<1> DEFINE r == [job[i] EXCEPT !.step = "schema", !.key = config.key]
<1>1. /\ job[i] \in Jobs /\ job[i].step = "systemKey" /\ config.key \in Keys
      /\ job[i].at = {} /\ job[i].chunk = 0
  BY Types DEF InstallerInv, SystemKey, At, IndexHeld, Secrets, Keys
<1>2. r \in Jobs /\ r.step = "schema" /\ r.at = job[i].at /\ r.chunk = job[i].chunk
  BY <1>1 DEF Jobs, Steps
<1>3. job' = [job EXCEPT ![i] = r] /\ UNCHANGED <<config, database, tokens, lock, shown, stops, overlapped, torn>>
  BY DEF SystemKey, History
<1> QED
  BY <1>1, <1>2, <1>3, Moved
     DEF Writing, AfterSchema, AfterColumn, AfterSettings, AfterAdmin

LEMMA InspectColumnKeeps ==
  ASSUME InstallerInv, NEW i \in Installers, InspectColumn(i)
  PROVE  InstallerInv'
<1> DEFINE s == IF database.nullable THEN "settings" ELSE "foreignKey"
           r == [job[i] EXCEPT !.step = s]
<1>1. job[i] \in Jobs /\ job[i].step = "column" /\ job[i].at = {} /\ job[i].chunk = 0
  BY Types DEF InstallerInv, InspectColumn, At, IndexHeld
<1>2. r \in Jobs /\ r.step = s /\ r.at = job[i].at /\ r.chunk = job[i].chunk
  BY <1>1 DEF Jobs, Steps
<1>3. job' = [job EXCEPT ![i] = r] /\ UNCHANGED <<config, database, tokens, lock, shown, stops, overlapped, torn>>
  BY DEF InspectColumn, Goto, History
<1>4. /\ job[i].step \in AfterSchema => database.tables = Statements
      /\ job[i].step \in AfterColumn => database.nullable
      /\ job[i].step \in AfterSettings => database.settings
  BY DEF InstallerInv, Progress
<1> HIDE DEF r
<1> QED
  BY <1>1, <1>2, <1>3, <1>4, Moved
     DEF Writing, AfterSchema, AfterColumn, AfterSettings, AfterAdmin

LEMMA InspectForeignKeyKeeps ==
  ASSUME InstallerInv, NEW i \in Installers, InspectForeignKey(i)
  PROVE  InstallerInv'
<1> DEFINE s == IF database.foreignKey THEN "dropKey" ELSE "modify"
           r == [job[i] EXCEPT !.step = s]
<1>1. job[i] \in Jobs /\ job[i].step = "foreignKey" /\ job[i].at = {} /\ job[i].chunk = 0
  BY Types DEF InstallerInv, InspectForeignKey, At, IndexHeld
<1>2. r \in Jobs /\ r.step = s /\ r.at = job[i].at /\ r.chunk = job[i].chunk
  BY <1>1 DEF Jobs, Steps
<1>3. job' = [job EXCEPT ![i] = r] /\ UNCHANGED <<config, database, tokens, lock, shown, stops, overlapped, torn>>
  BY DEF InspectForeignKey, Goto, History
<1>4. /\ job[i].step \in AfterSchema => database.tables = Statements
      /\ job[i].step \in AfterColumn => database.nullable
      /\ job[i].step \in AfterSettings => database.settings
  BY DEF InstallerInv, Progress
<1> HIDE DEF r
<1> QED
  BY <1>1, <1>2, <1>3, <1>4, Moved
     DEF Writing, AfterSchema, AfterColumn, AfterSettings, AfterAdmin

LEMMA InspectSettingsKeeps ==
  ASSUME InstallerInv, NEW i \in Installers, InspectSettings(i)
  PROVE  InstallerInv'
<1> DEFINE s == IF database.settings THEN "cards" ELSE "addSettings"
           r == [job[i] EXCEPT !.step = s]
<1>1. job[i] \in Jobs /\ job[i].step = "settings" /\ job[i].at = {} /\ job[i].chunk = 0
  BY Types DEF InstallerInv, InspectSettings, At, IndexHeld
<1>2. r \in Jobs /\ r.step = s /\ r.at = job[i].at /\ r.chunk = job[i].chunk
  BY <1>1 DEF Jobs, Steps
<1>3. job' = [job EXCEPT ![i] = r] /\ UNCHANGED <<config, database, tokens, lock, shown, stops, overlapped, torn>>
  BY DEF InspectSettings, Goto, History
<1>4. /\ job[i].step \in AfterSchema => database.tables = Statements
      /\ job[i].step \in AfterColumn => database.nullable
      /\ job[i].step \in AfterSettings => database.settings
  BY DEF InstallerInv, Progress
<1> HIDE DEF r
<1> QED
  BY <1>1, <1>2, <1>3, <1>4, Moved
     DEF Writing, AfterSchema, AfterColumn, AfterSettings, AfterAdmin

LEMMA InspectAdminKeeps ==
  ASSUME InstallerInv, NEW i \in Installers, InspectAdmin(i)
  PROVE  InstallerInv'
<1> DEFINE s == IF database.admins = {} THEN "addAdmin" ELSE "readSecrets"
           r == [job[i] EXCEPT !.step = s]
<1>1. job[i] \in Jobs /\ job[i].step = "admin" /\ job[i].at = {} /\ job[i].chunk = 0
  BY Types DEF InstallerInv, InspectAdmin, At, IndexHeld
<1>2. r \in Jobs /\ r.step = s /\ r.at = job[i].at /\ r.chunk = job[i].chunk
  BY <1>1 DEF Jobs, Steps
<1>3. job' = [job EXCEPT ![i] = r] /\ UNCHANGED <<config, database, tokens, lock, shown, stops, overlapped, torn>>
  BY DEF InspectAdmin, Goto, History
<1>4. /\ job[i].step \in AfterSchema => database.tables = Statements
      /\ job[i].step \in AfterColumn => database.nullable
      /\ job[i].step \in AfterSettings => database.settings
  BY DEF InstallerInv, Progress
<1> HIDE DEF r
<1> QED
  BY <1>1, <1>2, <1>3, <1>4, Moved
     DEF Writing, AfterSchema, AfterColumn, AfterSettings, AfterAdmin

LEMMA SelectCardsKeeps ==
  ASSUME InstallerInv, NEW i \in Installers, SelectCards(i)
  PROVE  InstallerInv'
<1>1. job[i] \in Jobs /\ job[i].step = "cards" /\ job[i].at = {} /\ job[i].chunk = 0
  BY Types DEF InstallerInv, SelectCards, At, IndexHeld
<1>2. PICK batch \in SUBSET {c \in Cards : tokens[c] = {}} :
        job' = [job EXCEPT ![i].todo = IF job[i].key = "none" THEN {} ELSE batch,
                           ![i].step = "clear"]
  BY DEF SelectCards
<1> DEFINE r == [job[i] EXCEPT !.todo = IF job[i].key = "none" THEN {} ELSE batch,
                               !.step = "clear"]
<1>3. r \in Jobs /\ r.step = "clear" /\ r.at = job[i].at /\ r.chunk = job[i].chunk
  BY <1>1 DEF Jobs, Steps
<1>4. job' = [job EXCEPT ![i] = r] /\ UNCHANGED <<config, database, tokens, lock, shown, stops, overlapped, torn>>
  BY <1>1, <1>2, Types DEF SelectCards, History, InstallerInv
<1>5. database.tables = Statements /\ database.nullable /\ database.settings
  BY <1>1 DEF InstallerInv, Progress, AfterSchema, AfterColumn, AfterSettings
<1> HIDE DEF r
<1> QED
  BY <1>1, <1>3, <1>4, <1>5, Moved
     DEF Writing, AfterSchema, AfterColumn, AfterSettings, AfterAdmin

LEMMA CardsDoneKeeps ==
  ASSUME InstallerInv, NEW i \in Installers, CardsDone(i)
  PROVE  InstallerInv'
<1> DEFINE r == [job[i] EXCEPT !.step = "admin"]
<1>1. job[i] \in Jobs /\ job[i].step = "clear" /\ job[i].at = {} /\ job[i].chunk = 0
  BY Types DEF InstallerInv, CardsDone, At, IndexHeld
<1>2. r \in Jobs /\ r.step = "admin" /\ r.at = job[i].at /\ r.chunk = job[i].chunk
  BY <1>1 DEF Jobs, Steps
<1>3. job' = [job EXCEPT ![i] = r] /\ UNCHANGED <<config, database, tokens, lock, shown, stops, overlapped, torn>>
  BY DEF CardsDone, Goto, History
<1>4. database.tables = Statements /\ database.nullable /\ database.settings
  BY <1>1 DEF InstallerInv, Progress, AfterSchema, AfterColumn, AfterSettings
<1> QED
  BY <1>1, <1>2, <1>3, <1>4, Moved
     DEF Writing, AfterSchema, AfterColumn, AfterSettings, AfterAdmin

(* A step that fails, anywhere outside the insertion of tokens.             *)
LEMMA FailureKeeps ==
  ASSUME InstallerInv, NEW i \in Installers, Fail(i), UNCHANGED <<config, database, tokens, lock, shown, stops, overlapped, torn>>,
         job[i].step \notin Writing, job[i].step # "insert",
         job[i].step = "restore" => database.foreignKey,
         job[i].step # "modify"
  PROVE  InstallerInv'
<1>1. job' = [job EXCEPT ![i] = Idle]
  BY DEF Fail
<1>2. job[i].at = {} /\ job[i].chunk = 0
  BY DEF InstallerInv, IndexHeld
<1> QED
  BY <1>1, <1>2, IdleJob, Moved
     DEF Writing, AfterSchema, AfterColumn, AfterSettings, AfterAdmin

(* A step that commits a statement.  The database only gains; the foreign   *)
(* key, which a statement may drop, is left to somebody who restores it.    *)
LEMMA Committed ==
  ASSUME InstallerInv, NEW i \in Installers, NEW r \in Jobs,
         job' = [job EXCEPT ![i] = r], database' \in Databases, UNCHANGED <<config, tokens, lock, shown, stops, overlapped, torn>>,
         job[i].step \notin Writing, job[i].step # "idle", r.step \notin Writing,
         r.step \notin {"idle", "openDb", "openSecrets", "lock", "addAdmin"},
         database.tables = Statements => database'.tables = Statements,
         database.nullable => database'.nullable,
         database.settings => database'.settings,
         \/ database'.admins = database.admins
         \/ /\ job[i].step = "addAdmin"
            /\ database'.admins = database.admins \cup {i},
         r.step \in AfterSchema => database'.tables = Statements,
         r.step \in AfterColumn => database'.nullable,
         r.step \in AfterSettings => database'.settings,
         r.step \in AfterAdmin => database'.admins # {},
         database'.tables = Statements /\ ~database'.foreignKey =>
           \/ r.step = "restore" \/ (r.step = "modify" /\ r.hadKey)
           \/ /\ database.tables = Statements /\ ~database.foreignKey
              /\ job[i].step # "restore" /\ ~(job[i].step = "modify" /\ job[i].hadKey),
         r.at = job[i].at, r.chunk = job[i].chunk,
         r.step # "insert" => r.at = {} /\ r.chunk = 0
  PROVE  InstallerInv'
<1>1. /\ job' \in [Installers -> Jobs] /\ job'[i] = r
      /\ \A j \in Installers : j # i => job'[j] = job[j]
  BY JobWritten DEF InstallerInv
<1>2. TypeOK'
  BY <1>1, Types DEF InstallerInv, TypeOK, Jobs, Keys, Databases
<1>3. Progress'
  BY <1>1 DEF InstallerInv, Progress
<1>4. OneAccount'
  <2>1. ASSUME ~overlapped
        PROVE  database'.admins = {} \/ \E j \in Installers : database'.admins = {j}
    BY <2>1 DEF InstallerInv, OneAccount
  <2>2. ASSUME ~overlapped, NEW j \in Installers
        PROVE  job'[j].step # "addAdmin"
    <3>1. CASE j = i
      BY <1>1, <3>1
    <3>2. CASE j # i
      BY <1>1, <2>2, <3>2 DEF InstallerInv, OneAccount
    <3> QED
      BY <3>1, <3>2
  <2>3. ASSUME ~overlapped, NEW j \in Installers, NEW k \in Installers,
               job'[j].step # "idle", job'[k].step # "idle"
        PROVE  j = k
    BY <1>1, <2>3 DEF InstallerInv, OneAccount
  <2> QED
    BY <2>1, <2>2, <2>3 DEF OneAccount
<1>5. SecretsHeld'
  <2>1. \A s : Held(s)' <=> Held(s)
    BY DEF Held
  <2>2. ASSUME ~torn, ~overlapped, \A j \in Installers : job'[j].step \notin Writing
        PROVE  Held(config)
    BY <1>1, <2>2 DEF InstallerInv, SecretsHeld
  <2> QED
    BY <1>1, <2>1, <2>2 DEF InstallerInv, SecretsHeld, Held, Writing
<1>6. ForeignKeyHeld'
  BY <1>1 DEF InstallerInv, ForeignKeyHeld
<1>7. IndexHeld'
  BY <1>1 DEF InstallerInv, IndexHeld
<1> QED
  BY <1>2, <1>3, <1>4, <1>5, <1>6, <1>7 DEF InstallerInv

LEMMA SchemaKeeps ==
  ASSUME InstallerInv, NEW i \in Installers, Schema(i)
  PROVE  InstallerInv'
<1>1. /\ job[i] \in Jobs /\ job[i].step = "schema" /\ job[i].at = {} /\ job[i].chunk = 0
      /\ database \in Databases /\ job \in [Installers -> Jobs]
  BY Types DEF InstallerInv, Schema, At, IndexHeld
<1>2. CASE database.tables < Statements
  <2>1. /\ database' = [database EXCEPT !.tables = database.tables + 1,
               !.foreignKey = database.foreignKey \/ database.tables + 1 = Statements]
        /\ UNCHANGED <<config, tokens, lock, shown, stops, overlapped, torn>> /\ job' = job
    BY <1>2 DEF Schema, History
  <2> DEFINE held == database.foreignKey \/ database.tables + 1 = Statements
             d == [database EXCEPT !.tables = database.tables + 1, !.foreignKey = held]
  <2>2. /\ database.tables \in 0..Statements /\ database.tables + 1 \in 0..Statements
        /\ held \in BOOLEAN
    BY <1>1, <1>2, Counts DEF Databases
  <2>3. database.tables + 1 = Statements => held
    OBVIOUS
  <2> HIDE DEF held
  <2>4. /\ d \in Databases /\ d.tables = database.tables + 1 /\ d.foreignKey = held
        /\ d.nullable = database.nullable /\ d.settings = database.settings
        /\ d.admins = database.admins
    BY <1>1, <2>2 DEF Databases
  <2>5. database' = d
    BY <2>1 DEF held
  <2>6. /\ database' \in Databases /\ database'.tables = database.tables + 1
        /\ database'.nullable = database.nullable /\ database'.settings = database.settings
        /\ database'.admins = database.admins
        /\ database'.tables = Statements => database'.foreignKey
    <3> HIDE DEF d
    <3> QED
      BY <2>3, <2>4, <2>5
  <2> HIDE DEF d
  <2>7. job' = [job EXCEPT ![i] = job[i]]
    BY <1>1, <2>1
  <2>8. database.tables # Statements
    BY <1>1, <1>2, Counts DEF Databases
  <2> QED
    BY <1>1, <2>1, <2>6, <2>7, <2>8, Committed
       DEF Writing, AfterSchema, AfterColumn, AfterSettings, AfterAdmin
<1>3. CASE ~(database.tables < Statements)
  <2> DEFINE r == [job[i] EXCEPT !.step = "column"]
  <2>1. database.tables = Statements
    BY <1>1, <1>3, Counts DEF Databases
  <2>2. job' = [job EXCEPT ![i] = r] /\ UNCHANGED <<config, database, tokens, lock, shown, stops, overlapped, torn>>
    BY <1>3 DEF Schema, Goto, History
  <2>3. r \in Jobs /\ r.step = "column" /\ r.at = job[i].at /\ r.chunk = job[i].chunk
    BY <1>1 DEF Jobs, Steps
  <2> HIDE DEF r
  <2> QED
    BY <1>1, <2>1, <2>2, <2>3, Moved
       DEF Writing, AfterSchema, AfterColumn, AfterSettings, AfterAdmin
<1> QED
  BY <1>2, <1>3

LEMMA DropForeignKeyKeeps ==
  ASSUME InstallerInv, NEW i \in Installers, DropForeignKey(i)
  PROVE  InstallerInv'
<1>1. /\ job[i] \in Jobs /\ job[i].step = "dropKey" /\ job[i].at = {} /\ job[i].chunk = 0
      /\ database \in Databases /\ job \in [Installers -> Jobs]
      /\ database.tables = Statements
  BY Types DEF InstallerInv, DropForeignKey, At, IndexHeld, Progress, AfterSchema
<1>2. CASE database.foreignKey
  <2> DEFINE r == [job[i] EXCEPT !.step = "modify", !.hadKey = TRUE]
  <2>1. /\ database' = [database EXCEPT !.foreignKey = FALSE] /\ UNCHANGED <<config, tokens, lock, shown, stops, overlapped, torn>>
        /\ job' = [job EXCEPT ![i] = r]
    BY <1>1, <1>2 DEF DropForeignKey, History
  <2>2. /\ r \in Jobs /\ r.step = "modify" /\ r.hadKey
        /\ r.at = job[i].at /\ r.chunk = job[i].chunk
    BY <1>1 DEF Jobs, Steps
  <2>3. /\ database' \in Databases /\ database'.tables = database.tables
        /\ database'.nullable = database.nullable /\ database'.settings = database.settings
        /\ database'.admins = database.admins
    BY <1>1, <2>1 DEF Databases
  <2> HIDE DEF r
  <2> QED
    BY <1>1, <2>1, <2>2, <2>3, Committed
       DEF Writing, AfterSchema, AfterColumn, AfterSettings, AfterAdmin
<1>3. CASE ~database.foreignKey
  BY <1>1, <1>3, FailureKeeps DEF DropForeignKey, History, Writing
<1> QED
  BY <1>2, <1>3

LEMMA ModifyColumnKeeps ==
  ASSUME InstallerInv, NEW i \in Installers, ModifyColumn(i)
  PROVE  InstallerInv'
<1>1. /\ job[i] \in Jobs /\ job[i].step = "modify" /\ job[i].at = {} /\ job[i].chunk = 0
      /\ database \in Databases /\ database.tables = Statements
  BY Types DEF InstallerInv, ModifyColumn, At, IndexHeld, Progress, AfterSchema
<1> DEFINE s == IF job[i].hadKey THEN "restore" ELSE "settings"
           r == [job[i] EXCEPT !.step = s]
<1>2. /\ database' = [database EXCEPT !.nullable = TRUE] /\ UNCHANGED <<config, tokens, lock, shown, stops, overlapped, torn>>
      /\ job' = [job EXCEPT ![i] = r]
  BY DEF ModifyColumn, Goto, History
<1>3. r \in Jobs /\ r.step = s /\ r.at = job[i].at /\ r.chunk = job[i].chunk
  BY <1>1 DEF Jobs, Steps
<1>4. /\ database' \in Databases /\ database'.tables = database.tables
      /\ database'.nullable /\ database'.settings = database.settings
      /\ database'.admins = database.admins
      /\ database'.foreignKey = database.foreignKey
  BY <1>1, <1>2 DEF Databases
<1> HIDE DEF r
<1> QED
  BY <1>1, <1>2, <1>3, <1>4, Committed
     DEF Writing, AfterSchema, AfterColumn, AfterSettings, AfterAdmin

LEMMA RestoreForeignKeyKeeps ==
  ASSUME InstallerInv, NEW i \in Installers, RestoreForeignKey(i)
  PROVE  InstallerInv'
<1>1. /\ job[i] \in Jobs /\ job[i].step = "restore" /\ job[i].at = {} /\ job[i].chunk = 0
      /\ database \in Databases /\ database.tables = Statements /\ database.nullable
      /\ job \in [Installers -> Jobs]
  BY Types DEF InstallerInv, RestoreForeignKey, At, IndexHeld, Progress, AfterSchema, AfterColumn
<1>2. CASE ~database.foreignKey
  <2> DEFINE r == [job[i] EXCEPT !.step = "settings", !.hadKey = FALSE]
  <2>1. /\ database' = [database EXCEPT !.foreignKey = TRUE] /\ UNCHANGED <<config, tokens, lock, shown, stops, overlapped, torn>>
        /\ job' = [job EXCEPT ![i] = r]
    BY <1>1, <1>2 DEF RestoreForeignKey, History
  <2>2. r \in Jobs /\ r.step = "settings" /\ r.at = job[i].at /\ r.chunk = job[i].chunk
    BY <1>1 DEF Jobs, Steps
  <2>3. /\ database' \in Databases /\ database'.tables = database.tables
        /\ database'.nullable = database.nullable /\ database'.settings = database.settings
        /\ database'.admins = database.admins /\ database'.foreignKey
    BY <1>1, <2>1 DEF Databases
  <2> HIDE DEF r
  <2> QED
    BY <1>1, <2>1, <2>2, <2>3, Committed
       DEF Writing, AfterSchema, AfterColumn, AfterSettings, AfterAdmin
<1>3. CASE database.foreignKey
  BY <1>1, <1>3, FailureKeeps DEF RestoreForeignKey, History, Writing
<1> QED
  BY <1>2, <1>3

LEMMA AddSettingsKeeps ==
  ASSUME InstallerInv, NEW i \in Installers, AddSettings(i)
  PROVE  InstallerInv'
<1>1. /\ job[i] \in Jobs /\ job[i].step = "addSettings" /\ job[i].at = {} /\ job[i].chunk = 0
      /\ database \in Databases /\ database.tables = Statements /\ database.nullable
  BY Types DEF InstallerInv, AddSettings, At, IndexHeld, Progress, AfterSchema, AfterColumn
<1>2. CASE ~database.settings
  <2> DEFINE r == [job[i] EXCEPT !.step = "cards"]
  <2>1. /\ database' = [database EXCEPT !.settings = TRUE] /\ UNCHANGED <<config, tokens, lock, shown, stops, overlapped, torn>>
        /\ job' = [job EXCEPT ![i] = r]
    BY <1>2 DEF AddSettings, Goto, History
  <2>2. r \in Jobs /\ r.step = "cards" /\ r.at = job[i].at /\ r.chunk = job[i].chunk
    BY <1>1 DEF Jobs, Steps
  <2>3. /\ database' \in Databases /\ database'.tables = database.tables
        /\ database'.nullable = database.nullable /\ database'.settings
        /\ database'.admins = database.admins
        /\ database'.foreignKey = database.foreignKey
    BY <1>1, <2>1 DEF Databases
  <2> HIDE DEF r
  <2> QED
    BY <1>1, <2>1, <2>2, <2>3, Committed
       DEF Writing, AfterSchema, AfterColumn, AfterSettings, AfterAdmin
<1>3. CASE database.settings
  BY <1>1, <1>3, FailureKeeps DEF AddSettings, History, Writing
<1> QED
  BY <1>2, <1>3

LEMMA AddAdminKeeps ==
  ASSUME InstallerInv, NEW i \in Installers, AddAdmin(i)
  PROVE  InstallerInv'
<1>1. /\ job[i] \in Jobs /\ job[i].step = "addAdmin" /\ job[i].at = {} /\ job[i].chunk = 0
      /\ database \in Databases /\ database.tables = Statements /\ database.nullable
      /\ database.settings
  BY Types DEF InstallerInv, AddAdmin, At, IndexHeld, Progress, AfterSchema, AfterColumn,
               AfterSettings
<1>2. CASE i \notin database.admins
  <2> DEFINE r == [job[i] EXCEPT !.step = "readSecrets"]
  <2>1. /\ database' = [database EXCEPT !.admins = database.admins \cup {i}] /\ UNCHANGED <<config, tokens, lock, shown, stops, overlapped, torn>>
        /\ job' = [job EXCEPT ![i] = r]
    BY <1>2 DEF AddAdmin, Goto, History
  <2>2. r \in Jobs /\ r.step = "readSecrets" /\ r.at = job[i].at /\ r.chunk = job[i].chunk
    BY <1>1 DEF Jobs, Steps
  <2>3. /\ database' \in Databases /\ database'.tables = database.tables
        /\ database'.nullable = database.nullable /\ database'.settings = database.settings
        /\ database'.admins = database.admins \cup {i}
        /\ database'.foreignKey = database.foreignKey
    BY <1>1, <2>1 DEF Databases
  <2> HIDE DEF r
  <2> QED
    BY <1>1, <2>1, <2>2, <2>3, Committed
       DEF Writing, AfterSchema, AfterColumn, AfterSettings, AfterAdmin
<1>3. CASE i \in database.admins
  BY <1>1, <1>3, FailureKeeps DEF AddAdmin, History, Writing
<1> QED
  BY <1>2, <1>3

(* An installer that begins: if it does not overlap, it is alone.           *)
LEMMA BeginKeeps ==
  ASSUME InstallerInv, NEW i \in Installers, Begin(i)
  PROVE  InstallerInv'
<1> DEFINE r == [job[i] EXCEPT !.step = "prepare"]
<1>1. /\ job[i] \in Jobs /\ job[i].step = "idle" /\ job[i].at = {} /\ job[i].chunk = 0
      /\ \A c, d \in job[i].at : c = d
  BY Types DEF InstallerInv, Begin, At, IndexHeld
<1>2. r \in Jobs /\ r.step = "prepare" /\ r.at = {} /\ r.chunk = 0
  BY <1>1 DEF Jobs, Steps
<1>3. job' = [job EXCEPT ![i] = r] /\ UNCHANGED <<config, database, tokens, lock, stops, torn>>
  BY DEF Begin, Goto
<1> HIDE DEF r
<1>4. /\ job' \in [Installers -> Jobs] /\ job'[i] = r
      /\ \A j \in Installers : j # i => job'[j] = job[j]
  BY <1>2, <1>3, JobWritten DEF InstallerInv
<1>5. /\ shown' \subseteq shown /\ overlapped' \in BOOLEAN
      /\ ~overlapped' => ~overlapped /\ \A j \in Installers : job[j].step = "idle"
  BY Types DEF Begin, Running, InstallerInv
<1>6. TypeOK'
  BY <1>3, <1>4, <1>5, Types DEF InstallerInv, TypeOK, Jobs, Keys
<1>7. Progress'
  BY <1>2, <1>3, <1>4
     DEF InstallerInv, Progress, AfterSchema, AfterColumn, AfterSettings, AfterAdmin
<1>8. OneAccount'
  BY <1>2, <1>3, <1>4, <1>5 DEF InstallerInv, OneAccount
<1>9. SecretsHeld'
  <2>1. ASSUME ~torn, ~overlapped'
        PROVE  Held(config)'
    BY <1>3, <1>5, <2>1 DEF InstallerInv, SecretsHeld, Held, Writing
  <2>2. ASSUME ~overlapped', NEW j \in Installers
        PROVE  job'[j].step \notin {"openDb", "writeDb", "openSecrets", "writeSecrets", "lock"}
    <3>1. CASE j = i
      BY <1>2, <1>4, <3>1
    <3>2. CASE j # i
      BY <1>4, <1>5, <2>2, <3>2
    <3> QED
      BY <3>1, <3>2
  <2> QED
    BY <1>3, <2>1, <2>2 DEF SecretsHeld
<1>10. ForeignKeyHeld'
  BY <1>1, <1>3, <1>4 DEF InstallerInv, ForeignKeyHeld
<1>11. IndexHeld'
  BY <1>1, <1>2, <1>3, <1>4 DEF InstallerInv, IndexHeld
<1> QED
  BY <1>6, <1>7, <1>8, <1>9, <1>10, <1>11 DEF InstallerInv

(* A step that only rewrites config/local.php.                              *)
LEMMA OpenConfigKeeps ==
  ASSUME InstallerInv, NEW i \in Installers, OpenConfig(i)
  PROVE  InstallerInv'
<1> DEFINE s == IF job[i].step = "openDb" THEN "writeDb" ELSE "writeSecrets"
           r == [job[i] EXCEPT !.step = s]
<1>1. /\ job[i] \in Jobs /\ job[i].step \in {"openDb", "openSecrets"}
      /\ job[i].at = {} /\ job[i].chunk = 0
  BY Types DEF InstallerInv, OpenConfig, IndexHeld
<1>2. /\ r \in Jobs /\ r.step = s /\ r.at = {} /\ r.chunk = 0
      /\ r.content = job[i].content /\ r.token = job[i].token
  BY <1>1 DEF Jobs, Steps, Writing
<1>3. job' = [job EXCEPT ![i] = r] /\ config' = Nothing
      /\ UNCHANGED <<database, tokens, lock, shown, stops, overlapped, torn>>
  BY DEF OpenConfig, Goto, At, History
<1> HIDE DEF r
<1>4. /\ job' \in [Installers -> Jobs] /\ job'[i] = r
      /\ \A j \in Installers : j # i => job'[j] = job[j]
  BY <1>2, <1>3, JobWritten DEF InstallerInv
<1>5. TypeOK'
  BY <1>3, <1>4, IdleJob, Types DEF InstallerInv, TypeOK, Jobs, Keys
<1>6. Progress'
  BY <1>1, <1>2, <1>3, <1>4
     DEF InstallerInv, Progress, AfterSchema, AfterColumn, AfterSettings, AfterAdmin
<1>7. OneAccount'
  BY <1>1, <1>2, <1>3, <1>4 DEF InstallerInv, OneAccount
<1>8. SecretsHeld'
  <2>1. ASSUME ~torn, ~overlapped, NEW j \in Installers, j # i
        PROVE  job'[j].step = "idle"
    BY <1>1, <1>4, <2>1 DEF InstallerInv, OneAccount
  <2>2. job'[i].step \in Writing /\ job'[i].step # "lock"
    BY <1>2, <1>4 DEF Writing
  <2>3. ASSUME ~torn, ~overlapped
        PROVE  /\ Held(job[i].content)
               /\ job[i].step = "openSecrets" =>
                    /\ job[i].content.hash # "none"
                    /\ job[i].token => job[i].content.hash = i
    BY <1>1, <2>3 DEF InstallerInv, SecretsHeld
  <2>4. ASSUME ~torn, ~overlapped
        PROVE  /\ Held(job[i].content)'
               /\ job'[i].step = "writeSecrets" =>
                    /\ job'[i].content.hash # "none"
                    /\ job'[i].token => job'[i].content.hash = i
    BY <1>1, <1>2, <1>3, <1>4, <2>3, <2>4 DEF Held
  <2>5. job'[i].step \notin {"openDb", "openSecrets"}
    BY <1>2, <1>4
  <2> QED
    BY <1>3, <2>1, <2>2, <2>4, <2>5 DEF SecretsHeld
<1>9. ForeignKeyHeld'
  BY <1>1, <1>2, <1>3, <1>4 DEF InstallerInv, ForeignKeyHeld
<1>10. IndexHeld'
  BY <1>1, <1>2, <1>3, <1>4 DEF InstallerInv, IndexHeld
<1> QED
  BY <1>5, <1>6, <1>7, <1>8, <1>9, <1>10 DEF InstallerInv

LEMMA WriteConfigKeeps ==
  ASSUME InstallerInv, NEW i \in Installers, WriteConfig(i)
  PROVE  InstallerInv'
<1> DEFINE s == IF job[i].step = "writeDb" THEN "systemKey" ELSE "lock"
           r == [job[i] EXCEPT !.step = s]
<1>1. /\ job[i] \in Jobs /\ job[i].step \in {"writeDb", "writeSecrets"}
      /\ job[i].at = {} /\ job[i].chunk = 0
  BY Types DEF InstallerInv, WriteConfig, IndexHeld, Writing
<1>2. /\ r \in Jobs /\ r.step = s /\ r.at = {} /\ r.chunk = 0
      /\ r.token = job[i].token
  BY <1>1 DEF Jobs, Steps
<1>3. job' = [job EXCEPT ![i] = r] /\ config' = job[i].content
      /\ UNCHANGED <<database, tokens, lock, shown, stops, overlapped, torn>>
  BY DEF WriteConfig, Goto, At, History
<1> HIDE DEF r
<1>4. /\ job' \in [Installers -> Jobs] /\ job'[i] = r
      /\ \A j \in Installers : j # i => job'[j] = job[j]
  BY <1>2, <1>3, JobWritten DEF InstallerInv
<1>5. TypeOK'
  BY <1>1, <1>3, <1>4, Types DEF InstallerInv, TypeOK, Jobs, Keys
<1>6. Progress'
  BY <1>1, <1>2, <1>3, <1>4
     DEF InstallerInv, Progress, AfterSchema, AfterColumn, AfterSettings, AfterAdmin
<1>7. OneAccount'
  BY <1>1, <1>2, <1>3, <1>4 DEF InstallerInv, OneAccount
<1>8. SecretsHeld'
  <2>1. ASSUME ~torn, ~overlapped, NEW j \in Installers, j # i
        PROVE  job'[j].step = "idle"
    BY <1>1, <1>4, <2>1 DEF InstallerInv, OneAccount
  <2>2. job'[i].step \notin {"openDb", "writeDb", "openSecrets", "writeSecrets"}
    BY <1>2, <1>4
  <2>3. ASSUME ~torn, ~overlapped
        PROVE  /\ Held(job[i].content)
               /\ job[i].step = "writeSecrets" =>
                    /\ job[i].content.hash # "none"
                    /\ job[i].token => job[i].content.hash = i
    BY <1>1, <2>3 DEF InstallerInv, SecretsHeld
  <2>4. ASSUME ~torn, ~overlapped
        PROVE  /\ Held(config)'
               /\ job'[i].step = "lock" =>
                    config'.hash # "none" /\ (job'[i].token => config'.hash = i)
    BY <1>1, <1>2, <1>3, <1>4, <2>3, <2>4 DEF Held
  <2> QED
    BY <1>3, <2>1, <2>2, <2>4 DEF SecretsHeld
<1>9. ForeignKeyHeld'
  BY <1>1, <1>2, <1>3, <1>4 DEF InstallerInv, ForeignKeyHeld
<1>10. IndexHeld'
  BY <1>1, <1>2, <1>3, <1>4 DEF InstallerInv, IndexHeld
<1> QED
  BY <1>5, <1>6, <1>7, <1>8, <1>9, <1>10 DEF InstallerInv

(* A step of the backfill changes nothing but the tokens and its own job.   *)
LEMMA Indexed ==
  ASSUME InstallerInv, NEW i \in Installers, NEW r \in Jobs,
         job' = [job EXCEPT ![i] = r], tokens' \in [Cards -> SUBSET Whole],
         UNCHANGED <<config, database, lock, shown, stops, overlapped, torn>>,
         job[i].step \in {"clear", "insert"}, r.step \in {"clear", "insert"},
         IndexHeld'
  PROVE  InstallerInv'
<1>1. /\ job' \in [Installers -> Jobs] /\ job'[i] = r
      /\ \A j \in Installers : j # i => job'[j] = job[j]
  BY JobWritten DEF InstallerInv
<1>2. TypeOK'
  BY <1>1, Types DEF InstallerInv, TypeOK, Jobs, Keys
<1>3. Progress'
  BY <1>1 DEF InstallerInv, Progress, AfterSchema, AfterColumn, AfterSettings, AfterAdmin
<1>4. OneAccount'
  BY <1>1 DEF InstallerInv, OneAccount
<1>5. SecretsHeld'
  <2>1. \A s : Held(s)' <=> Held(s)
    BY DEF Held
  <2> QED
    BY <1>1, <2>1 DEF InstallerInv, SecretsHeld, Held, Writing
<1>6. ForeignKeyHeld'
  BY <1>1 DEF InstallerInv, ForeignKeyHeld
<1> QED
  BY <1>2, <1>3, <1>4, <1>5, <1>6 DEF InstallerInv

LEMMA ClearCardKeeps ==
  ASSUME InstallerInv, NEW i \in Installers, ClearCard(i)
  PROVE  InstallerInv'
<1>1. /\ job[i] \in Jobs /\ job[i].step = "clear" /\ job[i].at = {} /\ job[i].chunk = 0
      /\ tokens \in [Cards -> SUBSET Whole] /\ job \in [Installers -> Jobs]
  BY Types DEF InstallerInv, ClearCard, At, IndexHeld
<1>2. CASE job[i].key # "first"
  BY <1>1, <1>2, FailureKeeps DEF ClearCard, History, Writing
<1>3. CASE job[i].key = "first"
  <2>1. PICK c \in job[i].todo :
          /\ tokens' = [tokens EXCEPT ![c] = {}]
          /\ job' = [job EXCEPT ![i].step = "insert", ![i].at = {c},
                                ![i].todo = @ \ {c}]
    BY <1>3 DEF ClearCard
  <2> DEFINE r == [job[i] EXCEPT !.step = "insert", !.at = {c},
                                 !.todo = job[i].todo \ {c}]
  <2>2. c \in Cards
    BY <1>1, <2>1 DEF Jobs
  <2>3. r \in Jobs /\ r.step = "insert" /\ r.at = {c} /\ r.chunk = 0
    BY <1>1, <2>2 DEF Jobs, Steps
  <2>4. job' = [job EXCEPT ![i] = r]
    BY <1>1, <2>1
  <2>5. UNCHANGED <<config, database, lock, shown, stops, overlapped, torn>>
    BY DEF ClearCard, History
  <2> HIDE DEF r
  <2>6. /\ job' \in [Installers -> Jobs] /\ job'[i] = r
        /\ \A j \in Installers : j # i => job'[j] = job[j]
    BY <2>3, <2>4, JobWritten DEF InstallerInv
  <2>7. /\ tokens' \in [Cards -> SUBSET Whole] /\ tokens'[c] = {}
        /\ \A d \in Cards : d # c => tokens'[d] = tokens[d]
    BY <1>1, <2>1, <2>2
  <2>8. IndexHeld'
    <3>1. ASSUME NEW j \in Installers
          PROVE  /\ job'[j].step # "insert" => job'[j].at = {} /\ job'[j].chunk = 0
                 /\ \A d, e \in job'[j].at : d = e
      <4>1. CASE j = i
        BY <2>3, <2>6, <4>1
      <4>2. CASE j # i
        BY <2>6, <4>2 DEF InstallerInv, IndexHeld
      <4> QED
        BY <4>1, <4>2
    <3>2. c \in job'[i].at /\ 1..job'[i].chunk \subseteq tokens'[c]
      BY <2>3, <2>6
    <3>3. ASSUME NEW d \in Cards, d # c, stops = 0
          PROVE  \/ tokens'[d] = Whole
                 \/ \E j \in Installers : d \in job'[j].at /\ 1..job'[j].chunk \subseteq tokens'[d]
                 \/ tokens'[d] = {} /\ \A j \in Installers : d \notin job'[j].at
      <4>1. d \notin job'[i].at /\ d \notin job[i].at /\ tokens'[d] = tokens[d]
        BY <1>1, <2>3, <2>6, <2>7, <3>3
      <4>2. \/ tokens[d] = Whole
            \/ \E j \in Installers : d \in job[j].at /\ 1..job[j].chunk \subseteq tokens[d]
            \/ tokens[d] = {} /\ \A j \in Installers : d \notin job[j].at
        BY <3>3 DEF InstallerInv, IndexHeld
      <4> QED
        BY <2>6, <4>1, <4>2
    <3>4. Whole' = Whole /\ stops' = stops
      BY <2>5 DEF Whole
    <3> QED
      BY <3>1, <3>2, <3>3, <3>4 DEF IndexHeld
  <2> QED
    BY <1>1, <2>3, <2>4, <2>5, <2>7, <2>8, Indexed
<1> QED
  BY <1>2, <1>3

LEMMA InsertChunkKeeps ==
  ASSUME InstallerInv, NEW i \in Installers, InsertChunk(i)
  PROVE  InstallerInv'
<1> DEFINE n == job[i].chunk + 1
           r == [job[i] EXCEPT !.chunk = n]
<1>1. /\ job[i] \in Jobs /\ job[i].step = "insert" /\ job[i].chunk \in 0..Chunks
      /\ job[i].chunk < Chunks /\ \A d, e \in job[i].at : d = e
      /\ tokens \in [Cards -> SUBSET Whole] /\ job \in [Installers -> Jobs]
  BY Types DEF InstallerInv, InsertChunk, At, IndexHeld, Jobs
<1>2. n \in 0..Chunks /\ n \in Whole /\ 1..n = (1..job[i].chunk) \cup {n}
  BY <1>1, Counts DEF Whole
<1> HIDE DEF n
<1>3. PICK c \in job[i].at : tokens' = [tokens EXCEPT ![c] = tokens[c] \cup {n}]
  BY <1>1 DEF InsertChunk, n
<1>4. c \in Cards
  BY <1>1, <1>3 DEF Jobs
<1>5. r \in Jobs /\ r.step = "insert" /\ r.at = job[i].at /\ r.chunk = n
  BY <1>1, <1>2 DEF Jobs
<1>6. job' = [job EXCEPT ![i] = r]
      /\ UNCHANGED <<config, database, lock, shown, stops, overlapped, torn>>
  BY <1>1 DEF InsertChunk, History, n
<1> HIDE DEF r
<1>7. /\ job' \in [Installers -> Jobs] /\ job'[i] = r
      /\ \A j \in Installers : j # i => job'[j] = job[j]
  BY <1>5, <1>6, JobWritten DEF InstallerInv
<1>8. /\ tokens' \in [Cards -> SUBSET Whole] /\ tokens'[c] = tokens[c] \cup {n}
      /\ \A d \in Cards : d # c => tokens'[d] = tokens[d]
  BY <1>1, <1>2, <1>3, <1>4
<1>9. IndexHeld'
  <2>1. ASSUME NEW j \in Installers
        PROVE  /\ job'[j].step # "insert" => job'[j].at = {} /\ job'[j].chunk = 0
               /\ \A d, e \in job'[j].at : d = e
    <3>1. CASE j = i
      BY <1>1, <1>5, <1>7, <3>1
    <3>2. CASE j # i
      BY <1>7, <3>2 DEF InstallerInv, IndexHeld
    <3> QED
      BY <3>1, <3>2
  <2>2. ASSUME NEW d \in Cards, stops = 0
        PROVE  \/ tokens'[d] = Whole
               \/ \E j \in Installers : d \in job'[j].at /\ 1..job'[j].chunk \subseteq tokens'[d]
               \/ tokens'[d] = {} /\ \A j \in Installers : d \notin job'[j].at
    <3>1. \/ tokens[d] = Whole
          \/ \E j \in Installers : d \in job[j].at /\ 1..job[j].chunk \subseteq tokens[d]
          \/ tokens[d] = {} /\ \A j \in Installers : d \notin job[j].at
      BY <2>2 DEF InstallerInv, IndexHeld
    <3>2. /\ tokens[d] \subseteq tokens'[d] /\ tokens[d] \subseteq Whole
          /\ tokens'[d] \subseteq Whole
      BY <1>1, <1>8
    <3>3. CASE tokens[d] = Whole
      BY <3>2, <3>3
    <3>4. CASE \E j \in Installers : d \in job[j].at /\ 1..job[j].chunk \subseteq tokens[d]
      <4>1. PICK j \in Installers : d \in job[j].at /\ 1..job[j].chunk \subseteq tokens[d]
        BY <3>4
      <4>2. CASE j = i
        <5>1. d = c
          BY <1>1, <1>3, <4>1, <4>2
        <5>2. 1..job'[i].chunk \subseteq tokens'[d]
          BY <1>2, <1>5, <1>7, <1>8, <4>1, <4>2, <5>1
        <5> QED
          BY <1>5, <1>7, <4>1, <4>2, <5>2
      <4>3. CASE j # i
        BY <1>7, <3>2, <4>1, <4>3
      <4> QED
        BY <4>2, <4>3
    <3>5. CASE tokens[d] = {} /\ \A j \in Installers : d \notin job[j].at
      BY <1>3, <1>5, <1>7, <1>8, <3>5
    <3> QED
      BY <3>1, <3>3, <3>4, <3>5
  <2>3. Whole' = Whole /\ stops' = stops
    BY <1>6 DEF Whole
  <2> QED
    BY <2>1, <2>2, <2>3 DEF IndexHeld
<1> QED
  BY <1>1, <1>5, <1>6, <1>8, <1>9, Indexed

LEMMA CardDoneKeeps ==
  ASSUME InstallerInv, NEW i \in Installers, CardDone(i)
  PROVE  InstallerInv'
<1> DEFINE r == [job[i] EXCEPT !.step = "clear", !.at = {}, !.chunk = 0]
<1>1. /\ job[i] \in Jobs /\ job[i].step = "insert" /\ job[i].chunk = Chunks
      /\ tokens \in [Cards -> SUBSET Whole] /\ job \in [Installers -> Jobs]
  BY Types DEF InstallerInv, CardDone, At
<1>2. r \in Jobs /\ r.step = "clear" /\ r.at = {} /\ r.chunk = 0
  <2>1. 0 \in 0..Chunks /\ {} \in SUBSET Cards /\ "clear" \in Steps
    BY Counts DEF Steps
  <2> QED
    BY <1>1, <2>1 DEF Jobs
<1>3. job' = [job EXCEPT ![i] = r]
      /\ UNCHANGED <<config, database, tokens, lock, shown, stops, overlapped, torn>>
  BY <1>1 DEF CardDone, History
<1> HIDE DEF r
<1>4. /\ job' \in [Installers -> Jobs] /\ job'[i] = r
      /\ \A j \in Installers : j # i => job'[j] = job[j]
  BY <1>2, <1>3, JobWritten DEF InstallerInv
<1>5. IndexHeld'
  <2>1. ASSUME NEW j \in Installers
        PROVE  /\ job'[j].step # "insert" => job'[j].at = {} /\ job'[j].chunk = 0
               /\ \A d, e \in job'[j].at : d = e
    <3>1. CASE j = i
      BY <1>2, <1>4, <3>1
    <3>2. CASE j # i
      BY <1>4, <3>2 DEF InstallerInv, IndexHeld
    <3> QED
      BY <3>1, <3>2
  <2>2. ASSUME NEW d \in Cards, stops = 0
        PROVE  \/ tokens[d] = Whole
               \/ \E j \in Installers : d \in job'[j].at /\ 1..job'[j].chunk \subseteq tokens[d]
               \/ tokens[d] = {} /\ \A j \in Installers : d \notin job'[j].at
    <3>1. \/ tokens[d] = Whole
          \/ \E j \in Installers : d \in job[j].at /\ 1..job[j].chunk \subseteq tokens[d]
          \/ tokens[d] = {} /\ \A j \in Installers : d \notin job[j].at
      BY <2>2 DEF InstallerInv, IndexHeld
    <3>2. ASSUME d \in job[i].at, 1..job[i].chunk \subseteq tokens[d]
          PROVE  tokens[d] = Whole
      BY <1>1, <3>2 DEF Whole
    <3>3. d \notin job'[i].at
      BY <1>2, <1>4
    <3> QED
      BY <1>4, <3>1, <3>2, <3>3
  <2>3. Whole' = Whole /\ stops' = stops /\ tokens' = tokens
    BY <1>3 DEF Whole
  <2> QED
    BY <2>1, <2>2, <2>3 DEF IndexHeld
<1> QED
  BY <1>1, <1>2, <1>3, <1>5, Indexed

(* An installation that ends, by itself or by an interruption.              *)
LEMMA WriteLockKeeps ==
  ASSUME InstallerInv, NEW i \in Installers, WriteLock(i)
  PROVE  InstallerInv'
<1>1. /\ job[i] \in Jobs /\ job[i].step = "lock" /\ job[i].at = {} /\ job[i].chunk = 0
      /\ shown \subseteq Installers
  BY Types DEF InstallerInv, WriteLock, At, IndexHeld
<1>2. /\ job' = [job EXCEPT ![i] = Idle] /\ lock' = TRUE
      /\ shown' = IF job[i].token THEN shown \cup {i} ELSE shown
      /\ UNCHANGED <<config, database, tokens, stops, overlapped, torn>>
  BY DEF WriteLock
<1>3. /\ job' \in [Installers -> Jobs] /\ job'[i] = Idle
      /\ \A j \in Installers : j # i => job'[j] = job[j]
  BY <1>2, IdleJob, JobWritten DEF InstallerInv
<1>4. TypeOK'
  BY <1>1, <1>2, <1>3, Types DEF InstallerInv, TypeOK, Jobs, Keys
<1>5. Progress'
  <2>1. /\ database.tables = Statements /\ database.nullable
        /\ database.settings /\ database.admins # {}
    BY <1>1 DEF InstallerInv, Progress, AfterSchema, AfterColumn, AfterSettings, AfterAdmin
  <2> QED
    BY <1>2, <2>1 DEF Progress
<1>6. OneAccount'
  BY <1>1, <1>2, <1>3, IdleJob DEF InstallerInv, OneAccount
<1>7. SecretsHeld'
  <2>1. ASSUME ~torn, ~overlapped, NEW j \in Installers
        PROVE  job'[j].step = "idle" /\ (j # i => job[j].step = "idle")
    BY <1>1, <1>3, <2>1, IdleJob DEF InstallerInv, OneAccount
  <2>2. ASSUME ~torn, ~overlapped
        PROVE  Held(config)'
    <3>1. \A j \in Installers : job[j].step \notin Writing
      BY <1>1, <2>1, <2>2 DEF Writing
    <3>2. /\ Held(config) /\ config.hash # "none"
          /\ job[i].token => config.hash = i
      BY <1>1, <2>2, <3>1 DEF InstallerInv, SecretsHeld
    <3> QED
      BY <1>2, <3>2 DEF Held
  <2> QED
    BY <1>2, <2>1, <2>2 DEF SecretsHeld
<1>8. ForeignKeyHeld'
  BY <1>1, <1>2, <1>3 DEF InstallerInv, ForeignKeyHeld
<1>9. IndexHeld'
  BY <1>1, <1>2, <1>3, IdleJob DEF InstallerInv, IndexHeld
<1> QED
  BY <1>4, <1>5, <1>6, <1>7, <1>8, <1>9 DEF InstallerInv

(* What remains of a content is a config again.                             *)
LEMMA RemainsTypes ==
  ASSUME NEW content \in Secrets, NEW c \in Remains(content)
  PROVE  c \in Secrets
BY DEF Remains

(* An interruption of one installer: it is aborted, or a file write fails.  *)
Interrupted(i) == Abort(i) \/ WriteFails(i) \/ LockFails(i)

LEMMA InterruptionKeeps ==
  ASSUME InstallerInv, NEW i \in Installers, Interrupted(i)
  PROVE  InstallerInv'
<1>1. /\ job[i] \in Jobs /\ job[i].step # "idle" /\ config \in Secrets
      /\ stops \in 0..MaxStops /\ stops < MaxStops
      /\ lock \in BOOLEAN /\ torn \in BOOLEAN
  BY Types DEF InstallerInv, Interrupted, Abort, WriteFails, LockFails, Running, At, Writing
<1>2. /\ Fail(i) /\ stops' = stops + 1
      /\ UNCHANGED <<database, tokens, shown, overlapped>>
  BY DEF Interrupted, Abort, WriteFails, LockFails
<1>3. /\ job' \in [Installers -> Jobs] /\ job'[i] = Idle
      /\ \A j \in Installers : j # i => job'[j] = job[j]
  BY <1>2, JobFailed DEF InstallerInv
<1>4. stops' \in 0..MaxStops /\ stops' # 0
  BY <1>1, <1>2, Counts
<1>5. config' \in Secrets /\ lock' \in BOOLEAN /\ torn' \in BOOLEAN
  <2>1. job[i].content \in Secrets
    BY <1>1 DEF Jobs
  <2> QED
    BY <1>1, <2>1, RemainsTypes DEF Interrupted, Abort, WriteFails, LockFails
<1>6. lock' = lock \/ job[i].step = "lock"
  BY DEF Interrupted, Abort, WriteFails, LockFails, At
<1>7. ~torn' => ~torn /\ config' = config /\ job[i].step \notin Writing
  BY DEF Interrupted, Abort, WriteFails, LockFails, At, Writing
<1>8. TypeOK'
  BY <1>2, <1>3, <1>4, <1>5, Types DEF InstallerInv, TypeOK, Jobs, Keys
<1>9. Progress'
  <2>1. job[i].step = "lock" =>
          /\ database.tables = Statements /\ database.nullable
          /\ database.settings /\ database.admins # {}
    BY DEF InstallerInv, Progress, AfterSchema, AfterColumn, AfterSettings, AfterAdmin
  <2> QED
    BY <1>2, <1>3, <1>6, <2>1, IdleJob
       DEF InstallerInv, Progress, AfterSchema, AfterColumn, AfterSettings, AfterAdmin
<1>10. OneAccount'
  BY <1>2, <1>3, IdleJob DEF InstallerInv, OneAccount
<1>11. SecretsHeld'
  <2> SUFFICES ASSUME ~torn', ~overlapped'
               PROVE  /\ (\A j \in Installers : job'[j].step \notin Writing) => Held(config)'
                      /\ \A j \in Installers : job'[j].step = "idle"
    BY DEF SecretsHeld, Writing
  <2>1. ~torn /\ ~overlapped /\ config' = config /\ job[i].step \notin Writing
    BY <1>2, <1>7
  <2>2. ASSUME NEW j \in Installers, j # i PROVE job[j].step = "idle"
    BY <1>1, <2>1, <2>2 DEF InstallerInv, OneAccount
  <2>3. \A j \in Installers : job[j].step \notin Writing
    BY <2>1, <2>2 DEF Writing
  <2>4. Held(config) /\ (job[i].step = "lock" => config.hash # "none")
    BY <2>1, <2>3 DEF InstallerInv, SecretsHeld
  <2>5. Held(config)'
    BY <1>2, <1>6, <2>1, <2>4 DEF Held
  <2> QED
    BY <1>3, <2>2, <2>5, IdleJob
<1>12. ForeignKeyHeld'
  BY <1>4 DEF ForeignKeyHeld
<1>13. IndexHeld'
  BY <1>3, <1>4, IdleJob DEF InstallerInv, IndexHeld
<1> QED
  BY <1>8, <1>9, <1>10, <1>11, <1>12, <1>13 DEF InstallerInv

(* A config that cannot be read stops the installer that would read it.     *)
LEMMA ReadFailsKeeps ==
  ASSUME InstallerInv, NEW i \in Installers, ReadFails(i)
  PROVE  InstallerInv'
BY FailureKeeps DEF ReadFails, History, Writing

LEMMA CrashKeeps ==
  ASSUME InstallerInv, Crash
  PROVE  InstallerInv'
<1> DEFINE writers == {i \in Installers : job[i].step \in Writing}
<1>1. /\ job' = [i \in Installers |-> Idle] /\ stops' = stops + 1
      /\ torn' = (torn \/ writers # {})
      /\ config' \in {config} \cup UNION {Remains(job[i].content) : i \in writers}
      /\ UNCHANGED <<database, tokens, lock, shown, overlapped>>
      /\ stops \in 0..MaxStops /\ stops < MaxStops
      /\ config \in Secrets /\ torn \in BOOLEAN
  BY Types DEF Crash, InstallerInv
<1>2. stops' \in 0..MaxStops /\ stops' # 0
  BY <1>1, Counts
<1>3. job' \in [Installers -> Jobs] /\ \A i \in Installers : job'[i] = Idle
  BY <1>1, IdleJob
<1>4. torn' \in BOOLEAN /\ config' \in Secrets
  <2>1. \A i \in Installers : job[i].content \in Secrets
    BY Types DEF InstallerInv, Jobs
  <2>2. CASE config' = config
    BY <1>1, <2>2
  <2>3. CASE config' \in UNION {Remains(job[i].content) : i \in writers}
    <3>1. PICK i \in writers : config' \in Remains(job[i].content)
      BY <2>3
    <3> QED
      BY <1>1, <2>1, <3>1, RemainsTypes
  <2> QED
    BY <1>1, <2>2, <2>3
<1>5. TypeOK'
  BY <1>1, <1>2, <1>3, <1>4, Types DEF InstallerInv, TypeOK, Jobs, Keys
<1>6. Progress'
  BY <1>1, <1>3, IdleJob
     DEF InstallerInv, Progress, AfterSchema, AfterColumn, AfterSettings, AfterAdmin
<1>7. OneAccount'
  BY <1>1, <1>3, IdleJob DEF InstallerInv, OneAccount
<1>8. SecretsHeld'
  <2>1. ~torn' => ~torn /\ config' = config /\ \A i \in Installers : job[i].step \notin Writing
    BY <1>1
  <2> QED
    BY <1>1, <1>3, <2>1, IdleJob DEF InstallerInv, SecretsHeld, Held
<1>9. ForeignKeyHeld'
  BY <1>2 DEF ForeignKeyHeld
<1>10. IndexHeld'
  BY <1>2, <1>3, IdleJob DEF IndexHeld
<1> QED
  BY <1>5, <1>6, <1>7, <1>8, <1>9, <1>10 DEF InstallerInv

-----------------------------------------------------------------------------
(* The invariant                                                            *)

LEMMA InstallerInit == Init => InstallerInv
<1> SUFFICES ASSUME Init PROVE InstallerInv
  OBVIOUS
<1>1. /\ config.key = "first" /\ config.text /\ config \in Secrets
      /\ lock = FALSE /\ shown = {} /\ stops = 0 /\ overlapped = FALSE /\ torn = FALSE
      /\ job = [i \in Installers |-> Idle]
  BY DEF Init, Secrets
<1>2. PICK legacy \in BOOLEAN :
        /\ database = [tables |-> IF legacy THEN Statements ELSE 0, nullable |-> ~legacy,
                       foreignKey |-> legacy, settings |-> FALSE, admins |-> {}]
        /\ tokens = [c \in Cards |-> IF legacy THEN {} ELSE Whole]
  BY DEF Init
<1>3. job \in [Installers -> Jobs] /\ \A i \in Installers : job[i] = Idle
  BY <1>1, IdleJob
<1>4. /\ database \in Databases /\ database.admins = {}
      /\ database.tables = Statements => database.foreignKey
      /\ tokens \in [Cards -> SUBSET Whole]
      /\ \A c \in Cards : tokens[c] \in {{}, Whole}
  <2>1. CASE legacy
    BY <1>2, <2>1, Counts DEF Databases
  <2>2. CASE ~legacy
    BY <1>2, <2>2, Counts DEF Databases
  <2> QED
    BY <2>1, <2>2
<1>5. TypeOK
  <2>1. shown \subseteq Installers /\ stops \in 0..MaxStops
    BY <1>1, Counts
  <2>2. lock \in BOOLEAN /\ overlapped \in BOOLEAN /\ torn \in BOOLEAN
    BY <1>1
  <2> QED
    BY <1>1, <1>3, <1>4, <2>1, <2>2, Types
<1>6. Progress
  BY <1>1, <1>3, IdleJob
     DEF Progress, AfterSchema, AfterColumn, AfterSettings, AfterAdmin
<1>7. OneAccount
  BY <1>3, <1>4, IdleJob DEF OneAccount
<1>8. SecretsHeld
  BY <1>1, <1>3, IdleJob DEF SecretsHeld, Held
<1>9. ForeignKeyHeld
  BY <1>4 DEF ForeignKeyHeld
<1>10. IndexHeld
  BY <1>3, <1>4, IdleJob DEF IndexHeld
<1> QED
  BY <1>5, <1>6, <1>7, <1>8, <1>9, <1>10 DEF InstallerInv

LEMMA InstallerStep == InstallerInv /\ [Next]_vars => InstallerInv'
<1> SUFFICES ASSUME InstallerInv, [Next]_vars PROVE InstallerInv'
  OBVIOUS
<1>1. ASSUME NEW i \in Installers, Step(i)
      PROVE  InstallerInv'
  BY <1>1, PrepareKeeps, ReadConfigKeeps, OpenConfigKeeps, WriteConfigKeeps, SystemKeyKeeps,
     SchemaKeeps, InspectColumnKeeps, InspectForeignKeyKeeps, DropForeignKeyKeeps,
     ModifyColumnKeeps, RestoreForeignKeyKeeps, InspectSettingsKeeps, AddSettingsKeeps,
     SelectCardsKeeps, ClearCardKeeps, InsertChunkKeeps, CardDoneKeeps, CardsDoneKeeps,
     InspectAdminKeeps, AddAdminKeeps, WriteLockKeeps, ReadFailsKeeps DEF Step
<1>2. CASE UNCHANGED vars
  BY <1>2
     DEF vars, InstallerInv, TypeOK, Progress, OneAccount, SecretsHeld, Held, ForeignKeyHeld,
         IndexHeld, Whole
<1> QED
  BY <1>1, <1>2, BeginKeeps, InterruptionKeeps, CrashKeeps DEF Next, Interrupted

(* The types: for any constants, every state the installers reach is of the *)
(* declared types, in particular never more interruptions than the bound.   *)
THEOREM InstallerTypes == Spec => []TypeOK
<1>1. InstallerInv => TypeOK
  BY DEF InstallerInv
<1> QED
  BY <1>1, InstallerInit, InstallerStep, PTL DEF Spec

(* The SYS_KEY outlives every installation: it is out of config/local.php   *)
(* only while the file is rewritten, after a rewrite that was cut short (it *)
(* failed, or the process died in it), or after two installations at once   *)
(* (write_db_config, ensure_secrets).                                       *)
THEOREM SystemKeyOutlivesInstalls == Spec => []SystemKeySurvives
<1>1. InstallerInv => SystemKeySurvives
  BY DEF InstallerInv, SecretsHeld, Held, SystemKeySurvives
<1> QED
  BY <1>1, InstallerInit, InstallerStep, PTL DEF Spec

(* ensure_nullable_column drops a foreign key and puts it back: without an  *)
(* interruption there is always somebody who still will.                    *)
THEOREM ForeignKeyIsRestored == Spec => []ForeignKeyRestored
<1>1. InstallerInv => ForeignKeyRestored
  BY Types DEF InstallerInv, ForeignKeyHeld, ForeignKeyRestored
<1> QED
  BY <1>1, InstallerInit, InstallerStep, PTL DEF Spec

(* The backfill leaves no card half indexed unless it was interrupted.      *)
THEOREM CardsIndexedWhole == Spec => []IndexedWhole
<1>1. InstallerInv => IndexedWhole
  BY Types, Counts DEF InstallerInv, IndexHeld, IndexedWhole
<1> QED
  BY <1>1, InstallerInit, InstallerStep, PTL DEF Spec

(* install.lock is written only once everything it stands for is there, and *)
(* the secrets stay there until a rewrite of the config is cut short or two *)
(* installations run at once.                                               *)
THEOREM LockStandsForInstallation == Spec => []LockMeansInstalled
<1>1. ASSUME InstallerInv, lock
      PROVE  LockMeansInstalled
  <2>1. /\ database.tables = Statements /\ database.nullable
        /\ database.settings /\ database.admins # {}
    BY <1>1 DEF InstallerInv, Progress
  <2>2. \E i \in Installers : database.admins = {i} \/ (overlapped /\ i \in database.admins)
    <3>1. database.admins \subseteq Installers /\ overlapped \in BOOLEAN
      BY <1>1, Types DEF InstallerInv, Databases
    <3> QED
      BY <1>1, <2>1, <3>1 DEF InstallerInv, OneAccount
  <2>3. \/ config.key # "none" /\ config.hash # "none"
        \/ torn \/ overlapped \/ \E i \in Installers : job[i].step \in Writing
    BY <1>1 DEF InstallerInv, SecretsHeld, Held
  <2> QED
    BY <2>1, <2>2, <2>3 DEF LockMeansInstalled
<1>2. InstallerInv => LockMeansInstalled
  BY <1>1 DEF LockMeansInstalled
<1> QED
  BY <1>2, InstallerInit, InstallerStep, PTL DEF Spec

(* An admin token that an installer was shown opens the console, unless a   *)
(* rewrite of the config was cut short or two installations ran at once.    *)
THEOREM ShownTokensWork == Spec => []ShownTokenWorks
<1>1. InstallerInv => ShownTokenWorks
  BY Types DEF InstallerInv, SecretsHeld, Held, ShownTokenWorks
<1> QED
  BY <1>1, InstallerInit, InstallerStep, PTL DEF Spec

-----------------------------------------------------------------------------
(* Why installations complete.                                              *)

(* What an installer that runs alone has seen is still so when it acts on   *)
(* it, and the key it works with is that of the cards.                      *)
LoneCourse ==
  ~overlapped =>
    \A i \in Installers :
      /\ job[i].step = "dropKey" => database.foreignKey
      /\ job[i].step = "restore" => job[i].hadKey
      /\ job[i].hadKey => job[i].step \in {"modify", "restore"} /\ ~database.foreignKey
      /\ job[i].step = "addSettings" => ~database.settings
      /\ ~torn /\ job[i].step \in AfterSchema \cup {"schema"} => job[i].key = "first"

(* An installation that is alone, with a config that no rewrite was cut     *)
(* short in before, fails for nothing of its own: unless it is interrupted  *)
(* it ends by writing the lock.                                             *)
OnlyLockEnds ==
  [][\A i \in Installers :
       Step(i) /\ job'[i].step = "idle" /\ ~torn /\ ~overlapped => WriteLock(i)]_vars

(* How far an installer is from its end: the step it is at, then the cards  *)
(* it has not begun, then the statements or chunks of where it is.          *)
Stage ==
  [s \in Steps |->
     CASE s = "prepare" -> 21 [] s = "readDb" -> 20 [] s = "openDb" -> 19
       [] s = "writeDb" -> 18 [] s = "systemKey" -> 17 [] s = "schema" -> 16
       [] s = "column" -> 15 [] s = "foreignKey" -> 14 [] s = "dropKey" -> 13
       [] s = "modify" -> 12 [] s = "restore" -> 11 [] s = "settings" -> 10
       [] s = "addSettings" -> 9 [] s = "cards" -> 8 [] s = "clear" -> 7
       [] s = "insert" -> 7 [] s = "admin" -> 6 [] s = "addAdmin" -> 5
       [] s = "readSecrets" -> 4 [] s = "openSecrets" -> 3
       [] s = "writeSecrets" -> 2 [] s = "lock" -> 1 [] s = "idle" -> 0]

Left(i) ==
  CASE job[i].step = "schema" -> Statements - database.tables
    [] job[i].step = "insert" -> Chunks - job[i].chunk + 1
    [] OTHER -> 0

Rank(i) == [stage |-> Stage[job[i].step], todo |-> job[i].todo, left |-> Left(i)]
Ranks == [stage : 0..21, todo : SUBSET Cards, left : Nat]

(* Lexicographic, and well-founded since there are finitely many cards.     *)
Lower(a, b) ==
  \/ a.stage < b.stage
  \/ /\ a.stage = b.stage
     /\ \/ a.todo \subseteq b.todo /\ a.todo # b.todo
        \/ a.todo = b.todo /\ a.left < b.left

EveryStepAdvances ==
  [][\A i \in Installers :
       /\ Step(i) => Lower(Rank(i)', Rank(i))
       /\ Rank(i)' = Rank(i) \/ Lower(Rank(i)', Rank(i)) \/ Begin(i)]_vars

LEMMA StageValues ==
  /\ Stage["prepare"] = 21 /\ Stage["readDb"] = 20 /\ Stage["openDb"] = 19
  /\ Stage["writeDb"] = 18 /\ Stage["systemKey"] = 17 /\ Stage["schema"] = 16
  /\ Stage["column"] = 15 /\ Stage["foreignKey"] = 14 /\ Stage["dropKey"] = 13
  /\ Stage["modify"] = 12 /\ Stage["restore"] = 11 /\ Stage["settings"] = 10
  /\ Stage["addSettings"] = 9 /\ Stage["cards"] = 8 /\ Stage["clear"] = 7
  /\ Stage["insert"] = 7 /\ Stage["admin"] = 6 /\ Stage["addAdmin"] = 5
  /\ Stage["readSecrets"] = 4 /\ Stage["openSecrets"] = 3
  /\ Stage["writeSecrets"] = 2 /\ Stage["lock"] = 1 /\ Stage["idle"] = 0
BY DEF Stage, Steps, Writing

LEMMA StageTypes ==
  /\ \A s \in Steps : Stage[s] \in 0..21
  /\ \A s \in Steps : Stage[s] = 0 => s = "idle"
BY StageValues DEF Steps, Writing

LEMMA RankTypes ==
  ASSUME TypeOK
  PROVE  \A i \in Installers : Rank(i) \in Ranks
<1> SUFFICES ASSUME NEW i \in Installers PROVE Rank(i) \in Ranks
  OBVIOUS
<1>1. job[i] \in Jobs /\ database \in Databases
  BY Types
<1>2. job[i].step \in Steps /\ job[i].todo \in SUBSET Cards /\ job[i].chunk \in 0..Chunks
      /\ database.tables \in 0..Statements
  BY <1>1 DEF Jobs, Databases
<1>3. Left(i) \in Nat
  BY <1>2, Counts DEF Left
<1> QED
  BY <1>2, <1>3, StageTypes DEF Rank, Ranks

(* The step that an installer takes, as far as its rank goes.               *)
LEMMA StageFalls ==
  ASSUME NEW i, Stage[job'[i].step] < Stage[job[i].step]
  PROVE  Lower(Rank(i)', Rank(i))
BY DEF Lower, Rank

LEMMA TodoShrinks ==
  ASSUME NEW i, Stage[job'[i].step] = Stage[job[i].step],
         job'[i].todo \subseteq job[i].todo, job'[i].todo # job[i].todo
  PROVE  Lower(Rank(i)', Rank(i))
BY DEF Lower, Rank

LEMMA LeftFalls ==
  ASSUME NEW i, Stage[job'[i].step] = Stage[job[i].step],
         job'[i].todo = job[i].todo, Left(i)' < Left(i)
  PROVE  Lower(Rank(i)', Rank(i))
BY DEF Lower, Rank

(* Where a step may lead.                                                   *)
LEMMA StepsAhead ==
  ASSUME TypeOK, NEW i \in Installers, Step(i)
  PROVE  Lower(Rank(i)', Rank(i))
<1>0. /\ job[i] \in Jobs /\ job \in [Installers -> Jobs] /\ database \in Databases
      /\ Statements \in Nat /\ Chunks \in Nat
  BY Types, Counts
<1>1. ASSUME NEW s, Goto(i, s) PROVE job'[i].step = s
  BY <1>0, <1>1 DEF Goto, Jobs
<1>2. Idle.step = "idle"
  BY DEF Idle
<1>3. ASSUME Fail(i) PROVE job'[i].step = "idle"
  BY <1>0, <1>2, <1>3 DEF Fail
<1>4. ASSUME Prepare(i) PROVE Lower(Rank(i)', Rank(i))
  BY <1>1, <1>4, StageValues, StageFalls DEF Prepare, At
<1>5. ASSUME ReadConfig(i) PROVE Lower(Rank(i)', Rank(i))
  <2>1. \/ job[i].step = "readDb" /\ job'[i].step = "openDb"
        \/ job[i].step = "readSecrets" /\ job'[i].step \in {"lock", "openSecrets"}
    <3>1. CASE job[i].step = "readDb"
      <4>1. job' = [job EXCEPT ![i] = [job[i] EXCEPT !.step = "openDb", !.content = config]]
        BY <1>5, <3>1 DEF ReadConfig, At
      <4> QED
        BY <1>0, <3>1, <4>1 DEF Jobs
    <3>2. CASE job[i].step = "readSecrets"
      <4>1. \E secrets :
              job' = [job EXCEPT ![i] =
                       [job[i] EXCEPT !.step = IF secrets = config THEN "lock" ELSE "openSecrets",
                                      !.content = secrets,
                                      !.token = TokenShown(config, secrets)]]
        BY <1>5, <3>2 DEF ReadConfig, At
      <4> QED
        BY <1>0, <3>2, <4>1 DEF Jobs
    <3> QED
      BY <1>5, <3>1, <3>2 DEF ReadConfig
  <2> QED
    BY <2>1, StageValues, StageFalls
<1>6. ASSUME OpenConfig(i) PROVE Lower(Rank(i)', Rank(i))
  BY <1>1, <1>6, StageValues, StageFalls DEF OpenConfig, At
<1>7. ASSUME WriteConfig(i) PROVE Lower(Rank(i)', Rank(i))
  BY <1>1, <1>7, StageValues, StageFalls DEF WriteConfig, At, Writing
<1>8. ASSUME SystemKey(i) PROVE Lower(Rank(i)', Rank(i))
  <2>1. job[i].step = "systemKey" /\ job'[i].step = "schema"
    BY <1>0, <1>8 DEF SystemKey, At, Jobs
  <2> QED
    BY <2>1, StageValues, StageFalls
<1>9. ASSUME Schema(i) PROVE Lower(Rank(i)', Rank(i))
  <2>1. job[i].step = "schema"
    BY <1>9 DEF Schema, At
  <2>2. CASE database.tables < Statements
    <3>1. job' = job
      BY <1>9, <2>2 DEF Schema
    <3>2. database'.tables = database.tables + 1 /\ database.tables \in 0..Statements
      BY <1>0, <1>9, <2>2 DEF Schema, Databases
    <3>3. Left(i)' < Left(i)
      BY <1>0, <2>1, <2>2, <3>1, <3>2 DEF Left
    <3> QED
      BY <3>1, <3>3, LeftFalls
  <2>3. CASE ~(database.tables < Statements)
    <3>1. job'[i].step = "column"
      BY <1>1, <1>9, <2>3 DEF Schema
    <3> QED
      BY <2>1, <3>1, StageValues, StageFalls
  <2> QED
    BY <2>2, <2>3
<1>10. ASSUME InspectColumn(i) \/ InspectForeignKey(i) \/ InspectSettings(i) \/ InspectAdmin(i)
       PROVE  Lower(Rank(i)', Rank(i))
  BY <1>1, <1>10, StageValues, StageFalls
     DEF InspectColumn, InspectForeignKey, InspectSettings, InspectAdmin, At
<1>11. ASSUME DropForeignKey(i) PROVE Lower(Rank(i)', Rank(i))
  <2>1. job'[i].step \in {"modify", "idle"}
    BY <1>0, <1>3, <1>11 DEF DropForeignKey, Jobs
  <2> QED
    BY <1>11, <2>1, StageValues, StageFalls DEF DropForeignKey, At
<1>12. ASSUME ModifyColumn(i) PROVE Lower(Rank(i)', Rank(i))
  BY <1>1, <1>12, StageValues, StageFalls DEF ModifyColumn, At
<1>13. ASSUME RestoreForeignKey(i) PROVE Lower(Rank(i)', Rank(i))
  <2>1. job'[i].step \in {"settings", "idle"}
    BY <1>0, <1>3, <1>13 DEF RestoreForeignKey, Jobs
  <2> QED
    BY <1>13, <2>1, StageValues, StageFalls DEF RestoreForeignKey, At
<1>14. ASSUME AddSettings(i) \/ AddAdmin(i) PROVE Lower(Rank(i)', Rank(i))
  BY <1>1, <1>3, <1>14, StageValues, StageFalls DEF AddSettings, AddAdmin, At
<1>15. ASSUME SelectCards(i) PROVE Lower(Rank(i)', Rank(i))
  <2>1. job[i].step = "cards" /\ job'[i].step = "clear"
    BY <1>0, <1>15 DEF SelectCards, At, Jobs
  <2> QED
    BY <2>1, StageValues, StageFalls
<1>16. ASSUME ClearCard(i) PROVE Lower(Rank(i)', Rank(i))
  <2>1. job[i].step = "clear"
    BY <1>16 DEF ClearCard, At
  <2>2. CASE job[i].key # "first"
    BY <1>3, <1>16, <2>1, <2>2, StageValues, StageFalls DEF ClearCard
  <2>3. CASE job[i].key = "first"
    <3>1. PICK c \in job[i].todo :
             job' = [job EXCEPT ![i].step = "insert", ![i].at = {c}, ![i].todo = @ \ {c}]
      BY <1>16, <2>3 DEF ClearCard
    <3>2. job'[i].step = "insert" /\ job'[i].todo = job[i].todo \ {c}
      BY <1>0, <3>1 DEF Jobs
    <3> QED
      BY <2>1, <3>1, <3>2, StageValues, TodoShrinks
  <2> QED
    BY <2>2, <2>3
<1>17. ASSUME InsertChunk(i) PROVE Lower(Rank(i)', Rank(i))
  <2>1. /\ job[i].step = "insert" /\ job'[i].step = "insert"
        /\ job'[i].todo = job[i].todo /\ job'[i].chunk = job[i].chunk + 1
        /\ job[i].chunk \in Nat
    BY <1>0, <1>17 DEF InsertChunk, At, Jobs
  <2>2. Left(i)' < Left(i)
    BY <1>0, <2>1 DEF Left
  <2> QED
    BY <2>1, <2>2, LeftFalls
<1>18. ASSUME CardDone(i) PROVE Lower(Rank(i)', Rank(i))
  <2>1. /\ job[i].step = "insert" /\ job'[i].step = "clear"
        /\ job'[i].todo = job[i].todo /\ job[i].chunk = Chunks
    BY <1>0, <1>18 DEF CardDone, At, Jobs
  <2>2. Left(i) = 1 /\ Left(i)' = 0
    BY <1>0, <2>1 DEF Left
  <2> QED
    BY <2>1, <2>2, StageValues, LeftFalls
<1>19. ASSUME CardsDone(i) PROVE Lower(Rank(i)', Rank(i))
  BY <1>1, <1>19, StageValues, StageFalls DEF CardsDone, At
<1>20. ASSUME ReadFails(i) PROVE Lower(Rank(i)', Rank(i))
  BY <1>3, <1>20, StageValues, StageFalls DEF ReadFails
<1>21. ASSUME WriteLock(i) PROVE Lower(Rank(i)', Rank(i))
  <2>1. job'[i].step = "idle"
    BY <1>0, <1>2, <1>21 DEF WriteLock
  <2> QED
    BY <1>21, <2>1, StageValues, StageFalls DEF WriteLock, At
<1> QED
  BY <1>4, <1>5, <1>6, <1>7, <1>8, <1>9, <1>10, <1>11, <1>12, <1>13, <1>14, <1>15,
     <1>16, <1>17, <1>18, <1>19, <1>20, <1>21 DEF Step

(* Others only spare an installer schema statements, or end it with the     *)
(* process.                                                                 *)
LEMMA OthersSpare ==
  ASSUME TypeOK, TypeOK', NEW i \in Installers, job'[i] = job[i],
         database'.tables >= database.tables
  PROVE  Rank(i)' = Rank(i) \/ Lower(Rank(i)', Rank(i))
<1>1. /\ database.tables \in 0..Statements /\ database'.tables \in 0..Statements
      /\ Statements \in Nat
  BY Types, Counts DEF Databases, TypeOK
<1>2. Left(i)' = Left(i) \/ Left(i)' < Left(i)
  BY <1>1 DEF Left
<1>3. CASE Left(i)' = Left(i)
  BY <1>3 DEF Rank
<1>4. CASE Left(i)' < Left(i)
  BY <1>4, LeftFalls
<1> QED
  BY <1>2, <1>3, <1>4

(* The schema only grows.                                                   *)
LEMMA TablesGrow ==
  ASSUME TypeOK, [Next]_vars
  PROVE  database'.tables >= database.tables
<1>0. database \in Databases /\ database.tables \in Nat
  BY Types, Counts DEF Databases
<1>1. ASSUME database' = database PROVE database'.tables >= database.tables
  <2>1. database'.tables = database.tables
    BY <1>1
  <2> QED
    BY <1>0, <2>1
<1>2. ASSUME NEW i \in Installers, Schema(i) PROVE database'.tables >= database.tables
  <2>1. database'.tables \in {database.tables, database.tables + 1}
    BY <1>0, <1>2 DEF Schema, Databases
  <2> QED
    BY <1>0, <2>1
<1>3. ASSUME NEW i \in Installers,
             \/ DropForeignKey(i) \/ ModifyColumn(i) \/ RestoreForeignKey(i)
             \/ AddSettings(i) \/ AddAdmin(i)
      PROVE  database'.tables >= database.tables
  <2>1. database'.tables = database.tables
    BY <1>0, <1>3
       DEF DropForeignKey, ModifyColumn, RestoreForeignKey, AddSettings, AddAdmin, Databases
  <2> QED
    BY <1>0, <2>1
<1>4. ASSUME NEW i \in Installers, Step(i) PROVE database'.tables >= database.tables
  BY <1>1, <1>2, <1>3, <1>4
     DEF Step, Prepare, ReadConfig, OpenConfig, WriteConfig, SystemKey, InspectColumn,
         InspectForeignKey, InspectSettings, SelectCards, ClearCard, InsertChunk, CardDone,
         CardsDone, InspectAdmin, WriteLock, ReadFails
<1>5. ASSUME NEW i \in Installers, Begin(i) \/ Interrupted(i) PROVE database' = database
  BY <1>5 DEF Begin, Interrupted, Abort, WriteFails, LockFails
<1>6. CASE Crash \/ UNCHANGED vars
  BY <1>1, <1>6 DEF Crash, vars
<1> QED
  BY <1>1, <1>4, <1>5, <1>6 DEF Next, Interrupted

(* Every step of an installer but the crash writes its own record only.     *)
LEMMA OnlyOwnJob ==
  ASSUME job \in [Installers -> Jobs], NEW j \in Installers,
         Begin(j) \/ Step(j) \/ Interrupted(j)
  PROVE  \E r : job' = [job EXCEPT ![j] = r]
<1>1. ASSUME job' = job PROVE job' = [job EXCEPT ![j] = job[j]]
  BY <1>1
<1>2. ASSUME NEW s, Goto(j, s) PROVE job' = [job EXCEPT ![j] = [job[j] EXCEPT !.step = s]]
  BY <1>2 DEF Goto
<1>3. ASSUME Fail(j) PROVE job' = [job EXCEPT ![j] = Idle]
  BY <1>3 DEF Fail
<1> QED
  BY <1>1, <1>2, <1>3
     DEF Begin, Interrupted, Abort, WriteFails, LockFails, ReadFails, Step, Prepare, ReadConfig, OpenConfig, WriteConfig, SystemKey, Schema,
         InspectColumn, InspectForeignKey, DropForeignKey, ModifyColumn, RestoreForeignKey,
         InspectSettings, AddSettings, SelectCards, ClearCard, InsertChunk, CardDone, CardsDone,
         InspectAdmin, AddAdmin, WriteLock

LEMMA Advances ==
  ASSUME TypeOK, TypeOK', [Next]_vars, NEW i \in Installers
  PROVE  /\ Step(i) => Lower(Rank(i)', Rank(i))
         /\ Rank(i)' = Rank(i) \/ Lower(Rank(i)', Rank(i)) \/ Begin(i)
<1>0. job \in [Installers -> Jobs] /\ database'.tables >= database.tables
  BY Types, TablesGrow
<1>1. ASSUME job'[i] = job[i]
      PROVE  Rank(i)' = Rank(i) \/ Lower(Rank(i)', Rank(i))
  BY <1>0, <1>1, OthersSpare
<1>2. ASSUME job'[i] = Idle
      PROVE  Rank(i)' = Rank(i) \/ Lower(Rank(i)', Rank(i))
  <2>1. job'[i].step = "idle" /\ Idle.todo = {}
    BY <1>2 DEF Idle
  <2>2. CASE job[i].step = "idle"
    <3>1. Left(i) = 0 /\ Left(i)' = 0
      BY <2>1, <2>2 DEF Left
    <3>2. Rank(i)'.stage = Rank(i).stage /\ Rank(i)'.left = Rank(i).left
      BY <2>1, <2>2, <3>1 DEF Rank
    <3>3. Rank(i)'.todo = {} /\ Rank(i).todo = job[i].todo
      BY <1>2, <2>1 DEF Rank
    <3>4. CASE job[i].todo = {}
      BY <1>2, <2>1, <2>2, <3>1, <3>4 DEF Rank
    <3>5. CASE job[i].todo # {}
      BY <3>2, <3>3, <3>5 DEF Lower
    <3> QED
      BY <3>4, <3>5
  <2>3. CASE job[i].step # "idle"
    <3>1. job[i].step \in Steps
      BY <1>0 DEF Jobs
    <3>2. Stage[job'[i].step] < Stage[job[i].step]
      BY <2>1, <2>3, <3>1, StageTypes, StageValues
    <3> QED
      BY <3>2, StageFalls
  <2> QED
    BY <2>2, <2>3
<1>3. ASSUME NEW j \in Installers, j # i, Begin(j) \/ Step(j) \/ Interrupted(j)
      PROVE  job'[i] = job[i]
  <2>1. \E r : job' = [job EXCEPT ![j] = r]
    BY <1>0, <1>3, OnlyOwnJob
  <2> QED
    BY <1>0, <1>3, <2>1
<1>4. ASSUME NEW j \in Installers, Interrupted(j) PROVE job'[j] = Idle
  BY <1>0, <1>4 DEF Interrupted, Abort, WriteFails, LockFails, Fail
<1>5. ASSUME Crash PROVE Rank(i)' = Rank(i) \/ Lower(Rank(i)', Rank(i))
  BY <1>2, <1>5 DEF Crash
<1>6. ASSUME UNCHANGED vars PROVE Rank(i)' = Rank(i) \/ Lower(Rank(i)', Rank(i))
  BY <1>1, <1>6 DEF vars
<1> QED
  BY <1>1, <1>2, <1>3, <1>4, <1>5, <1>6, StepsAhead DEF Next, Interrupted

(* No installation goes on for ever: each of its own steps brings it nearer *)
(* to its end, and nobody else's sets it back.                              *)
THEOREM InstallationsEnd == Spec => EveryStepAdvances /\ [](\A i \in Installers : Rank(i) \in Ranks)
<1> DEFINE Typed == \A i \in Installers : Rank(i) \in Ranks
           Onward == \A i \in Installers :
                       /\ Step(i) => Lower(Rank(i)', Rank(i))
                       /\ Rank(i)' = Rank(i) \/ Lower(Rank(i)', Rank(i)) \/ Begin(i)
<1>1. TypeOK => Typed
  BY RankTypes
<1>2. TypeOK /\ TypeOK' /\ [Next]_vars => Onward
  BY Advances
<1> HIDE DEF Typed, Onward
<1>3. Spec => []Typed /\ [][Onward]_vars
  BY <1>1, <1>2, InstallerTypes, PTL DEF Spec
<1> QED
  BY <1>3 DEF Typed, Onward, EveryStepAdvances

LEMMA LoneStart == Init => LoneCourse
BY DEF Init, Idle, LoneCourse, AfterSchema, AfterColumn, AfterSettings, AfterAdmin

(* A step of an installer that is alone need only keep its own course.      *)
LEMMA OwnCourse ==
  ASSUME InstallerInv, LoneCourse, NEW i \in Installers, Step(i), NEW r,
         job' = [job EXCEPT ![i] = r],
         ~overlapped =>
           /\ r.step = "dropKey" => database'.foreignKey
           /\ r.step = "restore" => r.hadKey
           /\ r.hadKey => r.step \in {"modify", "restore"} /\ ~database'.foreignKey
           /\ r.step = "addSettings" => ~database'.settings
           /\ ~torn /\ r.step \in AfterSchema \cup {"schema"} => r.key = "first"
  PROVE  LoneCourse'
<1>0. job \in [Installers -> Jobs]
  BY Types DEF InstallerInv
<1>1. overlapped' = overlapped /\ torn' = torn
  BY DEF Step, Prepare, ReadConfig, OpenConfig, WriteConfig, SystemKey, Schema, InspectColumn,
         InspectForeignKey, DropForeignKey, ModifyColumn, RestoreForeignKey, InspectSettings,
         AddSettings, SelectCards, ClearCard, InsertChunk, CardDone, CardsDone, InspectAdmin,
         AddAdmin, WriteLock, ReadFails, History
<1>2. job[i].step # "idle"
  BY DEF Step, Prepare, ReadConfig, OpenConfig, WriteConfig, SystemKey, Schema, InspectColumn,
         InspectForeignKey, DropForeignKey, ModifyColumn, RestoreForeignKey, InspectSettings,
         AddSettings, SelectCards, ClearCard, InsertChunk, CardDone, CardsDone, InspectAdmin,
         AddAdmin, WriteLock, ReadFails, At, Writing
<1>3. ASSUME ~overlapped, NEW j \in Installers, j # i
      PROVE  job'[j] = job[j] /\ job[j].step = "idle"
  BY <1>0, <1>2, <1>3 DEF InstallerInv, OneAccount
<1>4. job'[i] = r
  BY <1>0
<1> QED
  BY <1>1, <1>3, <1>4 DEF LoneCourse, AfterSchema, AfterColumn, AfterSettings, AfterAdmin

LEMMA GoesOn ==
  ASSUME InstallerInv, LoneCourse, NEW i \in Installers, Step(i), NEW s \in Steps, Goto(i, s),
         ~overlapped =>
           /\ s = "dropKey" => database'.foreignKey
           /\ s = "restore" => job[i].hadKey
           /\ job[i].hadKey => s \in {"modify", "restore"} /\ ~database'.foreignKey
           /\ s = "addSettings" => ~database'.settings
           /\ ~torn /\ s \in AfterSchema \cup {"schema"} => job[i].key = "first"
  PROVE  LoneCourse'
<1> DEFINE r == [job[i] EXCEPT !.step = s]
<1>1. job[i] \in Jobs
  BY Types DEF InstallerInv
<1>2. r.step = s /\ r.hadKey = job[i].hadKey /\ r.key = job[i].key
  BY <1>1 DEF Jobs
<1>3. job' = [job EXCEPT ![i] = r]
  BY DEF Goto
<1> HIDE DEF r
<1> QED
  BY <1>2, <1>3, OwnCourse

LEMMA EndsCourse ==
  ASSUME InstallerInv, LoneCourse, NEW i \in Installers, Step(i), job' = [job EXCEPT ![i] = Idle]
  PROVE  LoneCourse'
<1>1. Idle.step = "idle" /\ Idle.hadKey = FALSE
  BY DEF Idle
<1> QED
  BY <1>1, OwnCourse DEF AfterSchema, AfterColumn, AfterSettings, AfterAdmin

(* The steps that go on where they see they may.                            *)
LEMMA LooksOn ==
  ASSUME InstallerInv, LoneCourse, NEW i \in Installers, Step(i),
         \/ Prepare(i) \/ OpenConfig(i) \/ WriteConfig(i) \/ InspectColumn(i)
         \/ InspectForeignKey(i) \/ InspectSettings(i) \/ CardsDone(i) \/ InspectAdmin(i)
  PROVE  LoneCourse'
<1>1. ASSUME NEW s \in Steps, Goto(i, s), job[i].step \notin {"modify", "restore", "idle"},
             s # "restore", s = "dropKey" => database'.foreignKey,
             s = "addSettings" => ~database'.settings, s # "schema",
             s \in AfterSchema => job[i].step \in AfterSchema
      PROVE  LoneCourse'
  BY <1>1, GoesOn DEF LoneCourse
<1>2. {"readDb", "writeDb", "writeSecrets", "systemKey", "lock", "settings", "foreignKey",
       "dropKey", "modify", "cards", "addSettings", "admin", "addAdmin", "readSecrets"} \subseteq Steps
  BY DEF Steps, Writing
<1>3. CASE Prepare(i)
  BY <1>1, <1>2, <1>3 DEF Prepare, At, AfterSchema, AfterColumn, AfterSettings, AfterAdmin
<1>4. CASE OpenConfig(i)
  BY <1>1, <1>2, <1>4 DEF OpenConfig, At, AfterSchema, AfterColumn, AfterSettings, AfterAdmin
<1>5. CASE WriteConfig(i)
  BY <1>1, <1>2, <1>5
     DEF WriteConfig, At, Writing, AfterSchema, AfterColumn, AfterSettings, AfterAdmin
<1>6. CASE InspectColumn(i)
  BY <1>1, <1>2, <1>6 DEF InspectColumn, At, AfterSchema, AfterColumn, AfterSettings, AfterAdmin
<1>7. CASE InspectForeignKey(i)
  BY <1>1, <1>2, <1>7
     DEF InspectForeignKey, At, AfterSchema, AfterColumn, AfterSettings, AfterAdmin
<1>8. CASE InspectSettings(i)
  BY <1>1, <1>2, <1>8
     DEF InspectSettings, At, AfterSchema, AfterColumn, AfterSettings, AfterAdmin
<1>9. CASE CardsDone(i)
  BY <1>1, <1>2, <1>9 DEF CardsDone, At, AfterSchema, AfterColumn, AfterSettings, AfterAdmin
<1>10. CASE InspectAdmin(i)
  BY <1>1, <1>2, <1>10 DEF InspectAdmin, At, AfterSchema, AfterColumn, AfterSettings, AfterAdmin
<1> QED
  BY <1>3, <1>4, <1>5, <1>6, <1>7, <1>8, <1>9, <1>10

(* The steps that change the database.                                      *)
LEMMA ChangesOn ==
  ASSUME InstallerInv, LoneCourse, NEW i \in Installers, Step(i),
         \/ Schema(i) \/ DropForeignKey(i) \/ ModifyColumn(i)
         \/ RestoreForeignKey(i) \/ AddSettings(i) \/ AddAdmin(i)
  PROVE  LoneCourse'
<1>0. /\ job[i] \in Jobs /\ database \in Databases
      /\ {"column", "modify", "restore", "settings", "cards", "readSecrets"} \subseteq Steps
  BY Types DEF InstallerInv, Steps, Writing
<1>1. CASE Schema(i)
  <2>1. job[i].step = "schema"
    BY <1>1 DEF Schema, At
  <2>2. CASE database.tables < Statements
    <3>1. job' = job
      BY <1>1, <2>2 DEF Schema
    <3>2. job' = [job EXCEPT ![i] = job[i]]
      BY <3>1, Types DEF InstallerInv
    <3> QED
      BY <2>1, <3>2, OwnCourse DEF LoneCourse
  <2>3. CASE ~(database.tables < Statements)
    BY <1>0, <1>1, <2>1, <2>3, GoesOn DEF Schema, LoneCourse
  <2> QED
    BY <2>2, <2>3
<1>2. CASE DropForeignKey(i)
  <2>1. job[i].step = "dropKey"
    BY <1>2 DEF DropForeignKey, At
  <2>2. CASE database.foreignKey
    <3> DEFINE r == [job[i] EXCEPT !.step = "modify", !.hadKey = TRUE]
    <3>1. job' = [job EXCEPT ![i] = r] /\ database'.foreignKey = FALSE
      BY <1>0, <1>2, <2>2 DEF DropForeignKey, Databases
    <3>2. r.step = "modify" /\ r.hadKey = TRUE /\ r.key = job[i].key
      BY <1>0 DEF Jobs
    <3>3. ~overlapped /\ ~torn => job[i].key = "first"
      BY <2>1 DEF LoneCourse, AfterSchema
    <3> HIDE DEF r
    <3> QED
      BY <3>1, <3>2, <3>3, OwnCourse
  <2>3. CASE ~database.foreignKey
    BY <1>2, <2>3, EndsCourse DEF DropForeignKey, Fail
  <2> QED
    BY <2>2, <2>3
<1>3. CASE ModifyColumn(i)
  <2>1. /\ job[i].step = "modify" /\ database'.foreignKey = database.foreignKey
        /\ Goto(i, IF job[i].hadKey THEN "restore" ELSE "settings")
    BY <1>0, <1>3 DEF ModifyColumn, At, Databases
  <2>2. ~overlapped =>
          /\ job[i].hadKey => ~database'.foreignKey
          /\ ~torn => job[i].key = "first"
    BY <2>1 DEF LoneCourse, AfterSchema
  <2> QED
    BY <1>0, <2>1, <2>2, GoesOn
<1>4. CASE RestoreForeignKey(i)
  <2>1. job[i].step = "restore"
    BY <1>4 DEF RestoreForeignKey, At
  <2>2. CASE ~database.foreignKey
    <3> DEFINE r == [job[i] EXCEPT !.step = "settings", !.hadKey = FALSE]
    <3>1. job' = [job EXCEPT ![i] = r]
      BY <1>4, <2>2 DEF RestoreForeignKey
    <3>2. r.step = "settings" /\ r.hadKey = FALSE /\ r.key = job[i].key
      BY <1>0 DEF Jobs
    <3>3. ~overlapped /\ ~torn => job[i].key = "first"
      BY <2>1 DEF LoneCourse, AfterSchema, AfterColumn
    <3> HIDE DEF r
    <3> QED
      BY <3>1, <3>2, <3>3, OwnCourse
  <2>3. CASE database.foreignKey
    BY <1>4, <2>3, EndsCourse DEF RestoreForeignKey, Fail
  <2> QED
    BY <2>2, <2>3
<1>5. CASE AddSettings(i)
  <2>1. job[i].step = "addSettings"
    BY <1>5 DEF AddSettings, At
  <2>2. CASE ~database.settings
    BY <1>0, <1>5, <2>1, <2>2, GoesOn
       DEF AddSettings, LoneCourse, AfterSchema, AfterColumn
  <2>3. CASE database.settings
    BY <1>5, <2>3, EndsCourse DEF AddSettings, Fail
  <2> QED
    BY <2>2, <2>3
<1>6. CASE AddAdmin(i)
  <2>1. job[i].step = "addAdmin"
    BY <1>6 DEF AddAdmin, At
  <2>2. CASE i \notin database.admins
    BY <1>0, <1>6, <2>1, <2>2, GoesOn
       DEF AddAdmin, LoneCourse, AfterSchema, AfterColumn, AfterSettings
  <2>3. CASE i \in database.admins
    BY <1>6, <2>3, EndsCourse DEF AddAdmin, Fail
  <2> QED
    BY <2>2, <2>3
<1> QED
  BY <1>1, <1>2, <1>3, <1>4, <1>5, <1>6

(* The other steps write some of the record; the key is only read where the *)
(* config has the one of the cards.                                         *)
LEMMA WritesOn ==
  ASSUME InstallerInv, LoneCourse, NEW i \in Installers, Step(i),
         \/ ReadConfig(i) \/ SystemKey(i) \/ SelectCards(i) \/ ClearCard(i)
         \/ InsertChunk(i) \/ CardDone(i) \/ WriteLock(i)
  PROVE  LoneCourse'
<1>0. job \in [Installers -> Jobs] /\ job[i] \in Jobs
  BY Types DEF InstallerInv
<1>1. ASSUME NEW r, job' = [job EXCEPT ![i] = r], r.hadKey = job[i].hadKey,
             r.key = job[i].key, job[i].step \notin {"modify", "restore", "idle"},
             r.step \notin {"dropKey", "restore", "addSettings", "schema"},
             r.step \in AfterSchema => job[i].step \in AfterSchema
      PROVE  LoneCourse'
  BY <1>1, OwnCourse DEF LoneCourse
<1>2. CASE ReadConfig(i)
  <2>1. \E r :
          /\ job' = [job EXCEPT ![i] = r]
          /\ r.hadKey = job[i].hadKey /\ r.key = job[i].key
          /\ \/ job[i].step = "readDb" /\ r.step = "openDb"
             \/ job[i].step = "readSecrets" /\ r.step \in {"lock", "openSecrets"}
    <3>1. CASE job[i].step = "readDb"
      <4> DEFINE r == [job[i] EXCEPT !.step = "openDb", !.content = config]
      <4>1. job' = [job EXCEPT ![i] = r]
        BY <1>2, <3>1 DEF ReadConfig, At
      <4>2. r.hadKey = job[i].hadKey /\ r.key = job[i].key /\ r.step = "openDb"
        BY <1>0 DEF Jobs
      <4> HIDE DEF r
      <4> QED
        BY <3>1, <4>1, <4>2
    <3>2. CASE job[i].step = "readSecrets"
      <4> DEFINE secrets == WithSecrets(config, i)
                 r == [job[i] EXCEPT !.step = IF secrets = config THEN "lock" ELSE "openSecrets",
                                     !.content = secrets,
                                     !.token = TokenShown(config, secrets)]
      <4>1. job' = [job EXCEPT ![i] = r]
        BY <1>2, <3>2 DEF ReadConfig, At
      <4> HIDE DEF secrets
      <4>2. /\ r.hadKey = job[i].hadKey /\ r.key = job[i].key
            /\ r.step \in {"lock", "openSecrets"}
        BY <1>0 DEF Jobs
      <4> HIDE DEF r
      <4> QED
        BY <3>2, <4>1, <4>2
    <3> QED
      BY <1>2, <3>1, <3>2 DEF ReadConfig
  <2> QED
    BY <1>1, <2>1 DEF AfterSchema, AfterColumn, AfterSettings, AfterAdmin
<1>3. CASE SystemKey(i)
  <2> DEFINE r == [job[i] EXCEPT !.step = "schema", !.key = config.key]
  <2>1. job' = [job EXCEPT ![i] = r] /\ job[i].step = "systemKey"
    BY <1>3 DEF SystemKey, At
  <2>2. r.step = "schema" /\ r.key = config.key /\ r.hadKey = job[i].hadKey
    BY <1>0 DEF Jobs
  <2>3. ~overlapped => ~job[i].hadKey
    BY <2>1 DEF LoneCourse
  <2>4. ~overlapped /\ ~torn => config.key = "first"
    <3>1. ~overlapped => \A j \in Installers : job[j].step \notin Writing
      BY <2>1 DEF InstallerInv, OneAccount, Writing
    <3> QED
      BY <3>1 DEF InstallerInv, SecretsHeld, Held
  <2> HIDE DEF r
  <2>5. ~overlapped => ~r.hadKey
    BY <1>0, <2>2, <2>3 DEF Jobs
  <2> QED
    BY <2>1, <2>2, <2>4, <2>5, OwnCourse
<1>4. CASE SelectCards(i)
  <2>1. PICK todo : job' = [job EXCEPT ![i] = [job[i] EXCEPT !.todo = todo, !.step = "clear"]]
    BY <1>4 DEF SelectCards
  <2>2. \E r : /\ job' = [job EXCEPT ![i] = r]
               /\ r.hadKey = job[i].hadKey /\ r.key = job[i].key /\ r.step = "clear"
    <3> DEFINE r == [job[i] EXCEPT !.todo = todo, !.step = "clear"]
    <3>1. job' = [job EXCEPT ![i] = r]
      BY <2>1
    <3>2. r.hadKey = job[i].hadKey /\ r.key = job[i].key /\ r.step = "clear"
      BY <1>0 DEF Jobs
    <3> HIDE DEF r
    <3> QED
      BY <3>1, <3>2
  <2>3. job[i].step = "cards"
    BY <1>4 DEF SelectCards, At
  <2> QED
    BY <1>1, <2>2, <2>3 DEF AfterSchema, AfterColumn, AfterSettings, AfterAdmin
<1>5. CASE ClearCard(i)
  <2>1. job[i].step = "clear"
    BY <1>5 DEF ClearCard, At
  <2>2. CASE job[i].key # "first"
    BY <1>5, <2>2, EndsCourse DEF ClearCard, Fail
  <2>3. CASE job[i].key = "first"
    <3>1. PICK c : job' = [job EXCEPT ![i] = [job[i] EXCEPT !.step = "insert", !.at = {c},
                                                            !.todo = @ \ {c}]]
      BY <1>5, <2>3 DEF ClearCard
    <3>2. \E r : /\ job' = [job EXCEPT ![i] = r]
                 /\ r.hadKey = job[i].hadKey /\ r.key = job[i].key /\ r.step = "insert"
      <4> DEFINE r == [job[i] EXCEPT !.step = "insert", !.at = {c}, !.todo = @ \ {c}]
      <4>1. job' = [job EXCEPT ![i] = r]
        BY <3>1
      <4>2. r.hadKey = job[i].hadKey /\ r.key = job[i].key /\ r.step = "insert"
        BY <1>0 DEF Jobs
      <4> HIDE DEF r
      <4> QED
        BY <4>1, <4>2
    <3> QED
      BY <1>1, <2>1, <3>2 DEF AfterSchema, AfterColumn, AfterSettings
  <2> QED
    BY <2>2, <2>3
<1>6. CASE InsertChunk(i) \/ CardDone(i)
  <2>1. \E r : /\ job' = [job EXCEPT ![i] = r]
               /\ r.hadKey = job[i].hadKey /\ r.key = job[i].key
               /\ r.step \in {"insert", "clear"}
    <3>1. CASE InsertChunk(i)
      <4> DEFINE r == [job[i] EXCEPT !.chunk = @ + 1]
      <4>1. job' = [job EXCEPT ![i] = r] /\ job[i].step = "insert"
        BY <3>1 DEF InsertChunk, At
      <4>2. r.hadKey = job[i].hadKey /\ r.key = job[i].key /\ r.step = job[i].step
        BY <1>0 DEF Jobs
      <4> HIDE DEF r
      <4> QED
        BY <4>1, <4>2
    <3>2. CASE CardDone(i)
      <4> DEFINE r == [job[i] EXCEPT !.step = "clear", !.at = {}, !.chunk = 0]
      <4>1. job' = [job EXCEPT ![i] = r]
        BY <3>2 DEF CardDone
      <4>2. r.hadKey = job[i].hadKey /\ r.key = job[i].key /\ r.step = "clear"
        BY <1>0 DEF Jobs
      <4> HIDE DEF r
      <4> QED
        BY <4>1, <4>2
    <3> QED
      BY <1>6, <3>1, <3>2
  <2>2. job[i].step = "insert"
    BY <1>6 DEF InsertChunk, CardDone, At
  <2> QED
    BY <1>1, <2>1, <2>2 DEF AfterSchema, AfterColumn, AfterSettings
<1>7. CASE WriteLock(i)
  BY <1>7, EndsCourse DEF WriteLock
<1> QED
  BY <1>2, <1>3, <1>4, <1>5, <1>6, <1>7

LEMMA LoneStep == InstallerInv /\ LoneCourse /\ [Next]_vars => LoneCourse'
<1> SUFFICES ASSUME InstallerInv, LoneCourse, [Next]_vars PROVE LoneCourse'
  OBVIOUS
<1>0. job \in [Installers -> Jobs]
  BY Types DEF InstallerInv
<1>1. ASSUME NEW i \in Installers, Step(i) PROVE LoneCourse'
  BY <1>1, LooksOn, ChangesOn, WritesOn, EndsCourse DEF Step, ReadFails, Fail
<1>2. ASSUME NEW i \in Installers, Begin(i) PROVE LoneCourse'
  <2>1. /\ job' = [job EXCEPT ![i] = [job[i] EXCEPT !.step = "prepare"]]
        /\ overlapped' = (overlapped \/ Running # {})
        /\ job[i].step = "idle" /\ database' = database /\ torn' = torn
    BY <1>2 DEF Begin, Goto, At
  <2>2. job'[i].step = "prepare" /\ job'[i].hadKey = job[i].hadKey
    BY <1>0, <2>1 DEF Jobs
  <2>3. \A j \in Installers : j # i => job'[j] = job[j]
    BY <1>0, <2>1
  <2>4. ~overlapped' => ~overlapped
    BY <2>1
  <2> QED
    BY <2>1, <2>2, <2>3, <2>4 DEF LoneCourse, AfterSchema, AfterColumn, AfterSettings, AfterAdmin
<1>3. ASSUME NEW i \in Installers, Interrupted(i) PROVE LoneCourse'
  <2>1. /\ \A j \in Installers : job'[j] = Idle \/ job'[j] = job[j]
        /\ UNCHANGED <<database, overlapped>> /\ (~torn' => ~torn)
    BY <1>0, <1>3 DEF Interrupted, Abort, WriteFails, LockFails, Fail
  <2> QED
    BY <2>1 DEF LoneCourse, Idle, AfterSchema, AfterColumn, AfterSettings, AfterAdmin
<1>4. CASE Crash
  BY <1>4 DEF Crash, LoneCourse, Idle, AfterSchema, AfterColumn, AfterSettings, AfterAdmin
<1>5. CASE UNCHANGED vars
  BY <1>5 DEF vars, LoneCourse
<1> QED
  BY <1>1, <1>2, <1>3, <1>4, <1>5 DEF Next, Interrupted

(* An installation fails for a reason: it was interrupted (the visitor or   *)
(* the process left, a statement or a file operation failed), a second one  *)
(* ran, or a rewrite of the config was once cut short.                      *)
THEOREM LoneInstallationsComplete == Spec => OnlyLockEnds
<1> DEFINE Ends == \A i \in Installers :
                     Step(i) /\ job'[i].step = "idle" /\ ~torn /\ ~overlapped => WriteLock(i)
<1>1. ASSUME InstallerInv, LoneCourse, NEW i \in Installers, Step(i),
             job'[i].step = "idle", ~torn, ~overlapped, ~WriteLock(i)
      PROVE  FALSE
  <2>0. job \in [Installers -> Jobs] /\ job[i] \in Jobs
    BY <1>1, Types DEF InstallerInv
  <2>1. ASSUME NEW s, Goto(i, s) PROVE s = "idle"
    BY <1>1, <2>0, <2>1 DEF Goto, Jobs
  <2>2. ~DropForeignKey(i) /\ ~RestoreForeignKey(i)
    BY <1>1, <2>0 DEF LoneCourse, DropForeignKey, RestoreForeignKey, At, Jobs
  <2>3. ~AddSettings(i) /\ ~AddAdmin(i)
    <3>1. job[i].step = "addAdmin" => database.admins = {}
      BY <1>1 DEF InstallerInv, OneAccount
    <3> QED
      BY <1>1, <2>1, <3>1 DEF LoneCourse, AddSettings, AddAdmin, At
  <2>4. ~ClearCard(i)
    <3>1. job[i].step = "clear" => job[i].key = "first"
      BY <1>1 DEF LoneCourse, AfterSchema, AfterColumn, AfterSettings
    <3>2. ASSUME ClearCard(i) PROVE job'[i].step = "insert"
      <4>1. PICK c : job' = [job EXCEPT ![i] = [job[i] EXCEPT !.step = "insert", !.at = {c},
                                                              !.todo = @ \ {c}]]
        BY <3>1, <3>2 DEF ClearCard, At
      <4> QED
        BY <2>0, <4>1 DEF Jobs
    <3> QED
      BY <1>1, <3>2
  <2>5. ~ReadConfig(i)
    <3>1. ASSUME ReadConfig(i) PROVE job'[i].step \in {"openDb", "lock", "openSecrets"}
      <4>1. CASE job[i].step = "readDb"
        BY <2>0, <3>1, <4>1 DEF ReadConfig, At, Jobs
      <4>2. CASE job[i].step = "readSecrets"
        <5>1. \E secrets :
                job' = [job EXCEPT ![i] =
                         [job[i] EXCEPT !.step = IF secrets = config THEN "lock" ELSE "openSecrets",
                                        !.content = secrets,
                                        !.token = TokenShown(config, secrets)]]
          BY <3>1, <4>2 DEF ReadConfig, At
        <5> QED
          BY <2>0, <5>1 DEF Jobs
      <4> QED
        BY <3>1, <4>1, <4>2 DEF ReadConfig
    <3> QED
      BY <1>1, <3>1
  <2>6. ~SystemKey(i) /\ ~SelectCards(i) /\ ~InsertChunk(i) /\ ~CardDone(i)
    <3>1. ASSUME SystemKey(i) PROVE job'[i].step = "schema"
      BY <2>0, <3>1 DEF SystemKey, Jobs
    <3>2. ASSUME SelectCards(i) PROVE job'[i].step = "clear"
      <4>1. PICK todo : job' = [job EXCEPT ![i] = [job[i] EXCEPT !.todo = todo, !.step = "clear"]]
        BY <3>2 DEF SelectCards
      <4> QED
        BY <2>0, <4>1 DEF Jobs
    <3>3. ASSUME InsertChunk(i) PROVE job'[i].step = "insert"
      BY <2>0, <3>3 DEF InsertChunk, At, Jobs
    <3>4. ASSUME CardDone(i) PROVE job'[i].step = "clear"
      BY <2>0, <3>4 DEF CardDone, Jobs
    <3> QED
      BY <1>1, <3>1, <3>2, <3>3, <3>4
  <2>7. ~Schema(i)
    BY <1>1, <2>1 DEF Schema, At
  <2>8. ~ReadFails(i)
    <3>1. job[i].step \in {"readDb", "systemKey", "readSecrets"} =>
            \A j \in Installers : job[j].step \notin Writing
      BY <1>1 DEF InstallerInv, OneAccount, Writing
    <3> QED
      BY <1>1, <3>1 DEF ReadFails, InstallerInv, SecretsHeld, Held
  <2> QED
    BY <1>1, <2>1, <2>2, <2>3, <2>4, <2>5, <2>6, <2>7, <2>8
       DEF Step, Prepare, OpenConfig, WriteConfig, InspectColumn, InspectForeignKey,
           ModifyColumn, InspectSettings, CardsDone, InspectAdmin, At
<1>2. InstallerInv /\ LoneCourse /\ [Next]_vars => Ends
  BY <1>1
<1> HIDE DEF Ends
<1>3. Spec => [][Ends]_vars
  BY <1>2, LoneStart, LoneStep, InstallerInit, InstallerStep, PTL DEF Spec
<1> QED
  BY <1>3 DEF Ends, OnlyLockEnds
=============================================================================
