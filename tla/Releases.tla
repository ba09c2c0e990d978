------------------------------ MODULE Releases ------------------------------
(***************************************************************************)
(* Release deployment: the directory <base>/releases, the symlink          *)
(* <base>/current, the systemd service that runs the release behind it,    *)
(* and the tools an operator runs over them: switch-release.sh,            *)
(* rollback-to-php-release.sh and the prune-releases command               *)
(* (src/src/deploy.rs). No tool takes a lock: each reads `current` once at *)
(* its start and acts on that reading to its end. A release is removed     *)
(* file by file: other tools see it half removed, and a prune that fails   *)
(* or is killed leaves it so.                                              *)
(***************************************************************************)
EXTENDS Naturals, FiniteSets

CONSTANTS
  Operators,      \* the shells tools are run from
  Switchers,      \* those that run other tools than the prune, too (a bound)
  RustReleases,   \* releases that pass what switch-release.sh asks of a target
  PhpReleases,    \* releases is_php_release recognises (index.php, bootstrap, app)
  PhpTargets,     \* releases assertPhpRelease takes (index.php, public, config)
  First,          \* the releases found at the start
  FirstCurrent,   \* the one that is current then
  MaxTime,        \* bound on modification times
  Keep,           \* --keep
  NoRelease

Names == RustReleases \cup PhpReleases \cup PhpTargets

\* The tests a release is put to, and those it passes as it was unpacked. One
\* whose removal has begun may fail any of them.
Tests == {"rust", "is_php_release", "assertPhpRelease"}
Unpacked(r) == (IF r \in RustReleases THEN {"rust"} ELSE {})
               \cup (IF r \in PhpReleases THEN {"is_php_release"} ELSE {})
               \cup (IF r \in PhpTargets THEN {"assertPhpRelease"} ELSE {})

\* What a directory or a plan lists: each release with its modification time,
\* 0 for one that is not in it. Entries of one second keep the order in which
\* the directory returns them, so that no two have the same time.
Listing ==
  {l \in [Names -> 0..MaxTime] : \A a, b \in Names : l[a] = l[b] => a = b \/ l[a] = 0}

Entries(l) == {r \in Names : l[r] # 0}
Nothing == [r \in Names |-> 0]

\* The first of those in S in a list sorted newest first.
IsNewest(l, S, r) == r \in S \cap Entries(l) /\ \A q \in S : l[q] <= l[r]

ASSUME ReleasesAssumption ==
  /\ Switchers \subseteq Operators
  /\ Keep \in Nat \ {0}
  /\ MaxTime \in Nat
  /\ First \in Listing /\ FirstCurrent \in Entries(First)
  /\ NoRelease \notin Names
  /\ RustReleases \cap (PhpReleases \cup PhpTargets) = {}

VARIABLES
  releases,   \* the entries of <base>/releases
  passes,     \* per release, the tests its directory passes
  half,       \* releases from which a prune has removed a part
  current,    \* the release the symlink names, present or not
  serving,    \* the release the running service was started from, or NoRelease
  job,        \* per operator, the tool being run and what it has read
  unpacked,   \* every release ever unpacked: a name is used once
  overlapped, \* history: whether two tools have ever run at once
  misled      \* history: whether a prune ever took a half-removed release for
              \* the newest PHP one

vars == <<releases, passes, half, current, serving, job, unpacked, overlapped, misled>>

Present == Entries(releases)

\* current_release_path: the link resolves to a directory of releases.
CurrentResolves == current \in Present

Idle == [tool |-> "none", step |-> "done", target |-> NoRelease,
         previous |-> NoRelease, plan |-> Nothing, restart |-> FALSE]

Job ==
  [tool : {"none", "switch", "php", "prune"},
   step : {"link", "prepare", "storage", "preflight", "restart", "smoke", "plan",
           "remove", "removing", "failed", "restore", "nginx", "stop", "done"},
   target : Names \cup {NoRelease}, previous : Names \cup {NoRelease},
   plan : Listing, restart : BOOLEAN]

TypeOK ==
  /\ releases \in Listing
  /\ current \in Names
  /\ serving \in RustReleases \cup {NoRelease}
  /\ passes \in [Names -> SUBSET Tests]
  /\ \A r \in Names : passes[r] \subseteq Unpacked(r)
  /\ half \subseteq Present
  /\ job \in [Operators -> Job]
  /\ Present \subseteq unpacked /\ unpacked \subseteq Names
  /\ overlapped \in BOOLEAN /\ misled \in BOOLEAN

Init ==
  /\ releases = First
  /\ current = FirstCurrent
  /\ serving = IF FirstCurrent \in RustReleases THEN FirstCurrent ELSE NoRelease
  /\ passes = [r \in Names |-> IF r \in Entries(First) THEN Unpacked(r) ELSE {}]
  /\ half = {}
  /\ job = [o \in Operators |-> Idle]
  /\ unpacked = Entries(First)
  /\ overlapped = FALSE /\ misled = FALSE

Busy(o) == job[o].tool # "none"
At(o, tool, step) == job[o].tool = tool /\ job[o].step = step
Goto(o, step) == job' = [job EXCEPT ![o].step = step]
Finish(o) == job' = [job EXCEPT ![o] = Idle]
Begin(o, j) ==
  /\ ~Busy(o)
  /\ job' = [job EXCEPT ![o] = j]
  /\ overlapped' = (overlapped \/ \E other \in Operators \ {o} : Busy(other))

-----------------------------------------------------------------------------
(* prune-releases *)

\* is_php_release
LooksPhp == {r \in Present : "is_php_release" \in passes[r]}

\* newest_php_release_path: the first of the sorted list that looks like PHP.
NewestPhp(l, php) == {r \in php : IsNewest(l, php, r)}

\* releases.iter().take(keep).
Newest(l) == {r \in Entries(l) : Cardinality({q \in Names : l[q] > l[r]}) < Keep}

KeptWithoutCurrent(l, php, now) == Newest(l) \cup NewestPhp(l, php)
KeptWithoutPhp(l, php, now) == {now} \cup Newest(l)

\* kept_release_paths: current, the `Keep` newest, and the newest PHP release.
Kept(l, php, now) == {now} \cup Newest(l) \cup NewestPhp(l, php)

\* prune_releases reads the symlink and the directory, then plans.
PlanPrune(o) ==
  /\ job[o].step = "plan"
  /\ IF CurrentResolves
     THEN /\ job' = [job EXCEPT ![o].step = "remove", ![o].plan =
                      [r \in Names |-> IF r \in Kept(releases, LooksPhp, current)
                                       THEN 0 ELSE releases[r]]]
          /\ misled' = (misled \/ NewestPhp(releases, LooksPhp) \cap half # {})
     ELSE Finish(o) /\ UNCHANGED misled
  /\ UNCHANGED <<releases, passes, half, current, serving, unpacked, overlapped>>

\* The release of the plan a prune is at, in its order.
Victim(o) == {r \in Names : IsNewest(job[o].plan, Names, r)}

\* remove_dir_all at work: what it takes may fail any test the release still
\* passed, and taking an entry of the directory itself makes it the newest.
RemovePart(o) ==
  /\ job[o].step \in {"remove", "removing"}
  /\ \E r \in Victim(o) \cap Present, left \in SUBSET Tests, time \in 1..MaxTime :
       /\ \/ time = releases[r]
          \/ \A q \in Present : releases[q] < time
       /\ releases' = [releases EXCEPT ![r] = time]
       /\ passes' = [passes EXCEPT ![r] = @ \cap left]
       /\ half' = half \cup {r}
  /\ Goto(o, "removing")
  /\ UNCHANGED <<current, serving, unpacked, overlapped, misled>>

\* Its end, also when another prune was faster.
RemoveRest(o) ==
  /\ job[o].step = "removing"
  /\ \E r \in Victim(o) :
       /\ releases' = [releases EXCEPT ![r] = 0]
       /\ passes' = [passes EXCEPT ![r] = {}]
       /\ half' = half \ {r}
       /\ job' = [job EXCEPT ![o].plan[r] = 0, ![o].step = "remove"]
  /\ UNCHANGED <<current, serving, unpacked, overlapped, misled>>

\* A path that is gone fails the command, and so may a file on the way.
RemovalFails(o) ==
  /\ \/ job[o].step = "remove" /\ Victim(o) \ Present # {}
     \/ job[o].step = "removing"
  /\ Finish(o)
  /\ UNCHANGED <<releases, passes, half, current, serving, unpacked, overlapped, misled>>

PruneDone(o) ==
  /\ job[o].step = "remove" /\ job[o].plan = Nothing
  /\ Finish(o)
  /\ UNCHANGED <<releases, passes, half, current, serving, unpacked, overlapped, misled>>

\* `network-auth-rust prune-releases` run by hand.
StartPrune(o) ==
  /\ Begin(o, [Idle EXCEPT !.tool = "prune", !.step = "plan"])
  /\ UNCHANGED <<releases, passes, half, current, serving, unpacked, misled>>

-----------------------------------------------------------------------------
(* switch-release.sh *)

\* What a release's binary, its package check and its scripts need is there.
Runs(r) == r \in Present /\ "rust" \in passes[r]

\* The checks before --apply: current resolves, the target is a present Rust
\* release, its package check and preflight pass (or the script dies here).
\* restart is FALSE under --skip-service-restart.
StartSwitch(o, target, restart) ==
  /\ o \in Switchers
  /\ CurrentResolves
  /\ Runs(target)
  /\ Begin(o, [Idle EXCEPT !.tool = "switch", !.step = "link", !.target = target,
                           !.previous = current, !.restart = restart])
  /\ UNCHANGED <<releases, passes, half, current, serving, unpacked, misled>>

\* switch_current, skipped when the target already was current. ln -s and
\* mv -T do not look at what the link names.
LinkTarget(o) ==
  /\ At(o, "switch", "link")
  /\ current' = IF job[o].target # job[o].previous THEN job[o].target ELSE current
  /\ Goto(o, "prepare")
  /\ UNCHANGED <<releases, passes, half, serving, unpacked, overlapped, misled>>

\* post_switch_checks: prepare-release-storage and preflight, both by the
\* target's binary. They may also fail for reasons outside the model. The first
\* resolves current, once.
PrepareTarget(o) ==
  /\ At(o, "switch", "prepare")
  /\ \/ Runs(job[o].target) /\ CurrentResolves /\ Goto(o, "storage")
     \/ Goto(o, "failed")
  /\ UNCHANGED <<releases, passes, half, current, serving, unpacked, overlapped, misled>>

\* It then works through the directories all releases share, and looks at the
\* links of the release it resolved, where a path that is gone is passed over:
\* a release removed in the meantime does not fail it, a chown may.
PrepareStorage(o) ==
  /\ At(o, "switch", "storage")
  /\ \E next \in {"preflight", "failed"} : Goto(o, next)
  /\ UNCHANGED <<releases, passes, half, current, serving, unpacked, overlapped, misled>>

PreflightTarget(o) ==
  /\ At(o, "switch", "preflight")
  /\ \/ Runs(job[o].target) /\ Goto(o, "restart")
     \/ Goto(o, "failed")
  /\ UNCHANGED <<releases, passes, half, current, serving, unpacked, overlapped, misled>>

Reloaded == IF serving # NoRelease THEN serving
            ELSE IF Runs(current) THEN current ELSE NoRelease

StartedAnyway == IF CurrentResolves THEN current ELSE NoRelease

\* What a restart of the unit runs: the binary behind current, if any.
Started == IF Runs(current) THEN current ELSE NoRelease

\* systemctl restart: of the release current names by now. Left out under
\* --skip-service-restart: whatever ran before runs on.
RestartService(o) ==
  /\ At(o, "switch", "restart")
  /\ IF job[o].restart
     THEN /\ serving' = Started
          /\ Goto(o, IF Started = NoRelease THEN "failed" ELSE "smoke")
     ELSE UNCHANGED serving /\ Goto(o, "smoke")
  /\ UNCHANGED <<releases, passes, half, current, unpacked, overlapped, misled>>

\* check_health asks the service that runs, and if it was restarted the smoke
\* test asks systemd (with --skip-health and --skip-service-restart nobody
\* asks); run_release_smoke demands that the target is what current resolves to.
\* From here on nothing goes back to the previous release.
SmokeTarget(o) ==
  /\ At(o, "switch", "smoke")
  /\ \/ /\ job[o].restart => serving # NoRelease
        /\ current = job[o].target /\ Runs(current)
        /\ job' = [job EXCEPT ![o].step = "plan", ![o].previous = NoRelease]
     \/ Goto(o, "failed")
  /\ UNCHANGED <<releases, passes, half, current, serving, unpacked, overlapped, misled>>

\* The script ends: --no-rollback, an argument that is looked at only here.
GiveUp(o) ==
  /\ At(o, "switch", "failed")
  /\ Finish(o)
  /\ UNCHANGED <<releases, passes, half, current, serving, unpacked, overlapped, misled>>

\* assertPhpRelease, and what release_runtime_kind takes for PHP.
EntersPhp(r) == r \in Present /\ "assertPhpRelease" \in passes[r]

\* rollback_current: the link goes back to what it was when the script began.
LinkPrevious(o) ==
  /\ At(o, "switch", "failed")
  /\ current' = job[o].previous
  /\ Goto(o, "restore")
  /\ UNCHANGED <<releases, passes, half, serving, unpacked, overlapped, misled>>

\* Then the service is restarted for a Rust release (health and smoke only
\* report), stopped for a PHP one, and left alone when the release is neither
\* (release_runtime_kind dies) or the service is not to be touched.
RestorePrevious(o) ==
  /\ At(o, "switch", "restore")
  /\ serving' = CASE ~job[o].restart -> serving
                  [] job[o].restart /\ Runs(job[o].previous) -> Started
                  [] job[o].restart /\ EntersPhp(job[o].previous) -> NoRelease
                  [] OTHER -> serving
  /\ Finish(o)
  /\ UNCHANGED <<releases, passes, half, current, unpacked, overlapped, misled>>

-----------------------------------------------------------------------------
(* rollback-to-php-release.sh *)

\* The script looks at current (a link, of whatever) only to find a script of
\* nginx there.
StartPhp(o, target) ==
  /\ o \in Switchers
  /\ EntersPhp(target)
  /\ Begin(o, [Idle EXCEPT !.tool = "php", !.step = "link", !.target = target])
  /\ UNCHANGED <<releases, passes, half, current, serving, unpacked, misled>>

LinkPhp(o) ==
  /\ At(o, "php", "link")
  /\ current' = job[o].target
  /\ Goto(o, "nginx")
  /\ UNCHANGED <<releases, passes, half, serving, unpacked, overlapped, misled>>

\* switch-nginx-backend.sh --mode php --apply; nginx -t may refuse it, which
\* ends the script with current already moved.
SwitchNginx(o) ==
  /\ At(o, "php", "nginx")
  /\ Goto(o, "stop") \/ Finish(o)
  /\ UNCHANGED <<releases, passes, half, current, serving, unpacked, overlapped, misled>>

\* systemctl stop, unless --skip-service-stop.
StopService(o) ==
  /\ At(o, "php", "stop")
  /\ serving' \in {NoRelease, serving}
  /\ Finish(o)
  /\ UNCHANGED <<releases, passes, half, current, unpacked, overlapped, misled>>

-----------------------------------------------------------------------------
(* What happens around the tools *)

\* A new release directory is unpacked, with a modification time of now or
\* with the one its package holds.
Unpack(r, time) ==
  /\ r \notin unpacked
  /\ \A q \in Present : releases[q] # time
  /\ releases' = [releases EXCEPT ![r] = time]
  /\ passes' = [passes EXCEPT ![r] = Unpacked(r)]
  /\ unpacked' = unpacked \cup {r}
  /\ UNCHANGED <<half, current, serving, job, overlapped, misled>>

\* The service dies and the unit's Restart=on-failure starts it again.
ServiceFails ==
  /\ serving # NoRelease
  /\ serving' = Started
  /\ UNCHANGED <<releases, passes, half, current, job, unpacked, overlapped, misled>>

\* The operator's shell dies: the tool stops between two of its steps, or two
\* of its removals' parts.
Killed(o) ==
  /\ Busy(o)
  /\ Finish(o)
  /\ UNCHANGED <<releases, passes, half, current, serving, unpacked, overlapped, misled>>

Next ==
  \/ \E r \in Names, time \in 1..MaxTime : Unpack(r, time)
  \/ ServiceFails
  \/ \E o \in Operators :
       \/ StartPrune(o)
       \/ PlanPrune(o)
       \/ RemovePart(o)
       \/ RemoveRest(o)
       \/ RemovalFails(o)
       \/ PruneDone(o)
       \/ \E t \in Names, b \in BOOLEAN : StartSwitch(o, t, b)
       \/ LinkTarget(o)
       \/ PrepareTarget(o)
       \/ PrepareStorage(o)
       \/ PreflightTarget(o)
       \/ RestartService(o)
       \/ SmokeTarget(o)
       \/ GiveUp(o)
       \/ LinkPrevious(o)
       \/ RestorePrevious(o)
       \/ \E t \in Names : StartPhp(o, t)
       \/ LinkPhp(o)
       \/ SwitchNginx(o)
       \/ StopService(o)
       \/ Killed(o)

Spec == Init /\ [][Next]_vars

-----------------------------------------------------------------------------
(* Properties *)

\* The release behind `current` is there and no removal is at it, wherever a
\* tool was killed or failed, as long as no two tools ran at once. (Two that
\* overlap can do it: a prune acts on the link it read, a rollback on the one
\* it captured.)
CurrentPresent ==
  overlapped \/ /\ current \in Present
                /\ \A o \in Operators : job[o].step = "removing" => current \notin Victim(o)

\* The newest PHP release of which nothing is missing, the one a rollback to
\* PHP needs, survives every prune, also one whose plan is older than that
\* release or that overlaps other tools; unless some prune has taken a release
\* for the newest PHP one of which another prune had removed a part (removing
\* makes it the newest, and a failure or a kill leaves it so).
WholePhp == {r \in PhpReleases \cap Present : r \notin half}

PhpReleaseKept ==
  [][~misled => NewestPhp(releases, WholePhp) \subseteq WholePhp']_vars

\* A switch that reaches its prune has its target current and, unless it was
\* told not to restart the service, in service, even if the service failed and
\* was restarted between its steps.
SwitchedIsServed ==
  \A o \in Operators :
    job[o].tool = "switch" /\ job[o].step \in {"plan", "remove", "removing"} /\ ~overlapped
      => /\ current = job[o].target
         /\ job[o].restart => serving = job[o].target
=============================================================================
