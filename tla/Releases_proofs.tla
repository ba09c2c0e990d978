-------------------------- MODULE Releases_proofs --------------------------
(***************************************************************************)
(* Proofs about Releases: that `current` names a release that is there,    *)
(* that what was switched to is in service, and that no prune, however old *)
(* its plan, touches the newest PHP release.                               *)
(*                                                                         *)
(*   Equipped   what a tool has at each of its steps                        *)
(*   Lonely     tools that never overlap are alone                          *)
(*   Untouched  a release nothing was removed from is as it was unpacked    *)
(*   OnCourse   where the link, the service and the plan of a tool stand    *)
(*              that is alone                                              *)
(*   PhpSpared  a plan holds no whole PHP release unless a newer one is     *)
(*              there                                                      *)
(***************************************************************************)
EXTENDS Releases, WellFoundedInduction, TLAPS

\* The steps of a switch whose link has moved, and those of one that may still
\* go back.
Pruning == {"plan", "remove", "removing"}
Moved == {"prepare", "storage", "preflight", "restart", "smoke"} \cup Pruning
MayReturn == {"link", "prepare", "storage", "preflight", "restart", "smoke",
              "failed", "restore"}

Equipped ==
  \A o \in Operators :
    /\ job[o].tool = "none" => job[o].step = "done"
    /\ job[o].tool = "prune" => job[o].step \in Pruning
    /\ job[o].tool = "switch" =>
         /\ job[o].step \in Moved \cup MayReturn
         /\ job[o].target \in Names
         /\ job[o].step \in MayReturn => job[o].previous \in Names
    /\ job[o].tool = "php" =>
         /\ job[o].step \in {"link", "nginx", "stop"}
         /\ job[o].target \in Names

Lonely ==
  overlapped \/ \A o, p \in Operators : Busy(o) /\ Busy(p) => o = p

Untouched == \A r \in Present \ half : passes[r] = Unpacked(r)

Course(o) ==
  /\ job[o].step \in {"remove", "removing"} => job[o].plan[current] = 0
  /\ job[o].tool = "switch" /\ job[o].step \in MayReturn =>
       job[o].previous \in Present
  /\ job[o].tool = "switch" /\ job[o].step = "link" =>
       Runs(job[o].target) /\ job[o].previous = current
  /\ job[o].tool = "php" /\ job[o].step = "link" => job[o].target \in Present
  /\ job[o].tool = "switch" /\ job[o].step \in Moved =>
       job[o].target = current /\ Runs(current)
  /\ job[o].tool = "switch" /\ job[o].restart /\ job[o].step = "smoke" =>
       serving \in {current, NoRelease}
  /\ job[o].tool = "switch" /\ job[o].restart /\ job[o].step \in Pruning =>
       serving = current

OnCourse == overlapped \/ \A o \in Operators : Course(o)

PhpSpared ==
  misled \/
  \A o \in Operators, q \in PhpReleases :
    job[o].plan[q] # 0 =>
      /\ q \in unpacked
      /\ q \in WholePhp => \E p \in WholePhp : releases[p] > releases[q]

ReleasesInv ==
  TypeOK /\ Equipped /\ Lonely /\ Untouched /\ CurrentPresent /\ OnCourse /\ PhpSpared

-----------------------------------------------------------------------------
(* Listings                                                                *)

LEMMA NothingListed == Nothing \in Listing
BY ReleasesAssumption DEF Nothing, Listing

\* What is left of a listing without some of its entries is a listing.
LEMMA Shortened ==
  ASSUME NEW l \in Listing, NEW S
  PROVE  [r \in Names |-> IF r \in S THEN 0 ELSE l[r]] \in Listing
BY ReleasesAssumption DEF Listing

LEMMA OneLess ==
  ASSUME NEW l \in Listing, NEW r \in Names
  PROVE  [l EXCEPT ![r] = 0] \in Listing
BY ReleasesAssumption DEF Listing

LEMMA OneMore ==
  ASSUME NEW l \in Listing, NEW r \in Names, NEW time \in 1..MaxTime,
         \A q \in Entries(l) : q = r \/ l[q] # time
  PROVE  [l EXCEPT ![r] = time] \in Listing
BY ReleasesAssumption DEF Listing, Entries

\* Some entry of a listing is the newest of a set.
Below == {pair \in Nat \X Nat : pair[1] < pair[2]}

LEMMA BelowEnds == IsWellFoundedOn(Below, Nat)
BY NatLessThanWellFounded DEF OpToRel, Below

LEMMA Highest ==
  ASSUME NEW S, NEW l, NEW m \in Nat, \A r \in S : l[r] \in 0..m, S # {}
  PROVE  \E r \in S : \A q \in S : l[q] <= l[r]
<1> DEFINE T == {m - l[r] : r \in S}
<1>1. T \subseteq Nat /\ T # {}
  OBVIOUS
<1>2. PICK x \in T : \A y \in T : <<y, x>> \notin Below
  <2> HIDE DEF T
  <2> QED
    BY <1>1, BelowEnds, WFMin
<1>3. PICK r \in S : x = m - l[r]
  BY <1>2
<1>4. ASSUME NEW q \in S PROVE l[q] <= l[r]
  <2>1. <<m - l[q], m - l[r]>> \notin Below
    BY <1>2, <1>3
  <2>2. l[q] \in 0..m /\ l[r] \in 0..m
    BY <1>3
  <2>3. m - l[q] \in Nat /\ m - l[r] \in Nat
    BY <2>2
  <2>4. ~ (m - l[q] < m - l[r])
    BY <2>1, <2>3 DEF Below
  <2> QED
    BY <2>2, <2>4
<1> QED
  BY <1>4

-----------------------------------------------------------------------------
(* How a step moves the tools                                              *)

\* The tools of others stay where they are.
Others(o) == \A p \in Operators : p # o => job'[p] = job[p]

\* A tool ends, by itself or killed.
Ends(o) == job'[o] = Idle /\ Others(o)

\* A tool goes on to another step of its script.
Steps(o, step) ==
  /\ job'[o] = [job[o] EXCEPT !.step = step]
  /\ Others(o)

LEMMA GotoMoves ==
  ASSUME TypeOK, NEW o \in Operators, NEW step, Goto(o, step)
  PROVE  Steps(o, step)
BY DEF TypeOK, Goto, Steps, Others

LEMMA StepFields ==
  ASSUME TypeOK, NEW o \in Operators, NEW step, Steps(o, step)
  PROVE  /\ job'[o].step = step /\ job'[o].tool = job[o].tool
         /\ job'[o].target = job[o].target /\ job'[o].previous = job[o].previous
         /\ job'[o].plan = job[o].plan /\ job'[o].restart = job[o].restart
BY DEF TypeOK, Job, Steps

LEMMA FinishMoves ==
  ASSUME TypeOK, NEW o \in Operators, Finish(o)
  PROVE  Ends(o)
BY DEF TypeOK, Finish, Ends, Others

LEMMA BeginMoves ==
  ASSUME TypeOK, NEW o \in Operators, NEW j, Begin(o, j)
  PROVE  job'[o] = j /\ Others(o)
BY DEF TypeOK, Begin, Others

LEMMA IdleType == Idle \in Job
BY NothingListed DEF Idle, Job

-----------------------------------------------------------------------------
(* Types                                                                   *)

LEMMA TypeStart == Init => TypeOK
<1> SUFFICES ASSUME Init PROVE TypeOK
  OBVIOUS
<1>1. job \in [Operators -> Job]
  BY IdleType DEF Init
<1>2. passes \in [Names -> SUBSET Tests] /\ \A r \in Names : passes[r] \subseteq Unpacked(r)
  BY DEF Init, Tests, Unpacked
<1> QED
  BY <1>1, <1>2, ReleasesAssumption DEF Init, TypeOK, Present, Entries, Names

\* What runs is a Rust release.
LEMMA StartedType ==
  ASSUME TypeOK
  PROVE  Started \in RustReleases \cup {NoRelease}
BY DEF Started, Runs, TypeOK, Unpacked

\* What a prune that takes a part of a release leaves, and what Unpack adds.
LEMMA PassesKept ==
  ASSUME TypeOK, NEW r \in Names, NEW S, S \subseteq Unpacked(r),
         passes' = [passes EXCEPT ![r] = S]
  PROVE  /\ passes' \in [Names -> SUBSET Tests]
         /\ \A q \in Names : passes'[q] \subseteq Unpacked(q)
<1>1. Unpacked(r) \subseteq Tests
  BY DEF Unpacked, Tests
<1> QED
  BY <1>1 DEF TypeOK

LEMMA TypeStep == TypeOK /\ Equipped /\ [Next]_vars => TypeOK'
<1> SUFFICES ASSUME TypeOK, Equipped, [Next]_vars PROVE TypeOK'
  OBVIOUS
<1>0. \A o \in Operators : job[o] \in Job
  BY DEF TypeOK
<1>1. ASSUME NEW r \in Names, NEW time \in 1..MaxTime, Unpack(r, time) PROVE TypeOK'
  <2>1. releases' \in Listing
    BY <1>1, OneMore DEF Unpack, TypeOK, Present
  <2>2. Present' = Present \cup {r} /\ unpacked' = unpacked \cup {r}
    BY <1>1, ReleasesAssumption DEF Unpack, TypeOK, Present, Entries, Listing
  <2>3. /\ passes' \in [Names -> SUBSET Tests]
        /\ \A q \in Names : passes'[q] \subseteq Unpacked(q)
    BY <1>1, PassesKept DEF Unpack
  <2> QED
    BY <1>1, <2>1, <2>2, <2>3 DEF Unpack, TypeOK
<1>2. CASE ServiceFails
  BY <1>2, StartedType DEF ServiceFails, TypeOK, Present
<1>3. CASE UNCHANGED vars
  BY <1>3 DEF vars, TypeOK, Present
<1>4. ASSUME NEW o \in Operators,
             \/ StartPrune(o) \/ PruneDone(o) \/ RemovalFails(o) \/ Killed(o) \/ GiveUp(o)
             \/ \E t \in Names, b \in BOOLEAN : StartSwitch(o, t, b)
             \/ \E t \in Names : StartPhp(o, t)
      PROVE  TypeOK'
  <2>1. CASE StartPrune(o)
    <3>1. [Idle EXCEPT !.tool = "prune", !.step = "plan"] \in Job
      BY IdleType DEF Job, Idle
    <3> QED
      BY <2>1, <3>1 DEF StartPrune, Begin, TypeOK, Present
  <2>2. CASE PruneDone(o) \/ RemovalFails(o) \/ Killed(o) \/ GiveUp(o)
    BY <2>2, IdleType DEF PruneDone, RemovalFails, Killed, GiveUp, Finish, TypeOK, Present
  <2>3. CASE \E t \in Names, b \in BOOLEAN : StartSwitch(o, t, b)
    <3>1. PICK t \in Names, b \in BOOLEAN : StartSwitch(o, t, b)
      BY <2>3
    <3>2. [Idle EXCEPT !.tool = "switch", !.step = "link", !.target = t,
                       !.previous = current, !.restart = b] \in Job
      BY NothingListed DEF Job, Idle, TypeOK
    <3> QED
      BY <3>1, <3>2 DEF StartSwitch, Begin, TypeOK, Present
  <2>4. CASE \E t \in Names : StartPhp(o, t)
    <3>1. PICK t \in Names : StartPhp(o, t)
      BY <2>4
    <3>2. [Idle EXCEPT !.tool = "php", !.step = "link", !.target = t] \in Job
      BY NothingListed DEF Job, Idle, TypeOK
    <3> QED
      BY <3>1, <3>2 DEF StartPhp, Begin, TypeOK, Present
  <2> QED
    BY <1>4, <2>1, <2>2, <2>3, <2>4
<1>5. ASSUME NEW o \in Operators, NEW step \in {"prepare", "storage", "preflight",
                "restart", "smoke", "removing", "failed", "restore", "nginx", "stop"},
             Goto(o, step)
      PROVE  job' \in [Operators -> Job]
  BY <1>5 DEF Goto, TypeOK, Job
<1>6. ASSUME NEW o \in Operators, Finish(o) PROVE job' \in [Operators -> Job]
  BY <1>6, IdleType DEF Finish, TypeOK
<1>8. ASSUME NEW o \in Operators,
             \/ LinkTarget(o) \/ PrepareTarget(o) \/ PrepareStorage(o)
             \/ PreflightTarget(o) \/ RestartService(o) \/ SmokeTarget(o)
             \/ LinkPrevious(o) \/ RestorePrevious(o)
             \/ LinkPhp(o) \/ SwitchNginx(o) \/ StopService(o)
      PROVE  TypeOK'
  <2>1. job' \in [Operators -> Job]
    <3>1. CASE SmokeTarget(o)
      <4>1. [job[o] EXCEPT !.step = "plan", !.previous = NoRelease] \in Job
        BY <1>0 DEF Job
      <4>2. \/ job' = [job EXCEPT ![o] = [job[o] EXCEPT !.step = "plan",
                                                        !.previous = NoRelease]]
            \/ Goto(o, "failed")
        BY <3>1 DEF SmokeTarget, TypeOK
      <4> QED
        BY <1>5, <4>1, <4>2 DEF TypeOK
    <3>2. CASE ~SmokeTarget(o)
      BY <1>5, <1>6, <1>8, <3>2 DEF LinkTarget, PrepareTarget, PrepareStorage,
         PreflightTarget, RestartService, LinkPrevious, RestorePrevious, LinkPhp,
         SwitchNginx, StopService
    <3> QED
      BY <3>1, <3>2
  <2>2. current' \in Names
    BY <1>8 DEF LinkTarget, PrepareTarget, PrepareStorage, PreflightTarget,
       RestartService, SmokeTarget, LinkPrevious, RestorePrevious, LinkPhp,
       SwitchNginx, StopService, Equipped, MayReturn, At, TypeOK
  <2>3. serving' \in RustReleases \cup {NoRelease}
    BY <1>8, StartedType DEF LinkTarget, PrepareTarget, PrepareStorage, PreflightTarget,
       RestartService, SmokeTarget, LinkPrevious, RestorePrevious, LinkPhp,
       SwitchNginx, StopService, TypeOK
  <2>4. UNCHANGED <<releases, passes, half, unpacked, overlapped, misled>>
    BY <1>8 DEF LinkTarget, PrepareTarget, PrepareStorage, PreflightTarget,
       RestartService, SmokeTarget, LinkPrevious, RestorePrevious, LinkPhp,
       SwitchNginx, StopService
  <2> QED
    BY <2>1, <2>2, <2>3, <2>4 DEF TypeOK, Present
<1>9. ASSUME NEW o \in Operators, PlanPrune(o) PROVE TypeOK'
  <2> DEFINE plan == [r \in Names |-> IF r \in Kept(releases, LooksPhp, current)
                                     THEN 0 ELSE releases[r]]
  <2>1. plan \in Listing
    BY Shortened DEF TypeOK
  <2>2. [job[o] EXCEPT !.step = "remove", !.plan = plan] \in Job
    BY <1>0, <2>1 DEF Job
  <2>3. \/ job' = [job EXCEPT ![o] = [job[o] EXCEPT !.step = "remove", !.plan = plan]]
        \/ Finish(o)
    BY <1>9 DEF PlanPrune, TypeOK
  <2>4. job' \in [Operators -> Job]
    <3> HIDE DEF plan
    <3> QED
      BY <1>6, <2>2, <2>3 DEF TypeOK
  <2>5. misled' \in BOOLEAN
    BY <1>9 DEF PlanPrune, TypeOK
  <2> QED
    BY <1>9, <2>4, <2>5 DEF PlanPrune, TypeOK, Present
<1>10. ASSUME NEW o \in Operators, RemovePart(o) PROVE TypeOK'
  <2>1. PICK r \in Victim(o) \cap Present, left \in SUBSET Tests, time \in 1..MaxTime :
          /\ \/ time = releases[r]
             \/ \A q \in Present : releases[q] < time
          /\ releases' = [releases EXCEPT ![r] = time]
          /\ passes' = [passes EXCEPT ![r] = @ \cap left]
          /\ half' = half \cup {r}
    BY <1>10 DEF RemovePart
  <2>2. r \in Names /\ releases \in Listing
    BY DEF Victim, TypeOK
  <2>3. releases' \in Listing
    <3>1. \A q \in Entries(releases) : q = r \/ releases[q] # time
      <4>1. \A q \in Names : releases[q] \in Nat
        BY <2>2 DEF Listing
      <4>2. \A q \in Names : releases[q] = releases[r] => q = r \/ releases[q] = 0
        BY <2>2 DEF Listing
      <4> QED
        BY <2>1, <4>1, <4>2 DEF Entries, Present
    <3> QED
      BY <2>1, <2>2, <3>1, OneMore
  <2>4. Present' = Present
    BY <2>1, <2>2, ReleasesAssumption DEF Present, Entries, Listing
  <2>5. /\ passes' \in [Names -> SUBSET Tests]
        /\ \A q \in Names : passes'[q] \subseteq Unpacked(q)
    <3>1. passes[r] \cap left \subseteq Unpacked(r)
      BY <2>2 DEF TypeOK
    <3> QED
      BY <2>1, <2>2, <3>1, PassesKept
  <2>6. job' \in [Operators -> Job] /\ half' \subseteq Present'
    BY <1>5, <1>10, <2>1, <2>4 DEF RemovePart, TypeOK
  <2> QED
    BY <1>10, <2>3, <2>4, <2>5, <2>6 DEF RemovePart, TypeOK
<1>11. ASSUME NEW o \in Operators, RemoveRest(o) PROVE TypeOK'
  <2>1. PICK r \in Victim(o) :
          /\ releases' = [releases EXCEPT ![r] = 0]
          /\ passes' = [passes EXCEPT ![r] = {}]
          /\ half' = half \ {r}
          /\ job' = [job EXCEPT ![o].plan[r] = 0, ![o].step = "remove"]
    BY <1>11 DEF RemoveRest
  <2>2. r \in Names
    BY DEF Victim
  <2>3. releases' \in Listing /\ Present' = Present \ {r}
    BY <2>1, <2>2, OneLess DEF TypeOK, Present, Entries, Listing
  <2>4. [job[o].plan EXCEPT ![r] = 0] \in Listing
    BY <1>0, <2>2, OneLess DEF Job
  <2>5. [job[o] EXCEPT !.plan = [job[o].plan EXCEPT ![r] = 0], !.step = "remove"] \in Job
    BY <1>0, <2>4 DEF Job
  <2>6. job' \in [Operators -> Job]
    BY <2>1, <2>5 DEF TypeOK
  <2>7. /\ passes' \in [Names -> SUBSET Tests]
        /\ \A q \in Names : passes'[q] \subseteq Unpacked(q)
    BY <2>1, <2>2, PassesKept
  <2> QED
    BY <1>11, <2>1, <2>3, <2>6, <2>7 DEF RemoveRest, TypeOK
<1> QED
  BY <1>1, <1>2, <1>3, <1>4, <1>8, <1>9, <1>10, <1>11 DEF Next

-----------------------------------------------------------------------------
(* What each tool does to its job                                          *)

Starts(o) ==
  \/ StartPrune(o)
  \/ \E t \in Names, b \in BOOLEAN : StartSwitch(o, t, b)
  \/ \E t \in Names : StartPhp(o, t)

LEMMA Starting ==
  ASSUME TypeOK, NEW o \in Operators, Starts(o)
  PROVE  /\ ~Busy(o) /\ Others(o)
         /\ UNCHANGED <<releases, passes, half, current, serving, unpacked, misled>>
         /\ overlapped' = (overlapped \/ \E other \in Operators \ {o} : Busy(other))
         /\ \/ /\ job'[o].tool = "prune" /\ job'[o].step = "plan"
            \/ /\ job'[o].tool = "switch" /\ job'[o].step = "link"
               /\ Runs(job'[o].target) /\ job'[o].target \in Names
               /\ job'[o].previous = current /\ current \in Present
            \/ /\ job'[o].tool = "php" /\ job'[o].step = "link"
               /\ job'[o].target \in Present /\ job'[o].target \in Names
         /\ job'[o].plan = Nothing
<1>1. CASE StartPrune(o)
  BY <1>1, BeginMoves DEF StartPrune, Begin, Idle
<1>2. ASSUME NEW t \in Names, NEW b \in BOOLEAN, StartSwitch(o, t, b)
      PROVE  /\ ~Busy(o) /\ Others(o)
             /\ UNCHANGED <<releases, passes, half, current, serving, unpacked, misled>>
             /\ overlapped' = (overlapped \/ \E other \in Operators \ {o} : Busy(other))
             /\ job'[o].tool = "switch" /\ job'[o].step = "link"
             /\ Runs(t) /\ job'[o].target = t
             /\ job'[o].previous = current /\ current \in Present
             /\ job'[o].plan = Nothing
  <2> DEFINE j == [Idle EXCEPT !.tool = "switch", !.step = "link", !.target = t,
                               !.previous = current, !.restart = b]
  <2>1. /\ j.tool = "switch" /\ j.step = "link" /\ j.target = t
        /\ j.previous = current /\ j.plan = Nothing
    BY DEF Idle
  <2>2. Begin(o, j)
    BY <1>2 DEF StartSwitch
  <2> HIDE DEF j
  <2>3. job'[o] = j /\ Others(o)
    BY <2>2, BeginMoves
  <2> QED
    BY <1>2, <2>1, <2>2, <2>3 DEF StartSwitch, Begin, CurrentResolves
<1>3. ASSUME NEW t \in Names, StartPhp(o, t)
      PROVE  /\ ~Busy(o) /\ Others(o)
             /\ UNCHANGED <<releases, passes, half, current, serving, unpacked, misled>>
             /\ overlapped' = (overlapped \/ \E other \in Operators \ {o} : Busy(other))
             /\ job'[o].tool = "php" /\ job'[o].step = "link"
             /\ t \in Present /\ job'[o].target = t
             /\ job'[o].plan = Nothing
  <2> DEFINE j == [Idle EXCEPT !.tool = "php", !.step = "link", !.target = t]
  <2>1. /\ j.tool = "php" /\ j.step = "link" /\ j.target = t /\ j.plan = Nothing
    BY DEF Idle
  <2>2. Begin(o, j)
    BY <1>3 DEF StartPhp
  <2> HIDE DEF j
  <2>3. job'[o] = j /\ Others(o)
    BY <2>2, BeginMoves
  <2> QED
    BY <1>3, <2>1, <2>2, <2>3 DEF StartPhp, Begin, EntersPhp
<1> QED
  BY <1>1, <1>2, <1>3 DEF Starts

\* A switch whose smoke test has passed has nothing to go back to.
Passes(o) ==
  /\ job'[o] = [job[o] EXCEPT !.step = "plan", !.previous = NoRelease]
  /\ Others(o)

LEMMA PassesFields ==
  ASSUME TypeOK, NEW o \in Operators, Passes(o)
  PROVE  /\ job'[o].step = "plan" /\ job'[o].tool = job[o].tool
         /\ job'[o].target = job[o].target /\ job'[o].plan = job[o].plan
         /\ job'[o].restart = job[o].restart
BY DEF TypeOK, Job, Passes

\* The steps of a switch in their order; each may be the last.
SwitchMoves(o) ==
  \/ At(o, "switch", "link") /\ Steps(o, "prepare")
  \/ At(o, "switch", "prepare") /\ (Steps(o, "storage") \/ Steps(o, "failed"))
  \/ At(o, "switch", "storage") /\ (Steps(o, "preflight") \/ Steps(o, "failed"))
  \/ At(o, "switch", "preflight") /\ (Steps(o, "restart") \/ Steps(o, "failed"))
  \/ At(o, "switch", "restart") /\ (Steps(o, "smoke") \/ Steps(o, "failed"))
  \/ At(o, "switch", "smoke") /\ (Passes(o) \/ Steps(o, "failed"))
  \/ At(o, "switch", "failed") /\ Steps(o, "restore")

Switches(o) ==
  \/ LinkTarget(o) \/ PrepareTarget(o) \/ PrepareStorage(o) \/ PreflightTarget(o)
  \/ RestartService(o) \/ SmokeTarget(o) \/ LinkPrevious(o)

LEMMA Switching ==
  ASSUME TypeOK, NEW o \in Operators, Switches(o)
  PROVE  /\ SwitchMoves(o)
         /\ UNCHANGED <<releases, passes, half, unpacked, overlapped, misled>>
<1>1. CASE SmokeTarget(o)
  <2>1. Passes(o) \/ Steps(o, "failed")
    BY <1>1, GotoMoves DEF SmokeTarget, Passes, Others, TypeOK
  <2> QED
    BY <1>1, <2>1 DEF SmokeTarget, SwitchMoves
<1>2. CASE ~SmokeTarget(o)
  BY <1>2, GotoMoves DEF Switches, SwitchMoves, LinkTarget, PrepareTarget, PrepareStorage,
     PreflightTarget, RestartService, LinkPrevious
<1> QED
  BY <1>1, <1>2

Returns(o) ==
  \/ GiveUp(o) \/ RestorePrevious(o) \/ StopService(o) \/ PruneDone(o)
  \/ RemovalFails(o) \/ Killed(o)

LEMMA Returning ==
  ASSUME TypeOK, NEW o \in Operators, Returns(o)
  PROVE  /\ Ends(o)
         /\ UNCHANGED <<releases, passes, half, current, unpacked, overlapped, misled>>
BY FinishMoves DEF Returns, GiveUp, RestorePrevious, StopService, PruneDone,
   RemovalFails, Killed

LEMMA GoingToPhp ==
  ASSUME TypeOK, NEW o \in Operators, LinkPhp(o) \/ SwitchNginx(o)
  PROVE  /\ \/ At(o, "php", "link") /\ Steps(o, "nginx")
            \/ At(o, "php", "nginx") /\ (Steps(o, "stop") \/ Ends(o))
         /\ UNCHANGED <<releases, passes, half, serving, unpacked, overlapped, misled>>
BY GotoMoves, FinishMoves DEF LinkPhp, SwitchNginx

\* A plan is made of what is there and not kept ...
LeftOver ==
  [r \in Names |-> IF r \in Kept(releases, LooksPhp, current) THEN 0 ELSE releases[r]]

Planned(o) ==
  /\ current \in Present
  /\ job'[o] = [job[o] EXCEPT !.step = "remove", !.plan = LeftOver]
  /\ Others(o)
  /\ misled' = (misled \/ NewestPhp(releases, LooksPhp) \cap half # {})

LEMMA Planning ==
  ASSUME TypeOK, NEW o \in Operators, PlanPrune(o)
  PROVE  /\ job[o].step = "plan"
         /\ Planned(o) \/ (Ends(o) /\ UNCHANGED misled)
         /\ UNCHANGED <<releases, passes, half, current, serving, unpacked, overlapped>>
<1>1. CASE CurrentResolves
  BY <1>1 DEF PlanPrune, CurrentResolves, Planned, LeftOver, TypeOK, Others
<1>2. CASE ~CurrentResolves
  BY <1>2, FinishMoves DEF PlanPrune
<1> QED
  BY <1>1, <1>2 DEF PlanPrune

\* ... and carried out release by release, part by part.
Without(l, r) == [l EXCEPT ![r] = 0]

Thinned(o, r) ==
  /\ r \in Present
  /\ \E time \in 1..MaxTime : releases' = [releases EXCEPT ![r] = time]
  /\ half' = half \cup {r}
  /\ Steps(o, "removing")

Removed(o, r) ==
  /\ releases' = Without(releases, r)
  /\ half' = half \ {r}
  /\ job'[o] = [job[o] EXCEPT !.plan = Without(job[o].plan, r), !.step = "remove"]
  /\ Others(o)

Removes(o) == RemovePart(o) \/ RemoveRest(o)

LEMMA Removing ==
  ASSUME TypeOK, NEW o \in Operators, Removes(o)
  PROVE  /\ job[o].step \in {"remove", "removing"}
         /\ \E r \in Names : /\ job[o].plan[r] # 0
                             /\ Thinned(o, r) \/ Removed(o, r)
                             /\ \A q \in Names : q # r => passes'[q] = passes[q]
         /\ UNCHANGED <<current, serving, unpacked, overlapped, misled>>
<1>0. \A r \in Victim(o) : r \in Names /\ job[o].plan[r] # 0
  BY DEF Victim, IsNewest, Entries
<1>1. CASE RemovePart(o)
  <2>1. PICK r \in Victim(o) \cap Present, left \in SUBSET Tests, time \in 1..MaxTime :
          /\ releases' = [releases EXCEPT ![r] = time]
          /\ passes' = [passes EXCEPT ![r] = @ \cap left]
          /\ half' = half \cup {r}
    BY <1>1 DEF RemovePart
  <2>2. Steps(o, "removing")
    BY <1>1, GotoMoves DEF RemovePart
  <2>3. \A q \in Names : q # r => passes'[q] = passes[q]
    BY <2>1 DEF TypeOK
  <2> QED
    BY <1>0, <1>1, <2>1, <2>2, <2>3 DEF RemovePart, Thinned
<1>2. CASE RemoveRest(o)
  <2>1. PICK r \in Victim(o) :
          /\ releases' = [releases EXCEPT ![r] = 0]
          /\ passes' = [passes EXCEPT ![r] = {}]
          /\ half' = half \ {r}
          /\ job' = [job EXCEPT ![o].plan[r] = 0, ![o].step = "remove"]
    BY <1>2 DEF RemoveRest
  <2>2. /\ job'[o] = [job[o] EXCEPT !.plan = Without(job[o].plan, r), !.step = "remove"]
        /\ Others(o)
    BY <2>1 DEF Others, Without, TypeOK
  <2>3. \A q \in Names : q # r => passes'[q] = passes[q]
    BY <2>1 DEF TypeOK
  <2> QED
    BY <1>0, <1>2, <2>1, <2>2, <2>3 DEF RemoveRest, Removed, Without
<1> QED
  BY <1>1, <1>2 DEF Removes

\* What is left of the plan and of the releases.
LEMMA RemovalFields ==
  ASSUME TypeOK, NEW o \in Operators, NEW r \in Names, job[o].plan[r] # 0,
         Thinned(o, r) \/ Removed(o, r)
  PROVE  /\ job'[o].step \in {"remove", "removing"} /\ job'[o].tool = job[o].tool
         /\ job'[o].target = job[o].target /\ job'[o].restart = job[o].restart
         /\ \A q \in Names : job'[o].plan[q] # 0 => job[o].plan[q] # 0
         /\ Others(o)
         /\ \A q \in Names : q # r => releases'[q] = releases[q]
         /\ half' \ {r} = half \ {r}
<1>1. CASE Thinned(o, r)
  BY <1>1, StepFields DEF Thinned, Steps, TypeOK, Listing
<1>2. CASE Removed(o, r)
  BY <1>2 DEF Removed, Without, TypeOK, Job, Listing
<1> QED
  BY <1>1, <1>2

\* A step is one of a tool, or of nobody's.
LEMMA ToolSteps ==
  ASSUME Next
  PROVE  \/ \E r \in Names, time \in 1..MaxTime : Unpack(r, time)
         \/ ServiceFails
         \/ \E o \in Operators :
              \/ Starts(o) \/ Switches(o) \/ Returns(o)
              \/ LinkPhp(o) \/ SwitchNginx(o) \/ PlanPrune(o) \/ Removes(o)
BY DEF Next, Starts, Switches, Returns, Removes

LEMMA EquippedStep == TypeOK /\ Equipped /\ [Next]_vars => Equipped'
<1> SUFFICES ASSUME TypeOK, Equipped, [Next]_vars PROVE Equipped'
  OBVIOUS
<1>1. CASE UNCHANGED job
  BY <1>1 DEF Equipped
<1>2. ASSUME NEW o \in Operators, Others(o),
             \/ Ends(o)
             \/ SwitchMoves(o)
             \/ At(o, "php", "link") /\ Steps(o, "nginx")
             \/ At(o, "php", "nginx") /\ Steps(o, "stop")
      PROVE  Equipped'
  <2>1. CASE Ends(o)
    BY <2>1 DEF Equipped, Others, Ends, Idle
  <2>2. CASE SwitchMoves(o)
    <3>1. /\ job[o].tool = "switch" /\ job'[o].tool = "switch"
          /\ job[o].step \in MayReturn
          /\ job'[o].step \in Moved \cup MayReturn
          /\ job'[o].target = job[o].target
          /\ job'[o].step \in MayReturn => job'[o].previous = job[o].previous
      BY <2>2, StepFields, PassesFields DEF SwitchMoves, At, Moved, MayReturn, Pruning
    <3> QED
      BY <1>2, <3>1 DEF Equipped, Others
  <2>3. ASSUME NEW step \in {"nginx", "stop"}, job[o].tool = "php", Steps(o, step)
        PROVE  Equipped'
    BY <1>2, <2>3, StepFields DEF Equipped, Others
  <2> QED
    BY <1>2, <2>1, <2>2, <2>3 DEF At
<1>3. ASSUME NEW o \in Operators, Starts(o) PROVE Equipped'
  BY <1>3, Starting DEF Equipped, Others, TypeOK, Moved, MayReturn, Pruning
<1>4. ASSUME NEW o \in Operators, Planned(o), job[o].step = "plan" PROVE Equipped'
  <2>1. /\ job'[o].tool = job[o].tool /\ job'[o].step = "remove"
        /\ job'[o].target = job[o].target
        /\ Others(o)
    BY <1>4 DEF Planned, TypeOK, Job
  <2> QED
    BY <1>4, <2>1 DEF Equipped, Others, Moved, MayReturn, Pruning
<1>5. ASSUME NEW o \in Operators, Removes(o) PROVE Equipped'
  <2>1. /\ job'[o].tool = job[o].tool /\ job'[o].target = job[o].target
        /\ job[o].step \in {"remove", "removing"}
        /\ job'[o].step \in {"remove", "removing"}
        /\ Others(o)
    BY <1>5, Removing, RemovalFields
  <2> QED
    BY <2>1 DEF Equipped, Others, Moved, MayReturn, Pruning
<1> QED
  BY <1>1, <1>2, <1>3, <1>4, <1>5, ToolSteps, Starting, Switching, Returning,
     GoingToPhp, Planning
     DEF vars, Unpack, ServiceFails, Ends, Steps, Passes, SwitchMoves

\* Only a removal makes a release differ from what was unpacked.
LEMMA UntouchedStep == TypeOK /\ Untouched /\ [Next]_vars => Untouched'
<1> SUFFICES ASSUME TypeOK, Untouched, [Next]_vars PROVE Untouched'
  OBVIOUS
<1>1. CASE UNCHANGED <<releases, passes, half>>
  BY <1>1 DEF Untouched, Present
<1>2. ASSUME NEW r \in Names, NEW time \in 1..MaxTime, Unpack(r, time) PROVE Untouched'
  <2>1. /\ Present' = Present \cup {r} /\ UNCHANGED half
        /\ passes' = [passes EXCEPT ![r] = Unpacked(r)]
    BY <1>2, ReleasesAssumption DEF Unpack, TypeOK, Present, Entries, Listing
  <2> QED
    BY <2>1 DEF Untouched, TypeOK, Present, Entries
<1>3. ASSUME NEW o \in Operators, Removes(o) PROVE Untouched'
  <2>1. PICK r \in Names :
          /\ job[o].plan[r] # 0
          /\ Thinned(o, r) \/ Removed(o, r)
          /\ \A q \in Names : q # r => passes'[q] = passes[q]
    BY <1>3, Removing
  <2>2. r \notin Present' \ half'
    BY <2>1 DEF Thinned, Removed, Without, Present, Entries, TypeOK, Listing
  <2>3. \A q \in Present' \ half' : q \in Names /\ q # r /\ q \in Present \ half
    BY <2>1, <2>2, RemovalFields DEF Present, Entries
  <2> QED
    BY <2>1, <2>3 DEF Untouched
<1> QED
  BY <1>1, <1>2, <1>3, ToolSteps, Starting, Switching, Returning, GoingToPhp, Planning
     DEF vars, ServiceFails

-----------------------------------------------------------------------------
(* Tools that do not overlap                                               *)

\* A step other than a start makes no idle tool busy.
NoneStarts == \A p \in Operators : job'[p].tool # "none" => Busy(p)

LEMMA BusyAlready ==
  ASSUME TypeOK, NEW o \in Operators, Others(o),
         \/ Ends(o) \/ SwitchMoves(o) \/ Busy(o)
  PROVE  NoneStarts
<1>1. job'[o].tool # "none" => Busy(o)
  <2>1. CASE Ends(o)
    BY <2>1 DEF Ends, Idle
  <2>2. CASE SwitchMoves(o)
    BY <2>2 DEF SwitchMoves, At, Busy
  <2> QED
    BY <2>1, <2>2
<1> QED
  BY <1>1 DEF NoneStarts, Others, Busy

LEMMA LonelyStep ==
  TypeOK /\ Equipped /\ Lonely /\ [Next]_vars => Lonely'
<1> SUFFICES ASSUME TypeOK, Equipped, Lonely, [Next]_vars, ~overlapped'
             PROVE  \A o, p \in Operators : Busy(o)' /\ Busy(p)' => o = p
  BY DEF Lonely
<1>1. ASSUME NoneStarts, UNCHANGED overlapped
      PROVE  \A o, p \in Operators : Busy(o)' /\ Busy(p)' => o = p
  BY <1>1 DEF Lonely, NoneStarts, Busy
<1>2. CASE UNCHANGED <<job, overlapped>>
  BY <1>1, <1>2 DEF NoneStarts, Busy
<1>3. ASSUME NEW o \in Operators, Starts(o)
      PROVE  \A p \in Operators : Busy(p)' => p = o
  <2>1. \A p \in Operators : p # o => ~Busy(p) /\ job'[p] = job[p]
    BY <1>3, Starting DEF Others
  <2> QED
    BY <2>1 DEF Busy
<1>4. ASSUME NEW o \in Operators, PlanPrune(o)
      PROVE  NoneStarts /\ UNCHANGED overlapped
  <2>1. job'[o].tool # "none" => job[o].tool # "none"
    BY <1>4, Planning DEF Equipped
  <2> QED
    BY <1>4, <2>1, Planning DEF NoneStarts, Others, Planned, Ends, Busy
<1>5. ASSUME NEW o \in Operators, Removes(o)
      PROVE  NoneStarts /\ UNCHANGED overlapped
  <2>1. Busy(o) /\ Others(o)
    BY <1>5, Removing, RemovalFields DEF Equipped, Busy
  <2> QED
    BY <1>5, <2>1, Removing, BusyAlready
<1>6. ASSUME NEW o \in Operators,
             Switches(o) \/ Returns(o) \/ LinkPhp(o) \/ SwitchNginx(o)
      PROVE  NoneStarts /\ UNCHANGED overlapped
  BY <1>6, Switching, Returning, GoingToPhp, BusyAlready
     DEF SwitchMoves, Steps, Passes, Ends, At, Busy
<1> QED
  BY <1>1, <1>2, <1>3, <1>4, <1>5, <1>6, ToolSteps DEF vars, Unpack, ServiceFails

-----------------------------------------------------------------------------
(* The link and the service of a tool that is alone                        *)

\* A tool that is not running is on no course, and one that is has the link,
\* the service and the directory for itself.
LEMMA IdleCourse ==
  ASSUME NEW o \in Operators, job[o].tool = "none", job[o].step = "done"
  PROVE  Course(o)
BY DEF Course, Moved, MayReturn, Pruning

LEMMA CourseStep ==
  TypeOK /\ Equipped /\ Lonely /\ CurrentPresent /\ OnCourse /\ [Next]_vars
    => CurrentPresent' /\ OnCourse'
<1> DEFINE Stay == current' \in Present' /\ \A p \in Operators : Course(p)'
<1> SUFFICES ASSUME TypeOK, Equipped, Lonely, CurrentPresent, OnCourse, [Next]_vars,
                    ~overlapped'
             PROVE  Stay
  <2>1. Stay => CurrentPresent'
    BY DEF CurrentPresent, Course, Victim, IsNewest, Entries
  <2>2. Stay => OnCourse'
    BY DEF OnCourse
  <2>3. overlapped' => CurrentPresent' /\ OnCourse'
    BY DEF CurrentPresent, OnCourse
  <2> HIDE DEF Stay
  <2> QED
    BY <2>1, <2>2, <2>3
<1>1. ~overlapped
  BY Starting, Switching, Returning, GoingToPhp, Planning, Removing, ToolSteps
     DEF vars, Unpack, ServiceFails
<1>2. current \in Present /\ \A p \in Operators : Course(p)
  BY <1>1 DEF CurrentPresent, OnCourse
<1>3. Equipped' /\ Lonely'
  BY EquippedStep, LonelyStep
<1>4. \A p \in Operators : ~Busy(p)' => Course(p)'
  BY <1>3, IdleCourse DEF Busy, Equipped, Course, Moved, MayReturn, Pruning
<1>5. ASSUME NEW o \in Operators, Busy(o)', current' \in Present', Course(o)'
      PROVE  Stay
  BY <1>3, <1>4, <1>5 DEF Lonely
<1>6. ASSUME NEW o \in Operators, Busy(o), Ends(o), current' \in Present'
      PROVE  Stay
  <2>1. \A p \in Operators : ~Busy(p)'
    BY <1>1, <1>6 DEF Lonely, Busy, Ends, Idle, Others
  <2> QED
    BY <1>4, <1>6, <2>1
<1>7. ASSUME NEW r \in Names, NEW time \in 1..MaxTime, Unpack(r, time) PROVE Stay
  <2>1. \A q \in Present : q \in Present' /\ passes'[q] = passes[q]
    BY <1>7 DEF Unpack, Present, Entries, TypeOK, Listing
  <2>2. \A q \in Names : Runs(q) => Runs(q)'
    BY <2>1 DEF Runs
  <2>3. \A p \in Operators : Course(p)'
    BY <1>2, <1>3, <1>7, <2>1, <2>2 DEF Unpack, Course, Equipped, TypeOK
  <2> QED
    BY <1>2, <1>7, <2>1, <2>3 DEF Unpack
<1>8. CASE ServiceFails
  <2>1. Runs(current) => serving' = current
    BY <1>8 DEF ServiceFails, Started
  <2>2. UNCHANGED <<releases, passes, current, job>>
    BY <1>8 DEF ServiceFails
  <2>3. \A p \in Operators : Course(p)'
    BY <1>2, <2>1, <2>2 DEF Course, Present, Runs, Moved, Pruning
  <2> QED
    BY <1>2, <2>2, <2>3 DEF Present
<1>9. CASE UNCHANGED vars
  BY <1>2, <1>9 DEF vars, Course, Present, Runs
<1>10. ASSUME NEW o \in Operators, Starts(o) PROVE Stay
  <2>1. Present' = Present /\ UNCHANGED <<current, serving, releases, passes>>
    BY <1>10, Starting DEF Present
  <2>2. Course(o)' /\ Busy(o)'
    BY <1>2, <1>10, <2>1, Starting DEF Course, Moved, MayReturn, Pruning, Busy, Runs
  <2> QED
    BY <1>2, <1>5, <2>1, <2>2
<1>11. ASSUME NEW o \in Operators, Switches(o) PROVE Stay
  <2>0. /\ Present' = Present /\ UNCHANGED <<releases, passes>>
        /\ job[o].tool = "switch" /\ job'[o].tool = "switch"
        /\ job'[o].target = job[o].target /\ job'[o].restart = job[o].restart
        /\ Busy(o)'
    BY <1>11, Switching, StepFields, PassesFields DEF SwitchMoves, At, Present, Busy
  <2>1. CASE LinkTarget(o)
    <3>1. /\ job[o].step = "link" /\ job'[o].step = "prepare"
          /\ current' = job[o].target /\ Runs(job[o].target)
          /\ job'[o].previous = job[o].previous /\ job[o].previous \in Present
      BY <1>2, <2>0, <2>1, GotoMoves, StepFields DEF LinkTarget, At, Course, MayReturn
    <3> QED
      BY <1>5, <2>0, <3>1 DEF Course, Moved, MayReturn, Pruning, Runs
  <2>2. CASE PrepareTarget(o) \/ PrepareStorage(o) \/ PreflightTarget(o)
    <3>1. /\ job[o].step \in {"prepare", "storage", "preflight"}
          /\ job'[o].step \in {"storage", "preflight", "restart", "failed"}
          /\ job'[o].previous = job[o].previous
          /\ UNCHANGED <<current, serving>>
      BY <2>2, GotoMoves, StepFields
         DEF PrepareTarget, PrepareStorage, PreflightTarget, At
    <3> QED
      BY <1>2, <1>5, <2>0, <3>1 DEF Course, Moved, MayReturn, Pruning, Runs
  <2>3. CASE RestartService(o)
    <3>1. /\ job[o].step = "restart" /\ job'[o].step \in {"smoke", "failed"}
          /\ job'[o].previous = job[o].previous
          /\ UNCHANGED current
          /\ job[o].restart => serving' = Started
      BY <2>3, GotoMoves, StepFields DEF RestartService, At
    <3>2. job[o].restart => serving' = current
      BY <1>2, <2>0, <3>1 DEF Started, Course, Moved
    <3>3. Course(o)'
      BY <1>2, <2>0, <3>1, <3>2 DEF Course, Moved, MayReturn, Pruning, Runs
    <3> QED
      BY <1>2, <1>5, <2>0, <3>1, <3>3
  <2>4. CASE SmokeTarget(o)
    <3>0. /\ job[o].step = "smoke" /\ UNCHANGED <<current, serving>>
      BY <2>4 DEF SmokeTarget, At
    <3>1. CASE Goto(o, "failed")
      <4>1. job'[o].step = "failed" /\ job'[o].previous = job[o].previous
        BY <3>1, GotoMoves, StepFields
      <4> QED
        BY <1>2, <1>5, <2>0, <3>0, <4>1 DEF Course, Moved, MayReturn, Pruning, Runs
    <3>2. CASE Passes(o) /\ (job[o].restart => serving # NoRelease)
      <4>1. job'[o].step = "plan"
        BY <3>2, PassesFields
      <4> QED
        BY <1>2, <1>5, <2>0, <3>0, <3>2, <4>1 DEF Course, Moved, MayReturn, Pruning, Runs
    <3> QED
      BY <2>4, <3>1, <3>2 DEF SmokeTarget, Passes, Others, TypeOK
  <2>5. CASE LinkPrevious(o)
    <3>1. /\ job[o].step = "failed" /\ job'[o].step = "restore"
          /\ job'[o].previous = job[o].previous
          /\ current' = job[o].previous
      BY <2>5, GotoMoves, StepFields DEF LinkPrevious, At
    <3> QED
      BY <1>2, <1>5, <2>0, <3>1 DEF Course, Moved, MayReturn, Pruning
  <2> QED
    BY <1>11, <2>1, <2>2, <2>3, <2>4, <2>5 DEF Switches
<1>12. ASSUME NEW o \in Operators, Returns(o) PROVE Stay
  <2>1. Busy(o)
    BY <1>12 DEF Returns, GiveUp, RestorePrevious, StopService, PruneDone, RemovalFails,
       Killed, At, Busy, Equipped
  <2> QED
    BY <1>2, <1>6, <1>12, <2>1, Returning DEF Present
<1>13. ASSUME NEW o \in Operators, LinkPhp(o) PROVE Stay
  <2>1. /\ job[o].tool = "php" /\ job[o].step = "link"
        /\ job'[o].tool = "php" /\ job'[o].step = "nginx"
        /\ current' = job[o].target /\ Present' = Present
    BY <1>13, GotoMoves, StepFields, GoingToPhp DEF LinkPhp, At, Present
  <2> QED
    BY <1>2, <1>5, <2>1 DEF Course, Busy
<1>14. ASSUME NEW o \in Operators, SwitchNginx(o) PROVE Stay
  <2>1. /\ job[o].tool = "php" /\ Present' = Present /\ UNCHANGED current
        /\ \/ job'[o].tool = "php" /\ job'[o].step = "stop"
           \/ Ends(o)
    BY <1>14, GotoMoves, StepFields, FinishMoves, GoingToPhp DEF SwitchNginx, At, Present
  <2> QED
    BY <1>2, <1>5, <1>6, <2>1 DEF Course, Busy
<1>15. ASSUME NEW o \in Operators, PlanPrune(o) PROVE Stay
  <2>1. Busy(o) /\ Present' = Present /\ UNCHANGED <<current, serving, releases, passes>>
    BY <1>15, Planning DEF Equipped, Busy, Present
  <2>2. CASE Planned(o)
    <3>0. job[o].step = "plan"
      BY <1>15, Planning
    <3>1. /\ job'[o].step = "remove"
          /\ job'[o].tool = job[o].tool /\ job'[o].target = job[o].target
          /\ job'[o].restart = job[o].restart
          /\ job'[o].plan = LeftOver
      BY <2>2 DEF Planned, TypeOK, Job
    <3>2. LeftOver[current] = 0
      BY DEF LeftOver, Kept, TypeOK
    <3> QED
      BY <1>2, <1>5, <2>1, <3>0, <3>1, <3>2
         DEF Course, Moved, MayReturn, Pruning, Busy, Runs
  <2> QED
    BY <1>2, <1>6, <1>15, <2>1, <2>2, Planning
<1>16. ASSUME NEW o \in Operators, Removes(o) PROVE Stay
  <2>1. Busy(o) /\ job[o].step \in {"remove", "removing"} /\ UNCHANGED <<current, serving>>
    BY <1>16, Removing DEF Equipped, Busy
  <2>2. PICK r \in Names : /\ job[o].plan[r] # 0
                           /\ Thinned(o, r) \/ Removed(o, r)
                           /\ \A q \in Names : q # r => passes'[q] = passes[q]
    BY <1>16, Removing
  <2>3. r # current /\ job[o].plan[current] = 0 /\ current \in Names
    BY <1>2, <2>1, <2>2 DEF Course, TypeOK
  <2>4. current \in Present' /\ (Runs(current) => Runs(current)')
    BY <1>2, <2>1, <2>2, <2>3, RemovalFields DEF Present, Entries, Runs
  <2>5. /\ job'[o].step \in {"remove", "removing"} /\ job'[o].tool = job[o].tool
        /\ job'[o].target = job[o].target /\ job'[o].restart = job[o].restart
        /\ job'[o].plan[current] = 0
    BY <2>2, <2>3, RemovalFields
  <2>6. Course(o)'
    BY <1>2, <2>1, <2>4, <2>5 DEF Course, Moved, MayReturn, Pruning
  <2> QED
    BY <1>5, <2>1, <2>4, <2>5, <2>6 DEF Busy
<1> QED
  BY <1>7, <1>8, <1>9, <1>10, <1>11, <1>12, <1>13, <1>14, <1>15, <1>16, ToolSteps

-----------------------------------------------------------------------------
(* PHP releases                                                            *)

\* A whole PHP release that a plan spares, being the newest, or because it was
\* not there when the plan was made.
LEMMA NewestIsSpared ==
  ASSUME TypeOK, PhpSpared, ~misled, NEW o \in Operators,
         NEW r \in NewestPhp(releases, WholePhp)
  PROVE  job[o].plan[r] = 0
<1>1. r \in WholePhp /\ r \in PhpReleases /\ \A q \in WholePhp : releases[q] <= releases[r]
  BY DEF NewestPhp, IsNewest, WholePhp
<1>2. \A p \in WholePhp : releases[p] \in Nat
  BY DEF TypeOK, Listing, WholePhp, Present, Entries
<1> QED
  BY <1>1, <1>2 DEF PhpSpared

\* What the newest of those that look like PHP spares, nothing being gone from
\* it.
LEMMA PlanSpares ==
  ASSUME TypeOK, Untouched, NEW q \in WholePhp,
         q \notin NewestPhp(releases, LooksPhp),
         NewestPhp(releases, LooksPhp) \cap half = {}
  PROVE  \E p \in WholePhp : releases[p] > releases[q]
<1>0. /\ \A r \in Names : releases[r] \in 0..MaxTime
      /\ \A r, s \in Names : releases[r] = releases[s] => r = s \/ releases[r] = 0
      /\ MaxTime \in Nat
  BY ReleasesAssumption DEF TypeOK, Listing
<1>1. LooksPhp \subseteq Names /\ \A r \in LooksPhp : releases[r] # 0
  BY DEF LooksPhp, Present, Entries
<1>2. q \in LooksPhp /\ q \in Names
  BY DEF WholePhp, LooksPhp, Untouched, Unpacked, Names
<1>3. PICK p \in LooksPhp : \A r \in LooksPhp : releases[r] <= releases[p]
  BY <1>0, <1>1, <1>2, Highest
<1>4. p \in NewestPhp(releases, LooksPhp)
  BY <1>1, <1>3 DEF NewestPhp, IsNewest, Entries
<1>5. p \in WholePhp
  BY <1>1, <1>4 DEF LooksPhp, WholePhp, TypeOK, Unpacked
<1>6. releases[p] # releases[q] /\ releases[q] <= releases[p]
  BY <1>0, <1>1, <1>2, <1>3, <1>4
<1> QED
  BY <1>0, <1>1, <1>2, <1>5, <1>6

LEMMA PhpStep == TypeOK /\ Untouched /\ PhpSpared /\ [Next]_vars => PhpSpared'
<1> SUFFICES ASSUME TypeOK, Untouched, PhpSpared, [Next]_vars, ~misled',
                    NEW o \in Operators, NEW q \in PhpReleases, job'[o].plan[q] # 0
             PROVE  /\ q \in unpacked'
                    /\ q \in WholePhp' => \E p \in WholePhp' : releases'[p] > releases'[q]
  BY DEF PhpSpared
<1> DEFINE Spared == /\ q \in unpacked'
                     /\ q \in WholePhp' => \E p \in WholePhp' : releases'[p] > releases'[q]
<1>0. /\ ~misled /\ unpacked \subseteq unpacked'
      /\ \A p \in PhpReleases : p \in Names /\ releases[p] \in Nat
  <2>1. ~misled /\ unpacked \subseteq unpacked'
    <3>1. CASE \E op \in Operators : PlanPrune(op)
      BY <3>1, Planning DEF Planned
    <3>2. CASE \E r \in Names, time \in 1..MaxTime : Unpack(r, time)
      BY <3>2 DEF Unpack
    <3>3. CASE UNCHANGED <<misled, unpacked>>
      BY <3>3
    <3> QED
      BY <3>1, <3>2, <3>3, Starting, Switching, Returning, GoingToPhp, Removing, ToolSteps
         DEF vars, ServiceFails
  <2> QED
    BY <2>1 DEF TypeOK, Listing, Names
<1>1. ASSUME job[o].plan[q] # 0, UNCHANGED <<releases, half>> PROVE Spared
  BY <1>0, <1>1 DEF PhpSpared, WholePhp, Present
<1>2. ASSUME NEW r \in Names, NEW time \in 1..MaxTime, Unpack(r, time) PROVE Spared
  <2>1. q \in unpacked /\ r \notin unpacked /\ job[o].plan[q] # 0
    BY <1>0, <1>2 DEF Unpack, PhpSpared
  <2>2. /\ r \notin Present
        /\ \A p \in Names : p # r => releases'[p] = releases[p]
        /\ \A p \in Names : p # r => (p \in Present' <=> p \in Present)
        /\ UNCHANGED half
    BY <1>2, <2>1 DEF Unpack, TypeOK, Present, Entries, Listing
  <2>3. ASSUME q \in WholePhp'
        PROVE  \E p \in WholePhp' : releases'[p] > releases'[q]
    <3>1. q \in WholePhp
      BY <1>0, <2>1, <2>2, <2>3 DEF WholePhp
    <3>2. PICK p \in WholePhp : releases[p] > releases[q]
      BY <1>0, <2>1, <3>1 DEF PhpSpared
    <3>3. p \in WholePhp' /\ releases'[p] = releases[p] /\ releases'[q] = releases[q]
      BY <1>0, <2>1, <2>2, <3>1, <3>2 DEF WholePhp
    <3> QED
      BY <3>2, <3>3
  <2> QED
    BY <1>0, <2>1, <2>3
<1>3. ASSUME NEW op \in Operators, PlanPrune(op) PROVE Spared
  <2>1. CASE job[o].plan[q] # 0
    BY <1>1, <1>3, <2>1, Planning
  <2>2. CASE job[o].plan[q] = 0
    <3>1. op = o /\ Planned(o)
      <4>1. Others(op) /\ (Planned(op) \/ job'[op] = Idle)
        BY <1>3, Planning DEF Planned, Ends
      <4>2. Idle.plan[q] = 0
        BY <1>0 DEF Idle, Nothing
      <4> QED
        BY <2>2, <4>1, <4>2 DEF Others
    <3>2. LeftOver[q] # 0
      BY <3>1 DEF Planned, TypeOK, Job
    <3>3. q \notin NewestPhp(releases, LooksPhp) /\ releases[q] # 0
      BY <1>0, <3>2 DEF LeftOver, Kept
    <3>4. NewestPhp(releases, LooksPhp) \cap half = {}
      BY <3>1 DEF Planned
    <3>5. UNCHANGED <<releases, half>> /\ WholePhp' = WholePhp
      BY <1>3, Planning DEF WholePhp, Present
    <3>6. q \in WholePhp => \E p \in WholePhp : releases[p] > releases[q]
      BY <3>3, <3>4, PlanSpares
    <3> QED
      BY <1>0, <3>3, <3>5, <3>6 DEF TypeOK, Present, Entries
  <2> QED
    BY <2>1, <2>2
<1>4. ASSUME NEW op \in Operators, Removes(op) PROVE Spared
  <2>1. PICK r \in Names : job[op].plan[r] # 0 /\ (Thinned(op, r) \/ Removed(op, r))
    BY <1>4, Removing
  <2>2. job[o].plan[q] # 0
    BY <1>0, <2>1, RemovalFields DEF Others
  <2>3. r \notin WholePhp'
    BY <2>1 DEF Thinned, Removed, Without, WholePhp, Present, Entries, TypeOK, Listing
  <2>4. \A x \in Names : x # r => /\ releases'[x] = releases[x]
                                  /\ x \in WholePhp' <=> x \in WholePhp
    BY <2>1, RemovalFields DEF WholePhp, Present, Entries
  <2>5. ASSUME q \in WholePhp'
        PROVE  \E p \in WholePhp' : releases'[p] > releases'[q]
    <3>1. q # r /\ q \in WholePhp
      BY <1>0, <2>3, <2>4, <2>5
    <3>2. PICK p \in WholePhp : releases[p] > releases[q]
      BY <1>0, <2>2, <3>1 DEF PhpSpared
    <3>3. \E x \in WholePhp : x # r /\ releases[x] > releases[q]
      <4>1. CASE p # r
        BY <3>2, <4>1
      <4>2. CASE p = r
        <5>1. PICK x \in WholePhp : releases[x] > releases[p]
          BY <1>0, <2>1, <3>2, <4>2 DEF PhpSpared, WholePhp
        <5>2. x \in PhpReleases /\ p \in PhpReleases
          BY DEF WholePhp
        <5> QED
          BY <1>0, <3>2, <4>2, <5>1, <5>2
      <4> QED
        BY <4>1, <4>2
    <3>4. \A x \in WholePhp : x \in Names
      BY DEF WholePhp, Present, Entries
    <3> QED
      BY <1>0, <2>4, <3>1, <3>3, <3>4
  <2> QED
    BY <1>0, <2>2, <2>5 DEF PhpSpared
<1>5. ASSUME NEW op \in Operators, Starts(op)
      PROVE  job[o].plan[q] # 0 /\ UNCHANGED <<releases, half>>
  BY <1>0, <1>5, Starting DEF Others, Nothing
<1>6. ASSUME NEW op \in Operators, Ends(op)
      PROVE  job[o].plan[q] # 0
  BY <1>0, <1>6 DEF Ends, Others, Idle, Nothing
<1>7. ASSUME NEW op \in Operators, NEW step, Steps(op, step) \/ Passes(op)
      PROVE  job[o].plan[q] # 0
  <2>1. job'[op].plan = job[op].plan
    BY <1>7, StepFields, PassesFields
  <2> QED
    BY <1>7, <2>1 DEF Steps, Passes, Others
<1>8. ASSUME NEW op \in Operators,
             Switches(op) \/ Returns(op) \/ LinkPhp(op) \/ SwitchNginx(op)
      PROVE  job[o].plan[q] # 0 /\ UNCHANGED <<releases, half>>
  BY <1>6, <1>7, <1>8, Switching, Returning, GoingToPhp DEF SwitchMoves
<1>9. CASE UNCHANGED <<job, releases, half>>
  BY <1>1, <1>9
<1> QED
  BY <1>1, <1>2, <1>3, <1>4, <1>5, <1>8, <1>9, ToolSteps DEF vars, ServiceFails

-----------------------------------------------------------------------------
LEMMA ReleasesStart == Init => ReleasesInv
<1> SUFFICES ASSUME Init PROVE ReleasesInv
  OBVIOUS
<1>1. \A o \in Operators : job[o] = Idle
  BY DEF Init
<1>2. Equipped /\ Lonely /\ OnCourse /\ PhpSpared
  BY <1>1 DEF Equipped, Lonely, OnCourse, Course, PhpSpared, Idle, Busy,
     Nothing, Names, Moved, MayReturn, Pruning
<1>3. CurrentPresent
  BY <1>1, ReleasesAssumption DEF Init, CurrentPresent, Present, Idle
<1>4. Untouched
  BY DEF Init, Untouched, Present, Entries
<1> QED
  BY <1>2, <1>3, <1>4, TypeStart DEF ReleasesInv

LEMMA ReleasesStep == ReleasesInv /\ [Next]_vars => ReleasesInv'
BY TypeStep, EquippedStep, LonelyStep, UntouchedStep, CourseStep, PhpStep
   DEF ReleasesInv

(* The directory, the link, the service and every tool are what their      *)
(* types say: the service runs Rust releases only.                         *)
THEOREM ReleaseTypes == Spec => []TypeOK
<1>1. ReleasesInv => TypeOK
  BY DEF ReleasesInv
<1> QED
  BY <1>1, ReleasesStart, ReleasesStep, PTL DEF Spec

(* Whatever fails or is killed on the way, the link names a release that   *)
(* is there and that no prune is removing, as long as no two tools ran at  *)
(* once.                                                                   *)
THEOREM CurrentIsPresent == Spec => []CurrentPresent
<1>1. ReleasesInv => CurrentPresent
  BY DEF ReleasesInv
<1> QED
  BY <1>1, ReleasesStart, ReleasesStep, PTL DEF Spec

(* A switch goes on to its prune only with its target current and, unless  *)
(* it was told to leave the service alone, in service, also when the       *)
(* service failed and was restarted.                                       *)
THEOREM SwitchedReleasesServe == Spec => []SwitchedIsServed
<1>1. ReleasesInv => SwitchedIsServed
  BY DEF ReleasesInv, OnCourse, Course, SwitchedIsServed, Moved,
     Pruning
<1> QED
  BY <1>1, ReleasesStart, ReleasesStep, PTL DEF Spec

(* No prune touches the newest PHP release of which nothing is missing,    *)
(* with any number of tools at work on plans of any age, until a prune has *)
(* taken a half-removed release for the newest PHP one.                    *)
THEOREM PhpReleasesStay == Spec => PhpReleaseKept
<1>1. ASSUME ReleasesInv, [Next]_vars, ~misled
      PROVE  NewestPhp(releases, WholePhp) \subseteq WholePhp'
  <2> SUFFICES ASSUME NEW r \in NewestPhp(releases, WholePhp) PROVE r \in WholePhp'
    OBVIOUS
  <2>0. r \in Names /\ r \in WholePhp /\ TypeOK
    BY <1>1 DEF NewestPhp, IsNewest, Entries, ReleasesInv
  <2>1. ASSUME NEW x \in Names, NEW time \in 1..MaxTime, Unpack(x, time)
        PROVE  r \in WholePhp'
    BY <2>0, <2>1, ReleasesAssumption
       DEF Unpack, TypeOK, Listing, WholePhp, Present, Entries
  <2>2. ASSUME NEW o \in Operators, Removes(o) PROVE r \in WholePhp'
    <3>1. job[o].plan[r] = 0
      BY <1>1, NewestIsSpared DEF ReleasesInv
    <3>2. PICK x \in Names : job[o].plan[x] # 0 /\ (Thinned(o, x) \/ Removed(o, x))
      BY <2>0, <2>2, Removing
    <3>3. x # r
      BY <3>1, <3>2
    <3> QED
      BY <2>0, <3>2, <3>3, RemovalFields DEF WholePhp, Present, Entries
  <2>3. CASE UNCHANGED <<releases, half>>
    BY <2>0, <2>3 DEF WholePhp, Present
  <2> QED
    BY <1>1, <2>0, <2>1, <2>2, <2>3, ToolSteps, Starting, Switching, Returning,
       GoingToPhp, Planning DEF vars, ServiceFails
<1> QED
  BY <1>1, ReleasesStart, ReleasesStep, PTL DEF Spec, PhpReleaseKept
=============================================================================
