----------------------------- MODULE SliderPool -----------------------------
(***************************************************************************)
(* The pool of slider images behind the operator's login page              *)
(* (src/src/service/login.rs): pool.json and a directory of images on      *)
(* disk, filled by the prewarm-slider-images command and read by the       *)
(* server for every challenge. The mutex of prewarm_slider_images lives in *)
(* one process; every command is a process of its own and the server never *)
(* takes it, so nothing serialises the file accesses below.                *)
(***************************************************************************)
EXTENDS Integers, FiniteSets

CONSTANTS
  Commands,    \* prewarm commands
  Challenges,  \* challenge requests the server answers
  Images,      \* images the sources may return, named by their content
  PoolSize, Rotation, RefreshLead, Retention,
  MaxTime      \* bound on the clock, for TLC only

ASSUME SliderAssumption ==
  /\ PoolSize \in Nat \ {0} /\ Rotation \in Nat \ {0}
  /\ RefreshLead \in 0..Rotation /\ Retention \in Nat /\ MaxTime \in Nat
  /\ Commands \cap Challenges = {}

Readers == Commands \cup Challenges

VARIABLES
  now,
  file,       \* pool.json
  disk,       \* the image files: their content and modification time
  proc,       \* what each reader is doing
  alone,      \* the commands no other reader has run beside
  crossed,    \* whether pool.json was ever written through two open files
  cut         \* whether a write of pool.json ever failed or its writer died

vars == <<now, file, disk, proc, alone, crossed, cut>>

Pools == [expires : 0..(MaxTime + Rotation), items : (SUBSET Images) \ {{}}]
NoPool == [expires |-> 0, items |-> {}]
Missing == [expires |-> -1, items |-> {}]   \* no such file
Torn == [expires |-> -2, items |-> {}]      \* text that is not a pool

Steps == {"idle", "read", "check", "fetch", "image", "open", "write", "prune"}
Rounds == {"challenge", "first", "locked", "fresh"}

TypeOK ==
  /\ now \in 0..MaxTime
  /\ file \in Pools \cup {Missing, Torn}
  /\ disk \in [Images -> [content : {"none", "partial", "whole"}, mtime : 0..MaxTime]]
  /\ proc \in [Readers -> [step : Steps, round : Rounds, force : BOOLEAN,
                           pool : Pools \cup {NoPool}, current : Pools \cup {NoPool},
                           items : SUBSET Images, image : SUBSET Images,
                           over : BOOLEAN, failed : BOOLEAN]]
  /\ alone \subseteq Commands
  /\ crossed \in BOOLEAN /\ cut \in BOOLEAN

\* A command that refreshes keeps the current pool to fall back on; failed
\* says that a write of its own failed and it went on.
Idle == [step |-> "idle", round |-> "challenge", force |-> FALSE, pool |-> NoPool,
         current |-> NoPool, items |-> {}, image |-> {}, over |-> FALSE, failed |-> FALSE]

Init ==
  /\ now = 0
  /\ file = Missing
  /\ disk = [i \in Images |-> [content |-> "none", mtime |-> 0]]
  /\ proc = [w \in Readers |-> Idle]
  /\ alone = {} /\ crossed = FALSE /\ cut = FALSE

Running == {w \in Readers : proc[w].step # "idle"}

Exists(i) == disk[i].content # "none"

\* slider_image_cache_ready: the file hashes to its name.
Ready(i) == disk[i].content = "whole"

\* slider_image_pool_refresh_due
Due(pool) == pool.expires <= now + RefreshLead

\* What a reader does with the pool it has read (none when NoPool).
Decided(p, pool) ==
  IF p.round = "challenge" \/ p.round = "fresh" \/ (pool # NoPool /\ ~Due(pool)
                                   /\ (p.round = "locked" \/ ~p.force))
    THEN IF p.round = "challenge" THEN Idle
         ELSE [Idle EXCEPT !.step = "prune", !.pool = pool, !.failed = p.failed]
  ELSE IF p.round = "first"
    THEN [Idle EXCEPT !.step = "read", !.round = "locked"]
    ELSE [Idle EXCEPT !.step = "fetch", !.pool = pool]

-----------------------------------------------------------------------------

Start(w, p) ==
  /\ proc[w].step = "idle"
  /\ proc' = [proc EXCEPT ![w] = p]
  /\ alone' = IF Running = {} THEN {w} \cap Commands ELSE {}
  /\ UNCHANGED <<now, file, disk, crossed, cut>>

\* prewarm_slider_images, and resolve_slider_image for a challenge.
Prewarm(w, force) ==
  Start(w, [Idle EXCEPT !.step = "read", !.round = "first", !.force = force])
Challenge(w) == Start(w, [Idle EXCEPT !.step = "read"])

\* read_slider_image_pool: a file that does not parse fails the caller.
ReadFile(w) ==
  /\ proc[w].step = "read"
  /\ proc' = [proc EXCEPT ![w] =
       IF file = Torn THEN Idle
       ELSE IF file = Missing
         THEN IF @.round = "challenge" THEN Idle ELSE Decided(@, NoPool)
         ELSE [@ EXCEPT !.step = "check", !.pool = file]]
  /\ UNCHANGED <<now, file, disk, alone, crossed, cut>>

\* normalize_slider_image_pool drops the items whose image is not ready; a
\* pool that lost some is written back before it is used.
CheckImages(w) ==
  /\ proc[w].step = "check"
  /\ LET p == proc[w]
         kept == {i \in p.pool.items : Ready(i)}
         next == IF kept = {} THEN Decided(p, NoPool)
                 ELSE IF kept = p.pool.items THEN Decided(p, p.pool)
                 ELSE [p EXCEPT !.step = "open", !.pool.items = kept]
     IN  proc' = [proc EXCEPT ![w] = next]
  /\ UNCHANGED <<now, file, disk, alone, crossed, cut>>

\* One result of create_slider_image_pool_item: an image that is cached keeps
\* its file and its modification time, any other is written.
FetchImage(w, i) ==
  /\ proc[w].step = "fetch"
  /\ Cardinality(proc[w].items) < PoolSize /\ i \notin proc[w].items
  /\ IF Ready(i)
     THEN proc' = [proc EXCEPT ![w].items = @ \cup {i}] /\ UNCHANGED disk
     ELSE /\ disk' = [disk EXCEPT ![i] = [content |-> "partial", mtime |-> now]]
          /\ proc' = [proc EXCEPT ![w].step = "image", ![w].image = {i}]
  /\ UNCHANGED <<now, file, alone, crossed, cut>>

WriteImage(w) ==
  /\ proc[w].step = "image"
  /\ disk' = [i \in Images |-> IF i \in proc[w].image
                               THEN [content |-> "whole", mtime |-> now] ELSE disk[i]]
  /\ proc' = [proc EXCEPT ![w].step = "fetch", ![w].items = @ \cup proc[w].image,
                          ![w].image = {}]
  /\ UNCHANGED <<now, file, alone, crossed, cut>>

\* Writing the image fails, which costs this result only: the truncated file
\* stays. Two results of one batch may be the same image, which both write; the
\* other one may have been counted.
GivenUp(p, counted) ==
  [p EXCEPT !.step = "fetch", !.image = {},
            !.items = p.items \cup counted, !.failed = p.failed \/ counted # {}]

ImageFails(w) ==
  /\ proc[w].step = "image"
  /\ \E counted \in SUBSET proc[w].image :
       proc' = [proc EXCEPT ![w] = GivenUp(proc[w], counted)]
  /\ UNCHANGED <<now, file, disk, alone, crossed, cut>>

\* finalize_slider_image_pool: only a full pool is written.
NewPool(w) ==
  /\ proc[w].step = "fetch" /\ Cardinality(proc[w].items) = PoolSize
  /\ proc' = [proc EXCEPT ![w] = [Idle EXCEPT !.step = "open", !.round = "fresh",
                !.pool = [expires |-> now + Rotation, items |-> proc[w].items],
                !.current = proc[w].pool, !.failed = proc[w].failed]]
  /\ UNCHANGED <<now, file, disk, alone, crossed, cut>>

\* The sources gave too few images: refresh_slider_image_pool_or_current_pool
\* goes on with the pool it had; without one the command fails.
FetchFails(w) ==
  /\ proc[w].step = "fetch"
  /\ proc' = [proc EXCEPT ![w] =
       IF @.pool = NoPool THEN Idle ELSE [Idle EXCEPT !.step = "prune", !.pool = proc[w].pool]]
  /\ UNCHANGED <<now, file, disk, alone, crossed, cut>>

\* write_slider_image_pool is fs::write: the file is truncated when opened ...
OpenFile(w) ==
  /\ proc[w].step = "open"
  /\ file' = Torn
  /\ proc' = [proc EXCEPT ![w].step = "write"]
  /\ UNCHANGED <<now, disk, alone, crossed, cut>>

PatchedOver(p) == {p.pool, Torn}

\* ... and written from its start: over the longer text another process wrote
\* meanwhile, the tail of that text remains.
Written(p) == {p.pool} \cup (IF p.over THEN {Torn} ELSE {})

\* A writer lets go of pool.json and becomes p; whoever has the file open too
\* will write over what it wrote.
CloseFile(w, p) ==
  /\ crossed' = (crossed \/ proc[w].over)
  /\ proc' = [v \in Readers |->
       IF v = w THEN p ELSE [proc[v] EXCEPT !.over = @ \/ proc[v].step = "write"]]

WriteFile(w) ==
  /\ proc[w].step = "write"
  /\ file' \in Written(proc[w])
  /\ CloseFile(w, Decided([proc[w] EXCEPT !.over = FALSE], proc[w].pool))
  /\ UNCHANGED <<now, disk, alone, cut>>

\* The write fails after none or some of the text (the disk is full). A refresh
\* swallows the error when it has a current pool: the command prunes beside
\* that one and reports success. Any other caller fails.
WriteFails(w) ==
  LET p == proc[w] IN
  /\ p.step = "write"
  /\ file' \in {file, Torn}
  /\ CloseFile(w, IF p.current = NoPool THEN Idle
                  ELSE [Idle EXCEPT !.step = "prune", !.pool = p.current, !.failed = TRUE])
  /\ cut' = TRUE
  /\ UNCHANGED <<now, disk, alone>>

\* prune_slider_image_cache: the files of images outside the pool the command
\* has in hand, older than the retention. Then the command reports success.
Stale(w) ==
  {i \in Images : /\ disk[i].content # "none" /\ i \notin proc[w].pool.items
                  /\ disk[i].mtime < now - Retention}

Removed(gone) ==
  [i \in Images |-> IF i \in gone THEN [content |-> "none", mtime |-> 0] ELSE disk[i]]

Prune(w) ==
  /\ proc[w].step = "prune"
  /\ disk' = Removed(Stale(w))
  /\ proc' = [proc EXCEPT ![w] = Idle]
  /\ UNCHANGED <<now, file, alone, crossed, cut>>

\* A file that cannot be removed fails the command; the rest of them stay.
PruneFails(w) ==
  /\ proc[w].step = "prune"
  /\ \E gone \in SUBSET Stale(w) : gone # Stale(w) /\ disk' = Removed(gone)
  /\ proc' = [proc EXCEPT ![w] = Idle]
  /\ UNCHANGED <<now, file, alone, crossed, cut>>

\* The process dies between two of its steps.
Crash(w) ==
  /\ proc[w].step # "idle"
  /\ proc' = [proc EXCEPT ![w] = Idle]
  /\ cut' = (cut \/ proc[w].step = "write")
  /\ alone' = {}
  /\ UNCHANGED <<now, file, disk, crossed>>

Tick ==
  /\ now < MaxTime
  /\ now' = now + 1
  /\ UNCHANGED <<file, disk, proc, alone, crossed, cut>>

Next ==
  \/ \E w \in Commands :
       \/ \E force \in BOOLEAN : Prewarm(w, force)
       \/ \E i \in Images : FetchImage(w, i)
       \/ WriteImage(w)
       \/ ImageFails(w)
       \/ NewPool(w)
       \/ FetchFails(w)
       \/ Prune(w)
       \/ PruneFails(w)
  \/ \E w \in Challenges : Challenge(w)
  \/ \E w \in Readers :
       \/ ReadFile(w)
       \/ CheckImages(w)
       \/ OpenFile(w)
       \/ WriteFile(w)
       \/ WriteFails(w)
       \/ Crash(w)
  \/ Tick

Spec == Init /\ [][Next]_vars

-----------------------------------------------------------------------------
(* Properties *)

\* pool.json is unreadable only while somebody writes it, or after a write that
\* failed or whose writer died, or two at once. (Nothing repairs it then:
\* every command reads the file first and fails.)
UnreadableHasCause ==
  file = Torn =>
    crossed \/ cut \/ \E w \in Readers : proc[w].step = "write"

\* A command that succeeds and ran beside nobody leaves a pool whose images
\* are all on disk, whatever races, failures and crashes came before it, unless
\* a write of its own failed. (Then it may report success over a torn file.)
PrewarmRepairs ==
  [][\A w \in Commands :
       Prune(w) /\ alone = {w} /\ ~proc[w].failed =>
         /\ file \in Pools
         /\ \A i \in file.items : disk'[i].content = "whole"]_vars
=============================================================================
