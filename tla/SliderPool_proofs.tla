------------------------- MODULE SliderPool_proofs -------------------------
(***************************************************************************)
(* Proofs about SliderPool. What a reader holds at each step of its way is  *)
(* the strengthening: a pool that is checked, or about to be written, is a  *)
(* pool with at least one image, so that only an opened file and a second   *)
(* writer leave text nobody can read; and a command that runs beside nobody *)
(* decides on the pool of the file and counts only images that are whole.   *)
(***************************************************************************)
EXTENDS SliderPool, FiniteSetTheorems, TLAPS

Carrying == {"check", "open", "write"}

PoolInHand == \A w \in Readers : proc[w].step \in Carrying => proc[w].pool \in Pools

PoolInv == TypeOK /\ PoolInHand /\ UnreadableHasCause

Records == [step : Steps, round : Rounds, force : BOOLEAN,
            pool : Pools \cup {NoPool}, current : Pools \cup {NoPool},
            items : SUBSET Images, image : SUBSET Images,
            over : BOOLEAN, failed : BOOLEAN]

(* The constants are what the module assumes of them.                       *)
LEMMA Bounds ==
  /\ PoolSize \in Nat /\ PoolSize > 0 /\ Rotation \in Nat /\ MaxTime \in Nat
BY SliderAssumption

LEMMA IdleRecord == Idle \in Records /\ Idle.step = "idle" /\ NoPool.expires = 0
BY DEF Idle, Records, Steps, Rounds, NoPool

(* Whatever a reader decides about the pool it read, it does not go on to   *)
(* write it, and it stays a reader's record.                                *)
LEMMA DecidedRecord ==
  ASSUME NEW p \in Records, NEW pool \in Pools \cup {NoPool}
  PROVE  Decided(p, pool) \in Records /\ Decided(p, pool).step \notin Carrying
BY DEF Decided, Records, Idle, Steps, Rounds, Carrying, NoPool

(* Torn and Missing are not pools.                                          *)
LEMMA TornIsNoPool == Torn \notin Pools /\ Missing \notin Pools /\ Missing # Torn
BY DEF Torn, Missing, Pools

(* Init.                                                                    *)
LEMMA PoolInit == Init => PoolInv
<1> SUFFICES ASSUME Init PROVE PoolInv
  OBVIOUS
<1>1. \A w \in Readers : proc[w] = Idle
  BY DEF Init
<1>2. TypeOK
  <2>1. 0 \in 0..MaxTime
    BY Bounds
  <2>2. proc \in [Readers -> Records]
    BY IdleRecord DEF Init
  <2>3. disk \in [Images -> [content : {"none", "partial", "whole"}, mtime : 0..MaxTime]]
    BY <2>1 DEF Init
  <2> QED
    BY <2>1, <2>2, <2>3 DEF Init, TypeOK, Records
<1>3. PoolInHand
  BY <1>1, IdleRecord DEF PoolInHand, Carrying
<1>4. UnreadableHasCause
  BY TornIsNoPool DEF Init, UnreadableHasCause
<1> QED
  BY <1>2, <1>3, <1>4 DEF PoolInv

(* A step that changes the record of one reader, to one that carries a pool *)
(* only if it is one, and neither the file nor the flags, keeps the         *)
(* invariant, provided the reader did not have the file open.               *)
LEMMA ReaderStep ==
  ASSUME PoolInv, NEW w \in Readers, NEW p \in Records,
         p.step \in Carrying => p.pool \in Pools,
         proc' = [proc EXCEPT ![w] = p],
         now' \in 0..MaxTime,
         disk' \in [Images -> [content : {"none", "partial", "whole"}, mtime : 0..MaxTime]],
         alone' \subseteq Commands,
         UNCHANGED <<file, crossed, cut>>,
         proc[w].step # "write"
  PROVE  PoolInv'
<1>1. proc \in [Readers -> Records]
  BY DEF PoolInv, TypeOK, Records
<1>2. proc' \in [Readers -> Records]
  BY <1>1
<1>3. \A v \in Readers : proc'[v] = IF v = w THEN p ELSE proc[v]
  BY <1>1
<1>4. TypeOK'
  BY <1>2 DEF PoolInv, TypeOK, Records
<1>5. PoolInHand'
  BY <1>3 DEF PoolInv, PoolInHand
<1>6. UnreadableHasCause'
  BY <1>3 DEF PoolInv, UnreadableHasCause
<1> QED
  BY <1>4, <1>5, <1>6 DEF PoolInv

LEMMA PoolStep == PoolInv /\ [Next]_vars => PoolInv'
<1> SUFFICES ASSUME PoolInv, [Next]_vars PROVE PoolInv'
  OBVIOUS
<1>0. /\ proc \in [Readers -> Records] /\ now \in 0..MaxTime
      /\ disk \in [Images -> [content : {"none", "partial", "whole"}, mtime : 0..MaxTime]]
      /\ alone \subseteq Commands /\ crossed \in BOOLEAN /\ cut \in BOOLEAN
      /\ file \in Pools \cup {Missing, Torn}
      /\ Commands \subseteq Readers /\ Challenges \subseteq Readers
  BY DEF PoolInv, TypeOK, Records, Readers
<1>a. \A w \in Commands : {w} \cap Commands \subseteq Commands
  OBVIOUS
<1>1. ASSUME NEW w \in Commands, NEW force \in BOOLEAN, Prewarm(w, force)
      PROVE  PoolInv'
  <2> DEFINE p == [Idle EXCEPT !.step = "read", !.round = "first", !.force = force]
  <2>1. p \in Records /\ p.step = "read"
    BY IdleRecord DEF Idle, Records, Steps, Rounds
  <2>2. /\ proc[w].step = "idle" /\ proc' = [proc EXCEPT ![w] = p]
        /\ alone' \subseteq Commands
        /\ UNCHANGED <<now, file, disk, crossed, cut>>
    BY <1>1 DEF Prewarm, Start
  <2> QED
    BY <1>0, <2>1, <2>2, ReaderStep DEF Carrying
<1>2. ASSUME NEW w \in Challenges, Challenge(w)
      PROVE  PoolInv'
  <2> DEFINE p == [Idle EXCEPT !.step = "read"]
  <2>1. p \in Records /\ p.step = "read"
    BY IdleRecord DEF Idle, Records, Steps, Rounds
  <2>2. /\ proc[w].step = "idle" /\ proc' = [proc EXCEPT ![w] = p]
        /\ alone' \subseteq Commands
        /\ UNCHANGED <<now, file, disk, crossed, cut>>
    BY <1>2 DEF Challenge, Start
  <2> QED
    BY <1>0, <2>1, <2>2, ReaderStep DEF Carrying
<1>3. ASSUME NEW w \in Commands, NEW i \in Images, FetchImage(w, i)
      PROVE  PoolInv'
  <2>1. proc[w] \in Records /\ proc[w].step = "fetch"
    BY <1>0, <1>3 DEF FetchImage
  <2>2. CASE Ready(i)
    <3> DEFINE p == [proc[w] EXCEPT !.items = @ \cup {i}]
    <3>1. p \in Records /\ p.step = "fetch"
      BY <2>1 DEF Records
    <3>2. proc' = [proc EXCEPT ![w] = p] /\ UNCHANGED <<now, file, disk, alone, crossed, cut>>
      BY <1>0, <1>3, <2>2 DEF FetchImage
    <3> QED
      BY <1>0, <2>1, <3>1, <3>2, ReaderStep DEF Carrying
  <2>3. CASE ~Ready(i)
    <3> DEFINE p == [proc[w] EXCEPT !.step = "image", !.image = {i}]
    <3>1. p \in Records /\ p.step = "image"
      BY <2>1 DEF Records, Steps
    <3>2. /\ proc' = [proc EXCEPT ![w] = p] /\ UNCHANGED <<now, file, alone, crossed, cut>>
          /\ disk' = [disk EXCEPT ![i] = [content |-> "partial", mtime |-> now]]
      BY <1>0, <1>3, <2>3 DEF FetchImage
    <3>3. disk' \in [Images -> [content : {"none", "partial", "whole"}, mtime : 0..MaxTime]]
      BY <1>0, <3>2
    <3> QED
      BY <1>0, <2>1, <3>1, <3>2, <3>3, ReaderStep DEF Carrying
  <2> QED
    BY <2>2, <2>3
<1>4. ASSUME NEW w \in Commands, WriteImage(w)
      PROVE  PoolInv'
  <2>1. proc[w] \in Records /\ proc[w].step = "image"
    BY <1>0, <1>4 DEF WriteImage
  <2> DEFINE p == [proc[w] EXCEPT !.step = "fetch", !.items = @ \cup proc[w].image, !.image = {}]
  <2>2. p \in Records /\ p.step = "fetch"
    BY <2>1 DEF Records, Steps
  <2>3. proc' = [proc EXCEPT ![w] = p] /\ UNCHANGED <<now, file, alone, crossed, cut>>
    BY <1>0, <1>4 DEF WriteImage
  <2>4. disk' \in [Images -> [content : {"none", "partial", "whole"}, mtime : 0..MaxTime]]
    BY <1>0, <1>4 DEF WriteImage
  <2> QED
    BY <1>0, <2>1, <2>2, <2>3, <2>4, ReaderStep DEF Carrying
<1>5. ASSUME NEW w \in Commands, NewPool(w)
      PROVE  PoolInv'
  <2>1. proc[w] \in Records /\ proc[w].step = "fetch" /\ Cardinality(proc[w].items) = PoolSize
    BY <1>0, <1>5 DEF NewPool
  <2> DEFINE pool == [expires |-> now + Rotation, items |-> proc[w].items]
             p == [Idle EXCEPT !.step = "open", !.round = "fresh", !.pool = pool,
                               !.current = proc[w].pool, !.failed = proc[w].failed]
  <2>2. proc[w].items # {} /\ proc[w].items \in SUBSET Images
    BY <2>1, Bounds, FS_EmptySet DEF Records
  <2>3. now + Rotation \in 0..(MaxTime + Rotation)
    BY <1>0, Bounds
  <2>4. pool \in Pools
    BY <2>2, <2>3 DEF Pools
  <2>5. p \in Records /\ p.pool = pool
    BY <2>1, <2>4, IdleRecord DEF Idle, Records, Steps, Rounds
  <2>6. proc' = [proc EXCEPT ![w] = p] /\ UNCHANGED <<now, file, disk, alone, crossed, cut>>
    BY <1>5 DEF NewPool
  <2> QED
    BY <1>0, <2>1, <2>4, <2>5, <2>6, ReaderStep
<1>6. ASSUME NEW w \in Commands, FetchFails(w)
      PROVE  PoolInv'
  <2>1. proc[w] \in Records /\ proc[w].step = "fetch"
    BY <1>0, <1>6 DEF FetchFails
  <2> DEFINE q == [Idle EXCEPT !.step = "prune", !.pool = proc[w].pool]
             p == IF proc[w].pool = NoPool THEN Idle ELSE q
  <2>2. q \in Records /\ q.step = "prune"
    BY <2>1, IdleRecord DEF Idle, Records, Steps, Rounds
  <2>3. p \in Records /\ p.step \notin Carrying
    BY <2>2, IdleRecord DEF Carrying
  <2>4. proc' = [proc EXCEPT ![w] = p] /\ UNCHANGED <<now, file, disk, alone, crossed, cut>>
    BY <1>0, <1>6 DEF FetchFails
  <2> QED
    BY <1>0, <2>1, <2>3, <2>4, ReaderStep
<1>7. ASSUME NEW w \in Commands, Prune(w) \/ PruneFails(w)
      PROVE  PoolInv'
  <2>1. proc' = [proc EXCEPT ![w] = Idle] /\ UNCHANGED <<now, file, alone, crossed, cut>>
        /\ proc[w].step = "prune"
    BY <1>7 DEF Prune, PruneFails
  <2>2. disk' \in [Images -> [content : {"none", "partial", "whole"}, mtime : 0..MaxTime]]
    <3>1. 0 \in 0..MaxTime
      BY Bounds
    <3>2. \E gone : disk' = Removed(gone)
      BY <1>7 DEF Prune, PruneFails
    <3> QED
      BY <1>0, <3>1, <3>2 DEF Removed
  <2> QED
    BY <1>0, <2>1, <2>2, IdleRecord, ReaderStep DEF Carrying
<1>8. ASSUME NEW w \in Readers, ReadFile(w)
      PROVE  PoolInv'
  <2>1. proc[w] \in Records /\ proc[w].step = "read"
    BY <1>0, <1>8 DEF ReadFile
  <2>2. Decided(proc[w], NoPool) \in Records /\ Decided(proc[w], NoPool).step \notin Carrying
    BY <2>1, DecidedRecord
  <2> DEFINE q == [proc[w] EXCEPT !.step = "check", !.pool = file]
             p == IF file = Torn THEN Idle
                  ELSE IF file = Missing
                    THEN IF proc[w].round = "challenge" THEN Idle ELSE Decided(proc[w], NoPool)
                    ELSE q
  <2>3. file # Torn /\ file # Missing => q \in Records /\ q.pool \in Pools
    BY <1>0, <2>1 DEF Records, Steps
  <2>4. p \in Records /\ (p.step \in Carrying => p.pool \in Pools)
    BY <2>2, <2>3, IdleRecord DEF Carrying
  <2>5. proc' = [proc EXCEPT ![w] = p] /\ UNCHANGED <<now, file, disk, alone, crossed, cut>>
    BY <1>0, <1>8 DEF ReadFile
  <2> QED
    BY <1>0, <2>1, <2>4, <2>5, ReaderStep
<1>9. ASSUME NEW w \in Readers, CheckImages(w)
      PROVE  PoolInv'
  <2>1. proc[w] \in Records /\ proc[w].step = "check" /\ proc[w].pool \in Pools
    BY <1>0, <1>9 DEF CheckImages, PoolInv, PoolInHand, Carrying
  <2> DEFINE kept == {i \in proc[w].pool.items : Ready(i)}
             q == [proc[w] EXCEPT !.step = "open", !.pool.items = kept]
             p == IF kept = {} THEN Decided(proc[w], NoPool)
                  ELSE IF kept = proc[w].pool.items THEN Decided(proc[w], proc[w].pool)
                  ELSE q
  <2>2. /\ Decided(proc[w], NoPool) \in Records /\ Decided(proc[w], NoPool).step \notin Carrying
        /\ Decided(proc[w], proc[w].pool) \in Records
        /\ Decided(proc[w], proc[w].pool).step \notin Carrying
    BY <2>1, DecidedRecord
  <2>3. kept # {} => [proc[w].pool EXCEPT !.items = kept] \in Pools
    BY <2>1 DEF Pools
  <2>4. q = [proc[w] EXCEPT !.step = "open", !.pool = [proc[w].pool EXCEPT !.items = kept]]
    BY <2>1 DEF Records
  <2>5. kept # {} => q \in Records /\ q.pool \in Pools
    BY <2>1, <2>3, <2>4 DEF Records, Steps
  <2>6. p \in Records /\ (p.step \in Carrying => p.pool \in Pools)
    BY <2>2, <2>5
  <2>7. proc' = [proc EXCEPT ![w] = p] /\ UNCHANGED <<now, file, disk, alone, crossed, cut>>
    BY <1>9 DEF CheckImages
  <2> QED
    BY <1>0, <2>1, <2>6, <2>7, ReaderStep
<1>10. ASSUME NEW w \in Readers, OpenFile(w)
       PROVE  PoolInv'
  <2>1. proc[w] \in Records /\ proc[w].step = "open" /\ proc[w].pool \in Pools
    BY <1>0, <1>10 DEF OpenFile, PoolInv, PoolInHand, Carrying
  <2>2. /\ proc' = [proc EXCEPT ![w].step = "write"] /\ file' = Torn
        /\ UNCHANGED <<now, disk, alone, crossed, cut>>
    BY <1>10 DEF OpenFile
  <2>3. /\ proc' \in [Readers -> Records] /\ proc'[w].step = "write"
        /\ \A v \in Readers : v # w => proc'[v] = proc[v]
        /\ proc'[w].pool = proc[w].pool
    BY <1>0, <2>1, <2>2 DEF Records, Steps
  <2>4. TypeOK'
    BY <1>0, <2>2, <2>3 DEF TypeOK, Records
  <2>5. PoolInHand'
    BY <2>1, <2>3 DEF PoolInv, PoolInHand
  <2>6. UnreadableHasCause'
    BY <2>3 DEF UnreadableHasCause
  <2> QED
    BY <2>4, <2>5, <2>6 DEF PoolInv
<1>close. ASSUME NEW w \in Readers, NEW p \in Records, p.step \notin Carrying,
                 proc[w].step = "write", CloseFile(w, p), UNCHANGED <<now, disk, alone>>,
                 file' \in Pools \cup {Missing, Torn}, cut' \in BOOLEAN,
                 UnreadableHasCause'
          PROVE  PoolInv'
  <2>1. /\ crossed' = (crossed \/ proc[w].over)
        /\ proc' = [v \in Readers |->
             IF v = w THEN p
             ELSE [proc[v] EXCEPT !.over = proc[v].over \/ proc[v].step = "write"]]
    BY <1>0, <1>close DEF CloseFile
  <2>2. \A v \in Readers : v # w =>
           proc'[v] \in Records /\ proc'[v].step = proc[v].step /\ proc'[v].pool = proc[v].pool
    BY <1>0, <2>1 DEF Records
  <2>3. proc'[w] = p /\ proc' \in [Readers -> Records]
    BY <1>close, <2>1, <2>2
  <2>4. crossed' \in BOOLEAN
    BY <1>0, <2>1 DEF Records
  <2>5. TypeOK'
    BY <1>0, <1>close, <2>3, <2>4 DEF TypeOK, Records
  <2>6. PoolInHand'
    BY <1>close, <2>2, <2>3 DEF PoolInv, PoolInHand
  <2> QED
    BY <1>close, <2>5, <2>6 DEF PoolInv
<1>11. ASSUME NEW w \in Readers, WriteFile(w)
       PROVE  PoolInv'
  <2>1. proc[w] \in Records /\ proc[w].step = "write" /\ proc[w].pool \in Pools
    BY <1>0, <1>11 DEF WriteFile, PoolInv, PoolInHand, Carrying
  <2> DEFINE closed == [proc[w] EXCEPT !.over = FALSE]
             p == Decided(closed, proc[w].pool)
  <2>2. closed \in Records
    BY <2>1 DEF Records
  <2>3. p \in Records /\ p.step \notin Carrying
    BY <2>1, <2>2, DecidedRecord
  <2>4. /\ file' \in {proc[w].pool} \cup (IF proc[w].over THEN {Torn} ELSE {})
        /\ CloseFile(w, p) /\ UNCHANGED <<now, disk, alone, cut>>
    BY <1>11 DEF WriteFile, Written
  <2>5. UnreadableHasCause'
    BY <2>1, <2>4, TornIsNoPool DEF UnreadableHasCause, CloseFile
  <2>6. file' \in Pools \cup {Missing, Torn} /\ cut' \in BOOLEAN
    BY <1>0, <2>1, <2>4
  <2> HIDE DEF p
  <2> QED
    BY <2>1, <2>3, <2>4, <2>5, <2>6, <1>close
<1>15. ASSUME NEW w \in Readers, WriteFails(w)
       PROVE  PoolInv'
  <2>1. proc[w] \in Records /\ proc[w].step = "write"
    BY <1>0, <1>15 DEF WriteFails
  <2> DEFINE on == [Idle EXCEPT !.step = "prune", !.pool = proc[w].current, !.failed = TRUE]
             p == IF proc[w].current = NoPool THEN Idle ELSE on
  <2>2. on \in Records /\ on.step = "prune"
    BY <2>1, IdleRecord DEF Idle, Records, Steps, Rounds
  <2>3. p \in Records /\ p.step \notin Carrying
    BY <2>2, IdleRecord DEF Carrying
  <2>4. CloseFile(w, p) /\ cut' = TRUE /\ UNCHANGED <<now, disk, alone>>
        /\ file' \in Pools \cup {Missing, Torn}
    BY <1>0, <1>15 DEF WriteFails
  <2>5. UnreadableHasCause'
    BY <2>4 DEF UnreadableHasCause
  <2> HIDE DEF p
  <2> QED
    BY <2>1, <2>3, <2>4, <2>5, <1>close
<1>16. ASSUME NEW w \in Commands, ImageFails(w)
       PROVE  PoolInv'
  <2>1. proc[w] \in Records /\ proc[w].step = "image"
    BY <1>0, <1>16 DEF ImageFails
  <2>2. PICK counted \in SUBSET proc[w].image :
          proc' = [proc EXCEPT ![w] = GivenUp(proc[w], counted)]
    BY <1>16 DEF ImageFails
  <2> DEFINE p == GivenUp(proc[w], counted)
  <2>3. p \in Records /\ p.step = "fetch"
    BY <2>1 DEF Records, Steps, GivenUp
  <2>4. UNCHANGED <<now, file, disk, alone, crossed, cut>>
    BY <1>16 DEF ImageFails
  <2> QED
    BY <1>0, <2>1, <2>2, <2>3, <2>4, ReaderStep DEF Carrying
<1>12. ASSUME NEW w \in Readers, Crash(w)
       PROVE  PoolInv'
  <2>1. /\ proc' = [proc EXCEPT ![w] = Idle]
        /\ cut' = (cut \/ proc[w].step = "write")
        /\ alone' = {} /\ UNCHANGED <<now, file, disk, crossed>>
    BY <1>12 DEF Crash
  <2>2. \A v \in Readers : proc'[v] = IF v = w THEN Idle ELSE proc[v]
    BY <1>0, <2>1
  <2>3. TypeOK'
    <3>1. proc' \in [Readers -> Records]
      BY <1>0, <2>1, IdleRecord
    <3>2. cut' \in BOOLEAN
      BY <1>0, <2>1
    <3> QED
      BY <1>0, <2>1, <3>1, <3>2 DEF TypeOK, Records
  <2>4. PoolInHand'
    BY <2>2, IdleRecord DEF PoolInv, PoolInHand, Carrying
  <2>5. UnreadableHasCause'
    BY <2>1, <2>2 DEF PoolInv, UnreadableHasCause
  <2> QED
    BY <2>3, <2>4, <2>5 DEF PoolInv
<1>13. CASE Tick
  <2>1. now' \in 0..MaxTime /\ UNCHANGED <<file, disk, proc, alone, crossed, cut>>
    BY <1>0, <1>13, Bounds DEF Tick
  <2>2. TypeOK'
    BY <1>0, <2>1 DEF PoolInv, TypeOK
  <2> QED
    BY <2>1, <2>2 DEF PoolInv, PoolInHand, UnreadableHasCause
<1>14. CASE UNCHANGED vars
  BY <1>14 DEF vars, PoolInv, TypeOK, PoolInHand, UnreadableHasCause
<1> QED
  BY <1>1, <1>2, <1>3, <1>4, <1>5, <1>6, <1>7, <1>8, <1>9, <1>10, <1>11,
     <1>12, <1>13, <1>14, <1>15, <1>16 DEF Next

(* Whatever commands and challenges run at once, and wherever they fail or  *)
(* die, the state has its type and pool.json is unreadable only while it is *)
(* being written, after a write that failed or whose writer died, or after  *)
(* two wrote at once.                                                       *)
THEOREM UnreadablePoolHasCause == Spec => [](TypeOK /\ UnreadableHasCause)
<1>1. Init => PoolInv
  BY PoolInit
<1>2. PoolInv /\ [Next]_vars => PoolInv'
  BY PoolStep
<1>3. PoolInv => TypeOK /\ UnreadableHasCause
  BY DEF PoolInv
<1> QED
  BY <1>1, <1>2, <1>3, PTL DEF Spec

-----------------------------------------------------------------------------
(* A command beside nobody.                                                 *)
(* A command that runs alone meets its own work everywhere: the pool it     *)
(* decides on is the one in pool.json, whose images are whole, and, until a *)
(* write of its own fails, every image it has counted towards a new pool is *)
(* whole. A round that has written a fresh pool never reads or checks       *)
(* again, and nothing failed in the rounds before it.                       *)
AllReady(items, images) == \A i \in items : images[i].content = "whole"

OnItsOwn(p, text, images) ==
  /\ p.over = FALSE
  /\ p.step \in {"read", "check"} => p.round # "fresh"
  /\ p.failed => p.step \in {"fetch", "image", "prune"} \/ p.round = "fresh"
  /\ p.step = "check" => text = p.pool
  /\ p.step \in {"fetch", "image"} =>
       /\ ~p.failed => AllReady(p.items, images)
       /\ p.pool # NoPool => text = p.pool /\ AllReady(p.pool.items, images)
  /\ p.step \in {"open", "write"} /\ ~p.failed => AllReady(p.pool.items, images)
  /\ p.step = "prune" /\ ~p.failed =>
       p.pool \in Pools /\ text = p.pool /\ AllReady(p.pool.items, images)

Undisturbed ==
  \A w \in alone :
    /\ \A v \in Readers : v # w => proc[v].step = "idle"
    /\ OnItsOwn(proc[w], file, disk)

LEMMA NobodyYet == Init => Undisturbed
BY DEF Init, Undisturbed

(* What a reader decides keeps a lonely command on its own, when the pool   *)
(* it decides on is the file's and all its images are there. (Without one,  *)
(* it must not be past the writing of a fresh pool.)                        *)
LEMMA DecidedAlone ==
  ASSUME NEW p \in Records, NEW pool \in Pools \cup {NoPool}, NEW text, NEW images,
         pool = NoPool => p.round # "fresh",
         p.failed => p.round = "fresh",
         pool # NoPool /\ ~p.failed =>
           pool \in Pools /\ text = pool /\ AllReady(pool.items, images)
  PROVE  OnItsOwn(Decided(p, pool), text, images)
<1> DEFINE none == Idle
           next == [Idle EXCEPT !.step = "prune", !.pool = pool, !.failed = p.failed]
           again == [Idle EXCEPT !.step = "read", !.round = "locked"]
           more == [Idle EXCEPT !.step = "fetch", !.pool = pool]
<1>1. /\ none.step = "idle" /\ none.over = FALSE /\ none.failed = FALSE
      /\ next.step = "prune" /\ next.over = FALSE /\ next.pool = pool /\ next.failed = p.failed
      /\ again.step = "read" /\ again.over = FALSE /\ again.round = "locked"
      /\ again.failed = FALSE /\ more.failed = FALSE
      /\ more.step = "fetch" /\ more.over = FALSE /\ more.pool = pool /\ more.items = {}
  BY DEF Idle
<1>2. OnItsOwn(none, text, images)
  BY <1>1 DEF OnItsOwn
<1>3. pool # NoPool => OnItsOwn(next, text, images)
  BY <1>1 DEF OnItsOwn
<1>4. OnItsOwn(again, text, images)
  BY <1>1 DEF OnItsOwn
<1>5. AllReady({}, images)
  BY DEF AllReady
<1>6. ~p.failed => OnItsOwn(more, text, images)
  BY <1>1, <1>5 DEF OnItsOwn
<1>7. \/ Decided(p, pool) = none
      \/ Decided(p, pool) = next /\ pool # NoPool
      \/ Decided(p, pool) = again
      \/ Decided(p, pool) = more /\ ~p.failed
  BY DEF Decided
<1> HIDE DEF none, next, again, more
<1> QED
  BY <1>2, <1>3, <1>4, <1>6, <1>7

(* While a command runs alone only it can move; whatever it moves to has to *)
(* keep it on its own.                                                      *)
LEMMA OwnStep ==
  ASSUME Undisturbed, NEW w \in Readers, proc[w].step # "idle",
         NEW p, proc'[w] = p, \A v \in Readers : v # w => proc'[v].step = proc[v].step,
         alone' = alone, alone \subseteq Readers,
         w \in alone => OnItsOwn(p, file', disk')
  PROVE  Undisturbed'
<1>1. \A x \in alone : x = w
  BY DEF Undisturbed
<1>2. ASSUME NEW x \in alone'
      PROVE  /\ \A v \in Readers : v # x => proc'[v].step = "idle"
             /\ OnItsOwn(proc'[x], file', disk')
  <2>1. x = w /\ w \in alone
    BY <1>1, <1>2
  <2>2. \A v \in Readers : v # w => proc[v].step = "idle"
    BY <2>1 DEF Undisturbed
  <2>3. OnItsOwn(p, file', disk')
    BY <2>1
  <2>4. OnItsOwn(proc'[w], file', disk')
    BY <2>3 DEF OnItsOwn
  <2> QED
    BY <2>1, <2>2, <2>4
<1> QED
  BY <1>2 DEF Undisturbed

LEMMA UndisturbedStep == PoolInv /\ Undisturbed /\ [Next]_vars => Undisturbed'
<1> SUFFICES ASSUME PoolInv, Undisturbed, [Next]_vars PROVE Undisturbed'
  OBVIOUS
<1>0. /\ proc \in [Readers -> Records] /\ now \in 0..MaxTime
      /\ disk \in [Images -> [content : {"none", "partial", "whole"}, mtime : 0..MaxTime]]
      /\ alone \subseteq Commands /\ alone \subseteq Readers
      /\ file \in Pools \cup {Missing, Torn}
      /\ Commands \subseteq Readers /\ Challenges \subseteq Readers
  BY DEF PoolInv, TypeOK, Records, Readers
<1>own. \A w \in alone : OnItsOwn(proc[w], file, disk)
  BY DEF Undisturbed
<1>start. ASSUME NEW w \in Readers, NEW p \in Records, Start(w, p),
                 p.over = FALSE, p.failed = FALSE, p.step = "read", p.round # "fresh"
          PROVE  Undisturbed'
  <2>1. proc' = [proc EXCEPT ![w] = p] /\ alone' = IF Running = {} THEN {w} \cap Commands ELSE {}
    BY <1>start DEF Start
  <2>2. ASSUME NEW x \in alone'
        PROVE  /\ \A v \in Readers : v # x => proc'[v].step = "idle"
               /\ OnItsOwn(proc'[x], file', disk')
    <3>1. x = w /\ Running = {}
      BY <2>1
    <3>2. \A v \in Readers : proc[v].step = "idle"
      BY <3>1 DEF Running
    <3>3. proc'[w] = p /\ \A v \in Readers : v # w => proc'[v] = proc[v]
      BY <1>0, <2>1
    <3>4. OnItsOwn(p, file', disk')
      BY <1>start DEF OnItsOwn
    <3>5. OnItsOwn(proc'[w], file', disk')
      BY <3>3, <3>4 DEF OnItsOwn
    <3> QED
      BY <3>1, <3>2, <3>3, <3>5
  <2> QED
    BY <2>2 DEF Undisturbed
<1>1. ASSUME NEW w \in Commands, NEW force \in BOOLEAN, Prewarm(w, force)
      PROVE  Undisturbed'
  <2> DEFINE p == [Idle EXCEPT !.step = "read", !.round = "first", !.force = force]
  <2>1. p \in Records /\ p.step = "read" /\ p.round = "first" /\ p.over = FALSE /\ p.failed = FALSE
    BY IdleRecord DEF Idle, Records, Steps, Rounds
  <2> QED
    BY <1>0, <1>1, <2>1, <1>start DEF Prewarm
<1>2. ASSUME NEW w \in Challenges, Challenge(w)
      PROVE  Undisturbed'
  <2> DEFINE p == [Idle EXCEPT !.step = "read"]
  <2>1. p \in Records /\ p.step = "read" /\ p.round = "challenge" /\ p.over = FALSE /\ p.failed = FALSE
    BY IdleRecord DEF Idle, Records, Steps, Rounds
  <2> QED
    BY <1>0, <1>2, <2>1, <1>start DEF Challenge
<1>3. ASSUME NEW w \in Commands, NEW i \in Images, FetchImage(w, i)
      PROVE  Undisturbed'
  <2>1. proc[w] \in Records /\ proc[w].step = "fetch" /\ w \in Readers
    BY <1>0, <1>3 DEF FetchImage
  <2>2. w \in alone => /\ proc[w].over = FALSE
                       /\ ~proc[w].failed => AllReady(proc[w].items, disk)
                       /\ proc[w].pool # NoPool => file = proc[w].pool /\ AllReady(proc[w].pool.items, disk)
    BY <1>own, <2>1 DEF OnItsOwn
  <2>3. CASE Ready(i)
    <3> DEFINE p == [proc[w] EXCEPT !.items = @ \cup {i}]
    <3>1. /\ p.step = "fetch" /\ p.over = proc[w].over /\ p.pool = proc[w].pool
          /\ p.items = proc[w].items \cup {i} /\ p.failed = proc[w].failed
      BY <2>1 DEF Records
    <3>2. proc' = [proc EXCEPT ![w] = p] /\ UNCHANGED <<file, disk, alone>>
      BY <1>0, <1>3, <2>3 DEF FetchImage
    <3>3. proc'[w] = p /\ \A v \in Readers : v # w => proc'[v].step = proc[v].step
      BY <1>0, <2>1, <3>2
    <3>4. AllReady(proc[w].items, disk) => AllReady(proc[w].items \cup {i}, disk')
      BY <2>3, <3>2 DEF AllReady, Ready
    <3>5. AllReady(proc[w].pool.items, disk) => AllReady(proc[w].pool.items, disk')
      BY <2>1, <3>2, <3>3, <3>1 DEF AllReady, Ready
    <3>6. ASSUME w \in alone PROVE OnItsOwn(p, file', disk')
      <4>1. ~p.failed => AllReady(p.items, disk')
        BY <2>2, <3>1, <3>2, <3>6, <2>3 DEF AllReady, Ready
      <4>2. proc[w].pool # NoPool => AllReady(p.pool.items, disk')
        BY <2>2, <3>1, <3>2, <3>6 DEF AllReady, Ready
      <4> QED
        BY <2>2, <3>1, <3>2, <3>6, <4>1, <4>2 DEF OnItsOwn
    <3> HIDE DEF p
    <3> QED
      BY <1>0, <2>1, <3>2, <3>3, <3>6, OwnStep
  <2>4. CASE ~Ready(i)
    <3> DEFINE p == [proc[w] EXCEPT !.step = "image", !.image = {i}]
    <3>1. /\ p.step = "image" /\ p.over = proc[w].over /\ p.pool = proc[w].pool
          /\ p.items = proc[w].items /\ p.failed = proc[w].failed
      BY <2>1 DEF Records
    <3>2. /\ proc' = [proc EXCEPT ![w] = p] /\ UNCHANGED <<file, alone>>
          /\ disk' = [disk EXCEPT ![i] = [content |-> "partial", mtime |-> now]]
      BY <1>0, <1>3, <2>4 DEF FetchImage
    <3>3. proc'[w] = p /\ \A v \in Readers : v # w => proc'[v].step = proc[v].step
      BY <1>0, <2>1, <3>2
    <3>4. \A j \in Images : Ready(j) => Ready(j)'
      BY <1>0, <2>4, <3>2 DEF Ready
    <3>5. proc[w].items \subseteq Images /\ (proc[w].pool # NoPool => proc[w].pool.items \subseteq Images)
      BY <2>1 DEF Records, Pools
    <3>6. ASSUME w \in alone PROVE OnItsOwn(p, file', disk')
      <4>1. ~p.failed => AllReady(p.items, disk')
        BY <2>2, <3>1, <3>4, <3>5, <3>6 DEF AllReady, Ready
      <4>2. proc[w].pool # NoPool => AllReady(p.pool.items, disk')
        BY <2>2, <3>1, <3>4, <3>5, <3>6 DEF AllReady, Ready
      <4> QED
        BY <2>2, <3>1, <3>2, <3>6, <4>1, <4>2 DEF OnItsOwn
    <3> HIDE DEF p
    <3> QED
      BY <1>0, <2>1, <3>2, <3>3, <3>6, OwnStep
  <2> QED
    BY <2>3, <2>4
<1>4. ASSUME NEW w \in Commands, WriteImage(w)
      PROVE  Undisturbed'
  <2>1. proc[w] \in Records /\ proc[w].step = "image" /\ w \in Readers
    BY <1>0, <1>4 DEF WriteImage
  <2> DEFINE p == [proc[w] EXCEPT !.step = "fetch", !.items = @ \cup proc[w].image, !.image = {}]
  <2>2. /\ p.step = "fetch" /\ p.over = proc[w].over /\ p.pool = proc[w].pool
        /\ p.items = proc[w].items \cup proc[w].image /\ p.failed = proc[w].failed
    BY <2>1 DEF Records
  <2>3. /\ proc' = [proc EXCEPT ![w] = p] /\ UNCHANGED <<file, alone>>
        /\ disk' = [i \in Images |-> IF i \in proc[w].image
                               THEN [content |-> "whole", mtime |-> now] ELSE disk[i]]
    BY <1>0, <1>4 DEF WriteImage
  <2>4. proc'[w] = p /\ \A v \in Readers : v # w => proc'[v].step = proc[v].step
    BY <1>0, <2>1, <2>3
  <2>5. \A j \in Images : (Ready(j) \/ j \in proc[w].image) => Ready(j)'
    BY <1>0, <2>3 DEF Ready
  <2>6. /\ proc[w].items \subseteq Images /\ proc[w].image \subseteq Images
        /\ proc[w].pool # NoPool => proc[w].pool.items \subseteq Images
    BY <2>1 DEF Records, Pools
  <2>7. ASSUME w \in alone PROVE OnItsOwn(p, file', disk')
    <3>1. /\ proc[w].over = FALSE /\ (~proc[w].failed => AllReady(proc[w].items, disk))
          /\ proc[w].pool # NoPool => file = proc[w].pool /\ AllReady(proc[w].pool.items, disk)
      BY <1>own, <2>1, <2>7 DEF OnItsOwn
    <3>2. ~p.failed => AllReady(p.items, disk')
      BY <2>2, <2>5, <2>6, <3>1 DEF AllReady, Ready
    <3>3. proc[w].pool # NoPool => AllReady(p.pool.items, disk')
      BY <2>2, <2>5, <2>6, <3>1 DEF AllReady, Ready
    <3> QED
      BY <2>2, <2>3, <3>1, <3>2, <3>3 DEF OnItsOwn
  <2> HIDE DEF p
  <2> QED
    BY <1>0, <2>1, <2>3, <2>4, <2>7, OwnStep
<1>quiet. ASSUME NEW w \in Readers, NEW p \in Records, proc[w].step # "idle",
                 proc' = [proc EXCEPT ![w] = p], UNCHANGED <<file, disk, alone>>,
                 w \in alone => OnItsOwn(p, file, disk)
          PROVE  Undisturbed'
  <2>1. proc'[w] = p /\ \A v \in Readers : v # w => proc'[v].step = proc[v].step
    BY <1>0, <1>quiet
  <2>2. w \in alone => OnItsOwn(p, file', disk')
    BY <1>quiet DEF OnItsOwn, AllReady, Ready
  <2> QED
    BY <1>0, <1>quiet, <2>1, <2>2, OwnStep
<1>5. ASSUME NEW w \in Commands, NewPool(w)
      PROVE  Undisturbed'
  <2>1. proc[w] \in Records /\ proc[w].step = "fetch" /\ Cardinality(proc[w].items) = PoolSize
        /\ w \in Readers
    BY <1>0, <1>5 DEF NewPool
  <2> DEFINE pool == [expires |-> now + Rotation, items |-> proc[w].items]
             p == [Idle EXCEPT !.step = "open", !.round = "fresh", !.pool = pool,
                               !.current = proc[w].pool, !.failed = proc[w].failed]
  <2>2. proc[w].items # {} /\ proc[w].items \in SUBSET Images
    BY <2>1, Bounds, FS_EmptySet DEF Records
  <2>3. now + Rotation \in 0..(MaxTime + Rotation)
    BY <1>0, Bounds
  <2>4. pool \in Pools /\ pool.items = proc[w].items
    BY <2>2, <2>3 DEF Pools
  <2>5. /\ p \in Records /\ p.pool = pool /\ p.over = FALSE /\ p.step = "open"
        /\ p.round = "fresh" /\ p.failed = proc[w].failed
    BY <2>1, <2>4, IdleRecord DEF Idle, Records, Steps, Rounds
  <2>6. proc' = [proc EXCEPT ![w] = p] /\ UNCHANGED <<now, file, disk, alone, crossed, cut>>
    BY <1>5 DEF NewPool
  <2>7. w \in alone /\ ~proc[w].failed => AllReady(proc[w].items, disk)
    BY <1>own, <2>1 DEF OnItsOwn
  <2>8. w \in alone => OnItsOwn(p, file, disk)
    BY <2>4, <2>5, <2>7 DEF OnItsOwn
  <2> HIDE DEF p
  <2> QED
    BY <2>1, <2>5, <2>6, <2>8, <1>quiet
<1>6. ASSUME NEW w \in Commands, FetchFails(w)
      PROVE  Undisturbed'
  <2>1. proc[w] \in Records /\ proc[w].step = "fetch" /\ w \in Readers
    BY <1>0, <1>6 DEF FetchFails
  <2> DEFINE q == [Idle EXCEPT !.step = "prune", !.pool = proc[w].pool]
             p == IF proc[w].pool = NoPool THEN Idle ELSE q
  <2>2. q \in Records /\ q.step = "prune" /\ q.over = FALSE /\ q.pool = proc[w].pool
        /\ q.failed = FALSE
    BY <2>1, IdleRecord DEF Idle, Records, Steps, Rounds
  <2>3. proc' = [proc EXCEPT ![w] = p] /\ UNCHANGED <<now, file, disk, alone, crossed, cut>>
    BY <1>0, <1>6 DEF FetchFails
  <2>4. w \in alone /\ proc[w].pool # NoPool => file = proc[w].pool /\ AllReady(proc[w].pool.items, disk)
    BY <1>own, <2>1 DEF OnItsOwn
  <2>5. proc[w].pool # NoPool => proc[w].pool \in Pools
    BY <2>1 DEF Records
  <2>6. w \in alone /\ proc[w].pool # NoPool => OnItsOwn(q, file, disk)
    BY <2>2, <2>4, <2>5 DEF OnItsOwn
  <2>7. OnItsOwn(Idle, file, disk) /\ Idle \in Records
    BY IdleRecord DEF OnItsOwn, Idle
  <2>8. p \in Records /\ (w \in alone => OnItsOwn(p, file, disk))
    BY <2>2, <2>6, <2>7
  <2> HIDE DEF p
  <2> QED
    BY <2>1, <2>3, <2>8, <1>quiet
<1>7. ASSUME NEW w \in Commands, Prune(w) \/ PruneFails(w)
      PROVE  Undisturbed'
  <2>1. proc' = [proc EXCEPT ![w] = Idle] /\ alone' = alone
        /\ proc[w].step = "prune" /\ w \in Readers
    BY <1>0, <1>7 DEF Prune, PruneFails
  <2>2. proc'[w] = Idle /\ \A v \in Readers : v # w => proc'[v].step = proc[v].step
    BY <1>0, <2>1
  <2>3. OnItsOwn(Idle, file', disk')
    BY IdleRecord DEF OnItsOwn, Idle
  <2> QED
    BY <1>0, <2>1, <2>2, <2>3, OwnStep
<1>8. ASSUME NEW w \in Readers, ReadFile(w)
      PROVE  Undisturbed'
  <2>1. proc[w] \in Records /\ proc[w].step = "read"
    BY <1>0, <1>8 DEF ReadFile
  <2> DEFINE d == Decided(proc[w], NoPool)
             q == [proc[w] EXCEPT !.step = "check", !.pool = file]
             p == IF file = Torn THEN Idle
                  ELSE IF file = Missing
                    THEN IF proc[w].round = "challenge" THEN Idle ELSE d
                    ELSE q
  <2>2. d \in Records
    BY <2>1, DecidedRecord
  <2>3. file # Torn /\ file # Missing =>
          /\ q \in Records /\ q.step = "check" /\ q.pool = file
          /\ q.over = proc[w].over /\ q.round = proc[w].round /\ q.failed = proc[w].failed
    BY <1>0, <2>1 DEF Records, Steps
  <2>4. proc' = [proc EXCEPT ![w] = p] /\ UNCHANGED <<now, file, disk, alone, crossed, cut>>
    BY <1>0, <1>8 DEF ReadFile
  <2>5. w \in alone => proc[w].over = FALSE /\ proc[w].round # "fresh" /\ ~proc[w].failed
    BY <1>own, <2>1 DEF OnItsOwn
  <2>6. w \in alone => OnItsOwn(d, file, disk)
    BY <2>1, <2>5, DecidedAlone
  <2>7. w \in alone /\ file # Torn /\ file # Missing => OnItsOwn(q, file, disk)
    BY <2>3, <2>5 DEF OnItsOwn
  <2>8. OnItsOwn(Idle, file, disk) /\ Idle \in Records
    BY IdleRecord DEF OnItsOwn, Idle
  <2> HIDE DEF d, q
  <2>9. p \in Records /\ (w \in alone => OnItsOwn(p, file, disk))
    BY <2>2, <2>3, <2>6, <2>7, <2>8
  <2> HIDE DEF p
  <2> QED
    BY <2>1, <2>4, <2>9, <1>quiet
<1>9. ASSUME NEW w \in Readers, CheckImages(w)
      PROVE  Undisturbed'
  <2>1. proc[w] \in Records /\ proc[w].step = "check" /\ proc[w].pool \in Pools
    BY <1>0, <1>9 DEF CheckImages, PoolInv, PoolInHand, Carrying
  <2> DEFINE kept == {i \in proc[w].pool.items : Ready(i)}
             d == Decided(proc[w], NoPool)
             e == Decided(proc[w], proc[w].pool)
             q == [proc[w] EXCEPT !.step = "open", !.pool.items = kept]
             p == IF kept = {} THEN d
                  ELSE IF kept = proc[w].pool.items THEN e
                  ELSE q
  <2>2. d \in Records /\ e \in Records
    BY <2>1, DecidedRecord
  <2>3. kept # {} => [proc[w].pool EXCEPT !.items = kept] \in Pools
                     /\ [proc[w].pool EXCEPT !.items = kept].items = kept
    BY <2>1 DEF Pools
  <2>4. q = [proc[w] EXCEPT !.step = "open", !.pool = [proc[w].pool EXCEPT !.items = kept]]
    BY <2>1 DEF Records
  <2>5. kept # {} => /\ q \in Records /\ q.step = "open" /\ q.over = proc[w].over
                     /\ q.pool.items = kept /\ q.failed = proc[w].failed
    BY <2>1, <2>3, <2>4 DEF Records, Steps
  <2>6. proc' = [proc EXCEPT ![w] = p] /\ UNCHANGED <<now, file, disk, alone, crossed, cut>>
    BY <1>9 DEF CheckImages
  <2>7. w \in alone => proc[w].over = FALSE /\ proc[w].round # "fresh"
                     /\ file = proc[w].pool /\ ~proc[w].failed
    BY <1>own, <2>1 DEF OnItsOwn
  <2>8. w \in alone => OnItsOwn(d, file, disk)
    BY <2>1, <2>7, DecidedAlone
  <2>9. AllReady(kept, disk)
    BY DEF AllReady, Ready
  <2>10. w \in alone /\ kept = proc[w].pool.items => OnItsOwn(e, file, disk)
    <3>1. proc[w].pool # NoPool
      BY <2>1, FS_EmptySet DEF Pools, NoPool
    <3> QED
      BY <2>1, <2>7, <2>9, <3>1, DecidedAlone
  <2>11. w \in alone /\ kept # {} => OnItsOwn(q, file, disk)
    BY <2>5, <2>7, <2>9 DEF OnItsOwn
  <2> HIDE DEF d, e, q
  <2>12. p \in Records /\ (w \in alone => OnItsOwn(p, file, disk))
    BY <2>2, <2>5, <2>8, <2>10, <2>11
  <2> HIDE DEF p
  <2> QED
    BY <2>1, <2>6, <2>12, <1>quiet
<1>10. ASSUME NEW w \in Readers, OpenFile(w)
       PROVE  Undisturbed'
  <2>1. proc[w] \in Records /\ proc[w].step = "open"
    BY <1>0, <1>10 DEF OpenFile
  <2> DEFINE p == [proc[w] EXCEPT !.step = "write"]
  <2>2. /\ p.step = "write" /\ p.pool = proc[w].pool /\ p.over = proc[w].over
        /\ p.round = proc[w].round /\ p.failed = proc[w].failed
    BY <2>1 DEF Records
  <2>3. proc' = [proc EXCEPT ![w] = p] /\ UNCHANGED <<disk, alone>>
    BY <1>0, <1>10 DEF OpenFile
  <2>4. proc'[w] = p /\ \A v \in Readers : v # w => proc'[v].step = proc[v].step
    BY <1>0, <2>3
  <2>5. w \in alone => /\ proc[w].over = FALSE
                       /\ proc[w].failed => proc[w].round = "fresh"
                       /\ ~proc[w].failed => AllReady(proc[w].pool.items, disk)
    BY <1>own, <2>1 DEF OnItsOwn
  <2>6. ASSUME w \in alone PROVE OnItsOwn(p, file', disk')
    <3>1. ~p.failed => AllReady(p.pool.items, disk')
      BY <2>2, <2>3, <2>5, <2>6 DEF AllReady, Ready
    <3> QED
      BY <2>2, <2>5, <2>6, <3>1 DEF OnItsOwn
  <2> HIDE DEF p
  <2> QED
    BY <1>0, <2>1, <2>3, <2>4, <2>6, OwnStep
<1>close. ASSUME NEW w \in Readers, NEW p, proc[w].step = "write", CloseFile(w, p),
                 alone' = alone, w \in alone => OnItsOwn(p, file', disk')
          PROVE  Undisturbed'
  <2>1. proc' = [v \in Readers |->
           IF v = w THEN p
           ELSE [proc[v] EXCEPT !.over = proc[v].over \/ proc[v].step = "write"]]
    BY <1>0, <1>close DEF CloseFile
  <2>2. proc'[w] = p /\ \A v \in Readers : v # w => proc'[v].step = proc[v].step
    BY <1>0, <2>1 DEF Records
  <2> QED
    BY <1>0, <1>close, <2>2, OwnStep
<1>11. ASSUME NEW w \in Readers, WriteFile(w)
       PROVE  Undisturbed'
  <2>1. proc[w] \in Records /\ proc[w].step = "write" /\ proc[w].pool \in Pools
    BY <1>0, <1>11 DEF WriteFile, PoolInv, PoolInHand, Carrying
  <2> DEFINE closed == [proc[w] EXCEPT !.over = FALSE]
             p == Decided(closed, proc[w].pool)
  <2>2. closed \in Records /\ closed.failed = proc[w].failed /\ closed.round = proc[w].round
    BY <2>1 DEF Records
  <2>3. /\ file' \in {proc[w].pool} \cup (IF proc[w].over THEN {Torn} ELSE {})
        /\ CloseFile(w, p) /\ UNCHANGED <<now, disk, alone>>
    BY <1>11 DEF WriteFile, Written
  <2>4. w \in alone => /\ proc[w].over = FALSE
                       /\ proc[w].failed => proc[w].round = "fresh"
                       /\ ~proc[w].failed => AllReady(proc[w].pool.items, disk)
    BY <1>own, <2>1 DEF OnItsOwn
  <2>5. ASSUME w \in alone PROVE OnItsOwn(p, file', disk')
    <3>1. /\ file' = proc[w].pool
          /\ ~closed.failed => AllReady(proc[w].pool.items, disk')
      BY <2>2, <2>3, <2>4, <2>5
    <3>2. proc[w].pool # NoPool
      BY <2>1, FS_EmptySet DEF Pools, NoPool
    <3> QED
      BY <2>1, <2>2, <2>4, <2>5, <3>1, <3>2, DecidedAlone
  <2> HIDE DEF p
  <2> QED
    BY <2>1, <2>3, <2>5, <1>close
<1>15. ASSUME NEW w \in Readers, WriteFails(w)
       PROVE  Undisturbed'
  <2> DEFINE on == [Idle EXCEPT !.step = "prune", !.pool = proc[w].current, !.failed = TRUE]
             p == IF proc[w].current = NoPool THEN Idle ELSE on
  <2>1. proc[w].step = "write" /\ CloseFile(w, p) /\ alone' = alone
    BY <1>15 DEF WriteFails
  <2>2. on.step = "prune" /\ on.failed = TRUE /\ on.over = FALSE
    BY DEF Idle
  <2>3. OnItsOwn(p, file', disk')
    BY <2>2 DEF OnItsOwn, Idle
  <2> HIDE DEF p
  <2> QED
    BY <2>1, <2>3, <1>close
<1>16. ASSUME NEW w \in Commands, ImageFails(w)
       PROVE  Undisturbed'
  <2>1. proc[w] \in Records /\ proc[w].step = "image" /\ w \in Readers
    BY <1>0, <1>16 DEF ImageFails
  <2>2. PICK counted \in SUBSET proc[w].image :
          proc' = [proc EXCEPT ![w] = GivenUp(proc[w], counted)]
    BY <1>16 DEF ImageFails
  <2> DEFINE p == GivenUp(proc[w], counted)
  <2>3. /\ p \in Records /\ p.step = "fetch" /\ p.over = proc[w].over
        /\ p.pool = proc[w].pool /\ p.items = proc[w].items \cup counted
        /\ p.failed = (proc[w].failed \/ counted # {})
    BY <2>1 DEF Records, Steps, GivenUp
  <2>4. UNCHANGED <<now, file, disk, alone, crossed, cut>>
    BY <1>16 DEF ImageFails
  <2>5. ~p.failed => p.items = proc[w].items /\ ~proc[w].failed
    BY <2>3
  <2>6. w \in alone => OnItsOwn(p, file, disk)
    BY <1>own, <2>1, <2>3, <2>5 DEF OnItsOwn
  <2>7. proc' = [proc EXCEPT ![w] = p]
    BY <2>2
  <2> HIDE DEF p
  <2> QED
    BY <2>1, <2>3, <2>4, <2>6, <2>7, <1>quiet
<1>12. ASSUME NEW w \in Readers, Crash(w)
       PROVE  Undisturbed'
  BY <1>12 DEF Crash, Undisturbed
<1>13. CASE Tick
  BY <1>13 DEF Tick, Undisturbed, OnItsOwn, AllReady, Ready
<1>14. CASE UNCHANGED vars
  BY <1>14 DEF vars, Undisturbed, OnItsOwn, AllReady, Ready
<1> QED
  BY <1>1, <1>2, <1>3, <1>4, <1>5, <1>6, <1>7, <1>8, <1>9, <1>10, <1>11,
     <1>12, <1>13, <1>14, <1>15, <1>16 DEF Next

(* Two commands cannot spoil a third: whatever races, failures and crashes  *)
(* came before, a command that runs beside nobody, whose own writes did not *)
(* fail, and that reports success leaves a readable pool.json with every    *)
(* image of it whole on disk, its own pruning included.                     *)
THEOREM LonePrewarmRepairs == Spec => PrewarmRepairs
<1> DEFINE Repairs ==
      \A w \in Commands :
        Prune(w) /\ alone = {w} /\ ~proc[w].failed =>
          /\ file \in Pools
          /\ \A i \in file.items : disk'[i].content = "whole"
<1>1. ASSUME PoolInv, Undisturbed, NEW w \in Commands, Prune(w), alone = {w},
             ~proc[w].failed
      PROVE  /\ file \in Pools
             /\ \A i \in file.items : disk'[i].content = "whole"
  <2>1. OnItsOwn(proc[w], file, disk)
    BY <1>1 DEF Undisturbed
  <2>2. proc[w].step = "prune" /\ ~proc[w].failed
    BY <1>1 DEF Prune
  <2>3. file \in Pools /\ file = proc[w].pool /\ AllReady(proc[w].pool.items, disk)
    BY <2>1, <2>2 DEF OnItsOwn
  <2>4. file.items \subseteq Images
    BY <2>3 DEF Pools
  <2>5. \A i \in file.items : disk'[i] = disk[i]
    BY <1>1, <2>3, <2>4 DEF Prune, Removed, Stale
  <2> QED
    BY <2>3, <2>5 DEF AllReady
<1>2. PoolInv /\ Undisturbed => Repairs
  BY <1>1
<1>3. Init => PoolInv /\ Undisturbed
  BY PoolInit, NobodyYet
<1>4. PoolInv /\ Undisturbed /\ [Next]_vars => (PoolInv /\ Undisturbed)'
  BY PoolStep, UndisturbedStep
<1>5. PoolInv /\ Undisturbed => [Repairs]_vars
  BY <1>2
<1> QED
  BY <1>3, <1>4, <1>5, PTL DEF Spec, PrewarmRepairs

=============================================================================
