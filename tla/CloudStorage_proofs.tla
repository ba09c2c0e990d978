------------------------- MODULE CloudStorage_proofs -------------------------
(***************************************************************************)
(* Proofs about CloudStorage, for any number of providers, files, tickets   *)
(* and handlers: types, and that tables and storage keep agreeing.  The     *)
(* inductive invariant adds to the properties                               *)
(*   Fits      what a handler knows of the file it has in hand              *)
(*   Apart     handlers that have stored objects have different ones        *)
(*   Placed    a file is where its row says, and nowhere else               *)
(*   Redeemed  a ticket that was redeemed has one holder: the handler that  *)
(*             redeemed it, then the file that came of it                   *)
(***************************************************************************)
EXTENDS CloudStorage, TLAPS, FiniteSetTheorems

Configs == [there : BOOLEAN, on : BOOLEAN, bucket : Buckets \cup {None},
            secret : BOOLEAN, default : BOOLEAN]
Rows    == [state : {"none", "active", "deleted"},
            provider : Providers \cup {None}, at : Places \cup {None},
            ticket : Tickets \cup {None}, doomed : BOOLEAN, strayed : BOOLEAN]
Stored  == [file : Files, at : Places]
Slips   == {s \in [state : {"none", "pending", "used", "gone"},
                   provider : Providers \cup {None}, until : Nat] :
              s.state = "pending" => s.provider \in Providers}
Reads   == [on : BOOLEAN, bucket : Buckets \cup {None}, secret : BOOLEAN]
Jobs    == [pc : {"idle", "missing", "local", "nodefault", "ready", "ticketed",
                  "configured", "storing", "stored", "found", "removing",
                  "removed", "saving", "saved", "serving"},
            goal : {None, "page", "ticket", "base64"},
            ticket : Tickets \cup {None}, provider : Providers \cup {None},
            cfg : Reads, file : Files \cup {None}, ask : Saves \cup {None}]

WithFile == {"stored", "found", "removing", "removed", "serving"}
WithProvider == WithFile \cup {"ticketed", "configured", "storing"}

(* What a handler carries at each of its awaits.                            *)
Held == {h \in Jobs :
           /\ h.pc \in WithProvider => h.provider \in Providers
           /\ h.pc \in WithFile => h.file \in Files
           /\ h.pc \in {"ticketed", "configured"} => h.ticket \in Tickets
           /\ h.pc \in {"saving", "saved"} => h.ask \in Saves}

Types ==
    /\ now \in 1..MaxTime
    /\ configs \in [Providers -> Configs]
    /\ files \in [Files -> Rows]
    /\ objects \subseteq Stored
    /\ tickets \in [Tickets -> Slips]
    /\ work \in [Workers -> Held]
    /\ leaks \subseteq Stored

OneDefault == \A p, q \in Defaults : p = q

(* Where the object of the file in hand is, as the handler sees it.         *)
InHand(h) == [file |-> h.file, at |-> PlaceOf(h.provider, h.cfg)]

(* What is true of the file a handler has in hand.                          *)
Fits(h) ==
    /\ h.pc = "stored"
         => /\ files[h.file].state = "none"
            /\ InHand(h) \in objects
            /\ \A o \in objects : o.file = h.file => o = InHand(h)
    /\ h.pc \in {"found", "removing", "removed", "serving"}
         => /\ files[h.file].state # "none"
            /\ h.provider = files[h.file].provider
    /\ h.pc = "removed" => InHand(h) \notin objects

AllFit == \A w \in Workers : Fits(work[w])

Apart ==
    \A v, w \in Workers :
       work[v].pc = "stored" /\ work[w].pc = "stored" /\ work[v].file = work[w].file
          => v = w

Placed ==
    /\ \A f \in Files : files[f].state # "none" =>
          /\ files[f].provider \in Providers
          /\ files[f].at \in Places
          /\ files[f].at[1] = files[f].provider
          /\ files[f].at[1] = Local => files[f].at[2] = None
    /\ \A o \in objects : files[o.file].state # "none" => o.at = files[o.file].at

Redeeming(w, t) == work[w].pc \in {"storing", "stored"} /\ work[w].ticket = t

Redeemed ==
    \A t \in Tickets :
       /\ \A w \in Workers : Redeeming(w, t) => tickets[t].state \in {"used", "gone"}
       /\ \A f \in Files : files[f].ticket = t => tickets[t].state \in {"used", "gone"}
       /\ \A v, w \in Workers : Redeeming(v, t) /\ Redeeming(w, t) => v = w
       /\ \A w \in Workers, f \in Files : ~(Redeeming(w, t) /\ files[f].ticket = t)
       /\ \A f, g \in Files : files[f].ticket = t /\ files[g].ticket = t => f = g

CloudInv ==
    /\ Types /\ OneDefault /\ AllFit /\ Apart /\ Placed /\ Redeemed
    /\ OfferedFileHasObject /\ ObjectsAccountedFor

(* What the module assumes of its constants.                                *)
LEMMA Given ==
    /\ TicketTTL \in Nat /\ MaxTime \in Nat /\ MaxTime >= 1
    /\ Local \in Providers /\ Remotes \subseteq Providers /\ Local \notin Remotes
    /\ None \notin Files /\ None \notin Tickets /\ None \notin Remotes
    /\ \A ask \in Saves : /\ ask.provider \in Providers
                          /\ ask.on \in BOOLEAN /\ ask.secret \in BOOLEAN
                          /\ ask.default \in BOOLEAN
                          /\ ask.bucket \in Buckets \cup {None}
BY ProvidersAssumption, NoneAssumption, SavesAssumption, ClockAssumption DEF Providers

LEMMA EmptyRows ==
    /\ NoConfig \in Configs /\ NoConfig.default = FALSE
    /\ NoFile \in Rows /\ NoFile.state = "none" /\ NoFile.ticket = None
    /\ NoTicket \in Slips /\ NoTicket.state = "none"
    /\ Unread \in Reads
    /\ Idle \in Held /\ Idle.pc = "idle"
BY DEF NoConfig, Configs, NoFile, Rows, NoTicket, Slips, Unread, Reads, Idle, Jobs,
       Held, WithFile, WithProvider

LEMMA PlaceIsPlace ==
  ASSUME NEW p \in Providers, NEW cfg \in Reads
  PROVE  /\ PlaceOf(p, cfg) \in Places /\ PlaceOf(p, cfg)[1] = p
         /\ p = Local => PlaceOf(p, cfg)[2] = None
BY DEF PlaceOf, Places, Reads

LEMMA InHandStored ==
  ASSUME NEW h \in Held, h.pc \in WithFile
  PROVE  InHand(h) \in Stored
<1>1. h.file \in Files /\ h.provider \in Providers /\ h.cfg \in Reads
  BY DEF Held, Jobs, WithProvider
<1> QED
  BY <1>1, PlaceIsPlace DEF InHand, Stored

LEMMA CloudInit == Init => CloudInv
<1> SUFFICES ASSUME Init PROVE CloudInv
  OBVIOUS
<1>1. /\ now = 1 /\ objects = {} /\ leaks = {}
      /\ configs = [p \in Providers |-> NoConfig]
      /\ files = [f \in Files |-> NoFile]
      /\ tickets = [t \in Tickets |-> NoTicket]
      /\ work = [w \in Workers |-> Idle]
  BY DEF Init
<1>2. Types
  <2>1. 1 \in 1..MaxTime
    BY Given
  <2> QED
    BY <1>1, <2>1, EmptyRows DEF Types
<1>3. \A w \in Workers : work[w].pc = "idle"
  BY <1>1, EmptyRows
<1>4. \A f \in Files : files[f].state = "none" /\ files[f].ticket = None
  BY <1>1, EmptyRows
<1>5. OneDefault
  BY <1>1, EmptyRows DEF OneDefault, Defaults
<1>6. AllFit /\ Apart /\ Placed
  BY <1>1, <1>3, <1>4 DEF AllFit, Fits, Apart, Placed
<1>7. Redeemed
  BY <1>3, <1>4, Given DEF Redeemed, Redeeming
<1>8. OfferedFileHasObject /\ ObjectsAccountedFor
  BY <1>1, <1>3, <1>4 DEF OfferedFileHasObject, ObjectsAccountedFor, Offered
<1> QED
  BY <1>2, <1>5, <1>6, <1>7, <1>8 DEF CloudInv

---------------------------------------------------------------------------
(* Kinds of steps *)

(* A handler without a stored object goes on to a record without one; of    *)
(* the tickets, those that were redeemed stay so, and one the handler goes  *)
(* on with as redeemed was not before.  Configurations may change, as long  *)
(* as they keep one default.                                                *)
LEMMA WorkStep ==
  ASSUME CloudInv, NEW w \in Workers, NEW h \in Held,
         work' = [work EXCEPT ![w] = h],
         work[w].pc # "stored", h.pc # "stored", Fits(h),
         h.pc = "serving" => files[h.file].state = "active",
         configs' \in [Providers -> Configs], OneDefault',
         tickets' \in [Tickets -> Slips],
         \A t \in Tickets : tickets[t].state \in {"used", "gone"}
                                => tickets'[t].state \in {"used", "gone"},
         \A t \in Tickets : h.pc = "storing" /\ h.ticket = t
                                => /\ tickets[t].state \notin {"used", "gone"}
                                   /\ tickets'[t].state \in {"used", "gone"},
         UNCHANGED <<now, files, objects, leaks>>
  PROVE  CloudInv'
<1>1. work \in [Workers -> Held]
  BY DEF CloudInv, Types
<1>2. \A v \in Workers : work'[v] = IF v = w THEN h ELSE work[v]
  BY <1>1
<1>3. work' \in [Workers -> Held]
  BY <1>1
<1>4. Types'
  BY <1>3 DEF CloudInv, Types
<1>5. AllFit'
  BY <1>2 DEF CloudInv, AllFit, Fits, InHand
<1>6. Apart'
  BY <1>2 DEF CloudInv, Apart
<1>7. Placed'
  BY DEF CloudInv, Placed
<1>8. Redeemed'
  <2> SUFFICES ASSUME NEW t \in Tickets
      PROVE
       /\ \A v \in Workers : Redeeming(v, t)' => tickets'[t].state \in {"used", "gone"}
       /\ \A f \in Files : files[f].ticket = t => tickets'[t].state \in {"used", "gone"}
       /\ \A u, v \in Workers : Redeeming(u, t)' /\ Redeeming(v, t)' => u = v
       /\ \A v \in Workers, f \in Files : ~(Redeeming(v, t)' /\ files[f].ticket = t)
       /\ \A f, g \in Files : files[f].ticket = t /\ files[g].ticket = t => f = g
    BY DEF Redeemed
  <2>1. \A v \in Workers : Redeeming(v, t)' =>
           \/ Redeeming(v, t)
           \/ v = w /\ tickets[t].state \notin {"used", "gone"}
                    /\ tickets'[t].state \in {"used", "gone"}
    BY <1>2 DEF Redeeming
  <2> QED
    BY <2>1 DEF CloudInv, Redeemed
<1>9. OfferedFileHasObject'
  <2>1. \A f \in Files : Offered(f)' => Offered(f)
    BY <1>2 DEF Offered
  <2> QED
    BY <2>1 DEF CloudInv, OfferedFileHasObject
<1>10. ObjectsAccountedFor'
  <2>1. \A v \in Workers : work[v].pc = "stored" => work'[v] = work[v]
    BY <1>2
  <2> QED
    BY <2>1 DEF CloudInv, ObjectsAccountedFor, Leak
<1> QED
  BY <1>4, <1>5, <1>6, <1>7, <1>8, <1>9, <1>10 DEF CloudInv

(* The same with no ticket redeemed and none changed.                       *)
LEMMA HandlerStep ==
  ASSUME CloudInv, NEW w \in Workers, NEW h \in Held,
         work' = [work EXCEPT ![w] = h],
         work[w].pc # "stored", h.pc # "stored", Fits(h),
         h.pc = "storing" => h.ticket = None,
         h.pc = "serving" => files[h.file].state = "active",
         configs' \in [Providers -> Configs], OneDefault',
         UNCHANGED <<now, files, objects, tickets, leaks>>
  PROVE  CloudInv'
<1>1. tickets' \in [Tickets -> Slips]
  BY DEF CloudInv, Types
<1>2. \A t \in Tickets : ~(h.pc = "storing" /\ h.ticket = t)
  BY Given
<1> QED
  BY <1>1, <1>2, WorkStep

(* The configurations after an UPDATE of the default ...                    *)
LEMMA DefaultSet ==
  ASSUME CloudInv, NEW p \in Providers, SetDefault(p)
  PROVE  configs' \in [Providers -> Configs] /\ Defaults' = {p} /\ OneDefault'
<1>1. configs \in [Providers -> Configs]
  BY DEF CloudInv, Types
<1>2. \A q \in Providers : configs'[q] = [configs[q] EXCEPT !.default = (q = p)]
  BY DEF SetDefault
<1>3. \A q \in Providers : configs'[q] \in Configs /\ configs'[q].default = (q = p)
  <2> SUFFICES ASSUME NEW q \in Providers
               PROVE  configs'[q] \in Configs /\ configs'[q].default = (q = p)
    OBVIOUS
  <2>1. configs[q] \in Configs /\ (q = p) \in BOOLEAN
    BY <1>1
  <2> DEFINE new == (q = p)
  <2>2. configs'[q] = [configs[q] EXCEPT !.default = new] /\ new \in BOOLEAN
    BY <1>2
  <2> HIDE DEF new
  <2>3. configs'[q] \in Configs /\ configs'[q].default = new
    BY <2>1, <2>2 DEF Configs
  <2> QED
    BY <2>3 DEF new
<1>4. configs' = [q \in Providers |-> configs'[q]]
  BY DEF SetDefault
<1>5. configs' \in [Providers -> Configs]
  BY <1>3, <1>4
<1>6. Defaults' = {p}
  BY <1>3 DEF Defaults
<1> QED
  BY <1>5, <1>6 DEF OneDefault

(* ... and after an INSERT ... ON DUPLICATE KEY UPDATE of one row, which    *)
(* does not touch its mark as the default.                                  *)
LEMMA DefaultKept ==
  ASSUME CloudInv, NEW p \in Providers, NEW row \in Configs,
         configs' = [configs EXCEPT ![p] = row], row.default = configs[p].default
  PROVE  configs' \in [Providers -> Configs] /\ Defaults' = Defaults /\ OneDefault'
<1>1. configs \in [Providers -> Configs]
  BY DEF CloudInv, Types
<1>2. \A q \in Providers : configs'[q] = IF q = p THEN row ELSE configs[q]
  BY <1>1
<1>3. configs' \in [Providers -> Configs]
  BY <1>1
<1>4. Defaults' = Defaults
  BY <1>2 DEF Defaults
<1> QED
  BY <1>3, <1>4 DEF CloudInv, OneDefault

LEMMA ReadsConfig ==
  ASSUME CloudInv, NEW p \in Providers
  PROVE  ForStore(p) \in Reads /\ ForAccess(p) \in Reads /\ ForSave(p) \in Reads
<1>1. configs[p] \in Configs
  BY DEF CloudInv, Types
<1> QED
  BY <1>1 DEF Configs, Reads, Unread, ForStore, ForAccess, ForSave

(* Steps that only read, up to the handler's record.                        *)
LEMMA ReadingStep ==
  ASSUME CloudInv, NEW w \in Workers, NEW h \in Held, Set(w, h),
         work[w].pc # "stored", h.pc # "stored", Fits(h),
         h.pc = "storing" => h.ticket = None,
         h.pc = "serving" => files[h.file].state = "active",
         UNCHANGED <<now, configs, files, objects, tickets, leaks>>
  PROVE  CloudInv'
<1>1. work' = [work EXCEPT ![w] = h]
  BY DEF Set
<1>2. configs' \in [Providers -> Configs] /\ OneDefault'
  BY DEF CloudInv, Types, OneDefault, Defaults
<1> QED
  BY <1>1, <1>2, HandlerStep

LEMMA IdleFits == Fits(Idle)
BY EmptyRows DEF Fits

LEMMA DoneStep ==
  ASSUME CloudInv, NEW w \in Workers, Done(w), work[w].pc # "stored",
         UNCHANGED <<now, configs, files, objects, tickets, leaks>>
  PROVE  CloudInv'
BY EmptyRows, IdleFits, ReadingStep DEF Done

---------------------------------------------------------------------------
(* Configurations *)

LEMMA ConfigSteps ==
  ASSUME CloudInv, NEW w \in Workers,
         \/ \E goal \in {"page", "ticket", "base64"} : EnsureLocalConfig(w, goal)
         \/ UpsertLocal(w) \/ FindDefault(w) \/ DefaultToLocal(w) \/ ShowPage(w)
         \/ \E ask \in Saves : ReadForSave(w, ask)
         \/ UpsertConfig(w) \/ SetDefaultConfig(w)
  PROVE  CloudInv'
<1>1. work[w] \in Held /\ configs \in [Providers -> Configs]
  BY DEF CloudInv, Types
<1>2. ASSUME NEW goal \in {"page", "ticket", "base64"}, EnsureLocalConfig(w, goal)
      PROVE  CloudInv'
  <2> DEFINE h == [Idle EXCEPT !.goal = goal,
                               !.pc = IF configs[Local].there THEN "local" ELSE "missing"]
  <2>1. h.pc \in {"local", "missing"} /\ h \in Held
    BY DEF Idle, Unread, Reads, Held, Jobs, WithFile, WithProvider
  <2>2. Fits(h)
    <3> HIDE DEF h
    <3> QED
      BY <2>1 DEF Fits
  <2>3. Set(w, h)
    BY <1>2 DEF EnsureLocalConfig
  <2>4. work[w].pc = "idle" /\ UNCHANGED <<now, configs, files, objects, tickets, leaks>>
    BY <1>2 DEF EnsureLocalConfig
  <2> HIDE DEF h
  <2> QED
    BY <2>1, <2>2, <2>3, <2>4, ReadingStep
<1>3. CASE UpsertLocal(w)
  <2> DEFINE row == [NoConfig EXCEPT !.there = TRUE, !.on = TRUE,
                                     !.default = configs[Local].default]
             h == [work[w] EXCEPT !.pc = "local"]
  <2>1. row \in Configs /\ row.default = configs[Local].default
    BY <1>1, Given DEF NoConfig, Configs
  <2>2. h \in Held /\ h.pc = "local"
    BY <1>1 DEF Held, Jobs, WithFile, WithProvider
  <2>3. Fits(h)
    BY <2>2 DEF Fits
  <2>4. /\ configs' = [configs EXCEPT ![Local] = row] /\ work' = [work EXCEPT ![w] = h]
        /\ work[w].pc = "missing" /\ UNCHANGED <<now, files, objects, tickets, leaks>>
    BY <1>3 DEF UpsertLocal, Set
  <2> HIDE DEF row, h
  <2>5. configs' \in [Providers -> Configs] /\ OneDefault'
    BY <2>1, <2>4, Given, DefaultKept
  <2> QED
    BY <2>2, <2>3, <2>4, <2>5, HandlerStep
<1>4. CASE FindDefault(w)
  <2> DEFINE h(pc) == [work[w] EXCEPT !.pc = pc]
  <2>1. \A pc \in {"nodefault", "ready"} : h(pc) \in Held /\ h(pc).pc = pc
    BY <1>1 DEF Held, Jobs, WithFile, WithProvider
  <2>2. PICK pc \in {"nodefault", "ready"} : Set(w, h(pc))
    BY <1>4 DEF FindDefault
  <2>3. h(pc) \in Held /\ h(pc).pc \in {"nodefault", "ready"}
    BY <2>1
  <2> HIDE DEF h
  <2>4. Fits(h(pc))
    BY <2>3 DEF Fits
  <2> QED
    BY <1>4, <2>2, <2>3, <2>4, ReadingStep DEF FindDefault
<1>5. CASE DefaultToLocal(w)
  <2> DEFINE h == [work[w] EXCEPT !.pc = "ready"]
  <2>1. h \in Held /\ h.pc = "ready"
    BY <1>1 DEF Held, Jobs, WithFile, WithProvider
  <2>2. Fits(h)
    BY <2>1 DEF Fits
  <2>3. SetDefault(Local) /\ work' = [work EXCEPT ![w] = h] /\ work[w].pc = "nodefault"
        /\ UNCHANGED <<now, files, objects, tickets, leaks>>
    BY <1>5 DEF DefaultToLocal, Set
  <2> HIDE DEF h
  <2> QED
    BY <2>1, <2>2, <2>3, Given, DefaultSet, HandlerStep
<1>6. CASE ShowPage(w)
  BY <1>6, DoneStep DEF ShowPage
<1>7. ASSUME NEW ask \in Saves, ReadForSave(w, ask)
      PROVE  CloudInv'
  <2> DEFINE h == [Idle EXCEPT !.pc = "saving", !.ask = ask, !.cfg = ForSave(ask.provider)]
  <2>1. ForSave(ask.provider) \in Reads
    BY Given, ReadsConfig
  <2>2. h \in Held /\ h.pc = "saving"
    BY <2>1 DEF Idle, Held, Jobs, WithFile, WithProvider
  <2>3. Fits(h)
    BY <2>2 DEF Fits
  <2>4. Set(w, h) /\ work[w].pc = "idle"
        /\ UNCHANGED <<now, configs, files, objects, tickets, leaks>>
    BY <1>7 DEF ReadForSave
  <2> HIDE DEF h
  <2> QED
    BY <2>2, <2>3, <2>4, ReadingStep
<1>8. CASE UpsertConfig(w)
  <2> DEFINE ask == work[w].ask
             secret == SavedSecret(ask, work[w].cfg)
             row == [there |-> TRUE, on |-> ask.on, bucket |-> ask.bucket,
                     secret |-> secret, default |-> configs[ask.provider].default]
             h == [work[w] EXCEPT !.pc = "saved"]
  <2>1. work[w].pc = "saving" /\ ask \in Saves /\ ask.provider \in Providers
    BY <1>1, <1>8, Given DEF UpsertConfig, Held
  <2>2. secret \in BOOLEAN
    BY DEF SavedSecret
  <2>3. configs[ask.provider].default \in BOOLEAN
    BY <1>1, <2>1 DEF Configs
  <2>4. row \in Configs /\ row.default = configs[ask.provider].default
    <3> HIDE DEF secret
    <3> QED
      BY <2>1, <2>2, <2>3, Given DEF Configs
  <2>5. h \in Held /\ h.pc = "saved"
    BY <1>1, <2>1 DEF Held, Jobs, WithFile, WithProvider
  <2>6. Fits(h)
    BY <2>5 DEF Fits
  <2>7. /\ configs' = [configs EXCEPT ![ask.provider] = row]
        /\ work' = [work EXCEPT ![w] = h] \/ work' = [work EXCEPT ![w] = Idle]
        /\ UNCHANGED <<now, files, objects, tickets, leaks>>
    BY <1>8 DEF UpsertConfig, Set
  <2> HIDE DEF row, h
  <2>8. configs' \in [Providers -> Configs] /\ OneDefault'
    BY <2>1, <2>4, <2>7, DefaultKept
  <2> HIDE DEF ask
  <2> QED
    BY <2>1, <2>5, <2>6, <2>7, <2>8, EmptyRows, IdleFits, HandlerStep
<1>9. CASE SetDefaultConfig(w)
  <2>1. work[w].pc = "saved" /\ work[w].ask \in Saves /\ work[w].ask.provider \in Providers
    BY <1>1, <1>9, Given DEF SetDefaultConfig, Held
  <2>2. SetDefault(work[w].ask.provider) /\ work' = [work EXCEPT ![w] = Idle]
        /\ UNCHANGED <<now, files, objects, tickets, leaks>>
    BY <1>9 DEF SetDefaultConfig, Done, Set
  <2> QED
    BY <2>1, <2>2, DefaultSet, EmptyRows, IdleFits, HandlerStep
<1> QED
  BY <1>2, <1>3, <1>4, <1>5, <1>6, <1>7, <1>8, <1>9

---------------------------------------------------------------------------
(* Uploads *)

LEMMA TicketSteps ==
  ASSUME CloudInv, NEW w \in Workers,
         \/ \E t \in Tickets : CreateUploadTicket(w, t) \/ FindTicket(w, t)
         \/ TakeDefaultForBase64(w) \/ ReadTicketConfig(w) \/ MarkTicketUsed(w)
  PROVE  CloudInv'
<1>1. /\ work[w] \in Held /\ configs \in [Providers -> Configs]
      /\ tickets \in [Tickets -> Slips] /\ now \in Nat
  BY DEF CloudInv, Types
<1>2. ASSUME NEW t \in Tickets, CreateUploadTicket(w, t)
      PROVE  CloudInv'
  <2>1. CASE tickets' = tickets
    BY <1>2, <2>1, DoneStep DEF CreateUploadTicket
  <2>2. CASE \E p \in Defaults : tickets' = [tickets EXCEPT ![t] =
                  [state |-> "pending", provider |-> p, until |-> now + TicketTTL]]
    <3>1. PICK p \in Defaults : tickets' = [tickets EXCEPT ![t] =
                  [state |-> "pending", provider |-> p, until |-> now + TicketTTL]]
      BY <2>2
    <3> DEFINE slip == [state |-> "pending", provider |-> p, until |-> now + TicketTTL]
    <3>2. p \in Providers /\ now + TicketTTL \in Nat
      BY <1>1, Given DEF Defaults
    <3>3. slip \in Slips
      BY <3>2 DEF Slips
    <3> HIDE DEF slip
    <3>4. tickets' = [tickets EXCEPT ![t] = slip] /\ tickets[t].state = "none"
      BY <1>2, <3>1 DEF CreateUploadTicket, slip
    <3>5. tickets' \in [Tickets -> Slips]
          /\ \A u \in Tickets : tickets[u].state \in {"used", "gone"}
                                => tickets'[u].state \in {"used", "gone"}
      BY <1>1, <3>3, <3>4
    <3>6. work' = [work EXCEPT ![w] = Idle] /\ work[w].pc = "ready"
          /\ UNCHANGED <<now, configs, files, objects, leaks>>
      BY <1>2 DEF CreateUploadTicket, Done, Set
    <3>7. OneDefault'
      BY <3>6 DEF CloudInv, OneDefault, Defaults
    <3> QED
      BY <1>1, <3>5, <3>6, <3>7, EmptyRows, IdleFits, WorkStep
  <2> QED
    BY <1>2, <2>1, <2>2 DEF CreateUploadTicket
<1>3. ASSUME NEW t \in Tickets, FindTicket(w, t)
      PROVE  CloudInv'
  <2> DEFINE h == [Idle EXCEPT !.pc = "ticketed", !.ticket = t,
                               !.provider = tickets[t].provider]
  <2>1. tickets[t] \in Slips /\ tickets[t].state = "pending"
    BY <1>1, <1>3 DEF FindTicket
  <2>2. tickets[t].provider \in Providers
    BY <2>1 DEF Slips
  <2>3. h \in Held /\ h.pc = "ticketed"
    BY <2>2 DEF Idle, Unread, Reads, Held, Jobs, WithFile, WithProvider
  <2>4. Set(w, h) /\ work[w].pc = "idle"
        /\ UNCHANGED <<now, configs, files, objects, tickets, leaks>>
    BY <1>3 DEF FindTicket
  <2> HIDE DEF h
  <2>5. Fits(h)
    BY <2>3 DEF Fits
  <2> QED
    BY <2>3, <2>4, <2>5, ReadingStep
<1>4. CASE TakeDefaultForBase64(w)
  <2>1. CASE Done(w)
    BY <1>4, <2>1, DoneStep DEF TakeDefaultForBase64
  <2>2. ASSUME NEW p \in Defaults,
               Set(w, [Idle EXCEPT !.pc = "storing", !.provider = p, !.cfg = ForStore(p)])
        PROVE  CloudInv'
    <3> DEFINE h == [Idle EXCEPT !.pc = "storing", !.provider = p, !.cfg = ForStore(p)]
    <3>1. p \in Providers /\ ForStore(p) \in Reads
      BY ReadsConfig DEF Defaults
    <3>2. h \in Held /\ h.pc = "storing" /\ h.ticket = None
      BY <3>1 DEF Idle, Held, Jobs, WithFile, WithProvider
    <3>3. Set(w, h) /\ work[w].pc = "ready"
          /\ UNCHANGED <<now, configs, files, objects, tickets, leaks>>
      BY <1>4, <2>2 DEF TakeDefaultForBase64
    <3> HIDE DEF h
    <3>4. Fits(h)
      BY <3>2 DEF Fits
    <3> QED
      BY <3>2, <3>3, <3>4, ReadingStep
  <2> QED
    BY <1>4, <2>1, <2>2 DEF TakeDefaultForBase64
<1>5. CASE ReadTicketConfig(w)
  <2> DEFINE h == [work[w] EXCEPT !.pc = "configured", !.cfg = ForStore(work[w].provider)]
  <2>1. /\ work[w].pc = "ticketed" /\ Set(w, h)
        /\ UNCHANGED <<now, configs, files, objects, tickets, leaks>>
    BY <1>5 DEF ReadTicketConfig
  <2>2. ForStore(work[w].provider) \in Reads
    BY <1>1, <2>1, ReadsConfig DEF Held, WithProvider
  <2>3. h \in Held /\ h.pc = "configured"
    BY <1>1, <2>1, <2>2 DEF Held, Jobs, WithFile, WithProvider
  <2> HIDE DEF h
  <2>4. Fits(h)
    BY <2>3 DEF Fits
  <2> QED
    BY <2>1, <2>3, <2>4, ReadingStep
<1>6. CASE MarkTicketUsed(w)
  <2> DEFINE t == work[w].ticket
  <2>1. work[w].pc = "configured" /\ t \in Tickets
    BY <1>1, <1>6 DEF MarkTicketUsed, Held
  <2>2. CASE TicketPending(t)
    <3> DEFINE h == [work[w] EXCEPT !.pc = "storing"]
               slip == [tickets[t] EXCEPT !.state = "used"]
    <3>1. h \in Held /\ h.pc = "storing" /\ h.ticket = t
      BY <1>1, <2>1 DEF Held, Jobs, WithFile, WithProvider
    <3>2. slip \in Slips /\ slip.state = "used" /\ tickets[t].state = "pending"
      BY <1>1, <2>1, <2>2 DEF Slips, TicketPending
    <3>3. /\ tickets' = [tickets EXCEPT ![t] = slip]
          /\ work' = [work EXCEPT ![w] = h]
          /\ UNCHANGED <<now, configs, files, objects, leaks>>
      BY <1>1, <1>6, <2>1, <2>2 DEF MarkTicketUsed, Set
    <3> HIDE DEF h, slip, t
    <3>4. Fits(h)
      BY <3>1 DEF Fits
    <3>5. /\ tickets' \in [Tickets -> Slips]
          /\ \A u \in Tickets : tickets[u].state \in {"used", "gone"}
                                => tickets'[u].state \in {"used", "gone"}
          /\ tickets'[t].state = "used"
      BY <1>1, <2>1, <3>2, <3>3
    <3>6. OneDefault' /\ configs' \in [Providers -> Configs]
      BY <1>1, <3>3 DEF CloudInv, OneDefault, Defaults
    <3> QED
      BY <2>1, <3>1, <3>2, <3>3, <3>4, <3>5, <3>6, WorkStep
  <2>3. CASE ~TicketPending(t)
    BY <1>6, <2>1, <2>3, DoneStep DEF MarkTicketUsed
  <2> QED
    BY <2>2, <2>3
<1> QED
  BY <1>2, <1>3, <1>4, <1>5, <1>6

LEMMA StoreStep ==
  ASSUME CloudInv, NEW w \in Workers, NEW fits \in BOOLEAN, StoreObject(w, fits)
  PROVE  CloudInv'
<1>1. /\ work \in [Workers -> Held] /\ work[w] \in Held /\ work[w].pc = "storing"
      /\ UNCHANGED <<now, configs, files, tickets>>
  BY DEF CloudInv, Types, StoreObject
<1>2. CASE ~(work[w].cfg.on /\ fits)
  BY <1>1, <1>2, DoneStep DEF StoreObject
<1>3. CASE work[w].cfg.on /\ fits
  <2> DEFINE o(f) == [file |-> f, at |-> PlaceOf(work[w].provider, work[w].cfg)]
  <2>1. PICK f \in Files, e \in Outcomes(work[w].provider) :
          /\ files[f].state = "none"
          /\ \A x \in objects : x.file # f
          /\ \A v \in Workers : work[v].file # f
          /\ objects' = IF e[1] THEN objects \cup {o(f)} ELSE objects
          /\ leaks' = IF e[1] /\ ~e[2] THEN leaks \cup {o(f)} ELSE leaks
          /\ IF e[2] THEN Set(w, [work[w] EXCEPT !.pc = "stored", !.file = f])
             ELSE Done(w)
    BY <1>3 DEF StoreObject
  <2> DEFINE s == [work[w] EXCEPT !.pc = "stored", !.file = f]
             new == o(f)
  <2>2. s \in Held /\ s.pc = "stored" /\ s.file = f /\ s.ticket = work[w].ticket
        /\ new = InHand(s)
    BY <1>1 DEF Held, Jobs, WithFile, WithProvider, InHand
  <2>3. new \in Stored /\ new.file = f
    BY <2>2, InHandStored DEF WithFile
  <2>4. \/ /\ objects' = objects \cup {new} /\ leaks' = leaks /\ Set(w, s)
        \/ /\ objects' = objects \cup {new} /\ leaks' = leaks \cup {new} /\ Done(w)
        \/ /\ objects' = objects /\ leaks' = leaks /\ Done(w)
    <3>1. e = <<TRUE, TRUE>> \/ e = <<FALSE, FALSE>> \/ e = <<TRUE, FALSE>>
      BY DEF Outcomes
    <3> HIDE DEF s, new
    <3>2. CASE e = <<TRUE, TRUE>>
      <4>1. e[1] /\ e[2]
        BY <3>2
      <4> QED
        BY <2>1, <4>1 DEF s, new
    <3>3. CASE e = <<FALSE, FALSE>>
      <4>1. ~e[1] /\ ~e[2]
        BY <3>3
      <4> QED
        BY <2>1, <4>1
    <3>4. CASE e = <<TRUE, FALSE>>
      <4>1. e[1] /\ ~e[2]
        BY <3>4
      <4> QED
        BY <2>1, <4>1 DEF new
    <3> QED
      BY <3>1, <3>2, <3>3, <3>4
  <2> HIDE DEF s, new, o
  <2>5. PICK h \in {s, Idle} :
          /\ work' = [work EXCEPT ![w] = h]
          /\ objects' \in {objects, objects \cup {new}}
          /\ leaks' \in {leaks, leaks \cup {new}}
          /\ new \in objects' => h = s \/ new \in leaks' \/ new \in objects
          /\ h = s => new \in objects'
    <3>1. s # Idle
      BY <2>2, EmptyRows
    <3> QED
      BY <2>4, <3>1 DEF Set, Done
  <2>6. h \in Held /\ h.pc \in {"stored", "idle"} /\ (h.pc = "stored" => h = s)
    BY <2>2, <2>5, EmptyRows
  <2>7. \A v \in Workers : work'[v] = IF v = w THEN h ELSE work[v]
    BY <1>1, <2>5
  <2>8. work' \in [Workers -> Held]
    BY <1>1, <2>5, <2>6
  <2>9. Types'
    BY <1>1, <2>3, <2>5, <2>8 DEF CloudInv, Types
  <2>10. AllFit'
    <3> SUFFICES ASSUME NEW v \in Workers PROVE Fits(work[v])'
      BY DEF AllFit
    <3>1. CASE v = w
      BY <1>1, <2>1, <2>2, <2>3, <2>5, <2>6, <2>7, <3>1 DEF Fits, InHand
    <3>2. CASE v # w
      <4>1. work'[v] = work[v] /\ work[v].file # f /\ Fits(work[v])
        BY <2>1, <2>7, <3>2 DEF CloudInv, AllFit
      <4>2. InHand(work[v]) # new
        BY <2>3, <4>1 DEF InHand
      <4> QED
        BY <1>1, <2>3, <2>5, <4>1, <4>2 DEF Fits, InHand
    <3> QED
      BY <3>1, <3>2
  <2>11. Apart'
    BY <2>1, <2>2, <2>6, <2>7 DEF CloudInv, Apart
  <2>12. Placed'
    BY <1>1, <2>1, <2>3, <2>5 DEF CloudInv, Placed
  <2>13. Redeemed'
    <3>1. \A v \in Workers, t \in Tickets : Redeeming(v, t)' => Redeeming(v, t)
      BY <1>1, <2>2, <2>6, <2>7 DEF Redeeming
    <3> QED
      BY <1>1, <3>1 DEF CloudInv, Redeemed
  <2>14. OfferedFileHasObject'
    <3>1. \A g \in Files : Offered(g)' => Offered(g)
      BY <1>1, <2>6, <2>7 DEF Offered
    <3> QED
      BY <1>1, <2>5, <3>1 DEF CloudInv, OfferedFileHasObject
  <2>15. ObjectsAccountedFor'
    <3>1. \A v \in Workers : work[v].pc = "stored" => work'[v] = work[v]
      BY <1>1, <2>7
    <3>2. h = s => work'[w].pc = "stored" /\ Leak(w)' = new
      BY <2>2, <2>7 DEF Leak, InHand
    <3>3. \A x \in objects' : x \in objects \/ x = new
      BY <2>5
    <3> QED
      BY <1>1, <2>5, <3>1, <3>2, <3>3 DEF CloudInv, ObjectsAccountedFor, Leak
  <2>16. OneDefault'
    BY <1>1 DEF CloudInv, OneDefault, Defaults
  <2> QED
    BY <2>9, <2>10, <2>11, <2>12, <2>13, <2>14, <2>15, <2>16 DEF CloudInv
<1> QED
  BY <1>2, <1>3

LEMMA CreateStep ==
  ASSUME CloudInv, NEW w \in Workers, NEW works \in BOOLEAN, CreateFile(w, works)
  PROVE  CloudInv'
<1> DEFINE h == work[w]
           f == work[w].file
           row == [NoFile EXCEPT !.state = "active", !.provider = work[w].provider,
                                 !.at = Leak(w).at, !.ticket = work[w].ticket]
<1>1. /\ work \in [Workers -> Held] /\ files \in [Files -> Rows]
      /\ work[w] \in Held /\ work[w].pc = "stored" /\ Fits(work[w])
      /\ work' = [work EXCEPT ![w] = Idle]
      /\ UNCHANGED <<now, configs, objects, tickets>>
  BY DEF CloudInv, Types, AllFit, CreateFile, Done, Set
<1>2. f \in Files /\ work[w].provider \in Providers /\ work[w].cfg \in Reads
      /\ work[w].ticket \in Tickets \cup {None}
  BY <1>1 DEF Held, Jobs, WithFile, WithProvider
<1>3. /\ Leak(w) = InHand(work[w]) /\ Leak(w) \in Stored /\ Leak(w).file = f
      /\ Leak(w).at \in Places /\ Leak(w).at[1] = work[w].provider
      /\ work[w].provider = Local => Leak(w).at[2] = None
  BY <1>1, <1>2, PlaceIsPlace, InHandStored DEF Leak, InHand, WithFile
<1>4. row \in Rows
  BY <1>2, <1>3 DEF Rows, NoFile
<1>5. /\ files[f].state = "none" /\ Leak(w) \in objects
      /\ \A o \in objects : o.file = f => o = Leak(w)
  BY <1>1, <1>3 DEF Fits
<1>6. \/ files' = [files EXCEPT ![f] = row] /\ leaks' = leaks
      \/ files' = files /\ leaks' = leaks \cup {Leak(w)}
  BY DEF CreateFile
<1>7. /\ row.state = "active" /\ row.provider = work[w].provider
      /\ row.at = Leak(w).at /\ row.ticket = work[w].ticket
  BY DEF NoFile
<1> HIDE DEF row
<1>8. \A v \in Workers : work'[v] = IF v = w THEN Idle ELSE work[v]
  BY <1>1
<1>9. work' \in [Workers -> Held] /\ Idle.pc = "idle"
  BY <1>1, EmptyRows
<1>10. files' \in [Files -> Rows]
       /\ \A g \in Files : g # f => files'[g] = files[g]
  BY <1>1, <1>2, <1>4, <1>6
<1>11. files'[f] = row \/ (files'[f] = files[f] /\ Leak(w) \in leaks')
  BY <1>1, <1>2, <1>6
<1>12. leaks \subseteq leaks' /\ leaks' \subseteq Stored
  BY <1>3, <1>6 DEF CloudInv, Types
<1>13. Types'
  BY <1>1, <1>9, <1>10, <1>12 DEF CloudInv, Types
<1>14. AllFit'
  <2> SUFFICES ASSUME NEW v \in Workers PROVE Fits(work[v])'
    BY DEF AllFit
  <2>1. CASE v = w
    BY <1>8, <1>9, <2>1 DEF Fits
  <2>2. CASE v # w /\ work[v].pc \in WithFile
    <3>1. work'[v] = work[v] /\ Fits(work[v]) /\ work[v].file \in Files
      BY <1>1, <1>8, <2>2 DEF CloudInv, AllFit, Held
    <3>2. work[v].file # f
      BY <1>1, <1>5, <2>2, <3>1 DEF CloudInv, Apart, Fits, WithFile
    <3> QED
      BY <1>1, <1>10, <3>1, <3>2 DEF Fits, InHand
  <2>3. CASE v # w /\ work[v].pc \notin WithFile
    BY <1>8, <2>3 DEF Fits, WithFile
  <2> QED
    BY <2>1, <2>2, <2>3
<1>15. Apart'
  BY <1>8, <1>9 DEF CloudInv, Apart
<1>16. OneDefault'
  BY <1>1 DEF CloudInv, OneDefault, Defaults
<1>17. Placed'
  <2>1. \A g \in Files : g # f => files'[g] = files[g]
    BY <1>10
  <2> QED
    BY <1>1, <1>2, <1>3, <1>5, <1>7, <1>11, <2>1 DEF CloudInv, Placed, Types, Stored
<1>18. Redeemed'
  <2> SUFFICES ASSUME NEW t \in Tickets
      PROVE
       /\ \A v \in Workers : Redeeming(v, t)' => tickets[t].state \in {"used", "gone"}
       /\ \A g \in Files : files'[g].ticket = t => tickets[t].state \in {"used", "gone"}
       /\ \A u, v \in Workers : Redeeming(u, t)' /\ Redeeming(v, t)' => u = v
       /\ \A v \in Workers, g \in Files : ~(Redeeming(v, t)' /\ files'[g].ticket = t)
       /\ \A g, k \in Files : files'[g].ticket = t /\ files'[k].ticket = t => g = k
    BY <1>1 DEF Redeemed
  <2>1. \A v \in Workers : Redeeming(v, t)' => v # w /\ Redeeming(v, t)
    BY <1>8, <1>9 DEF Redeeming
  <2>2. \A g \in Files : files'[g].ticket = t =>
           files[g].ticket = t \/ (g = f /\ Redeeming(w, t))
    BY <1>1, <1>7, <1>10, <1>11 DEF Redeeming
  <2> QED
    BY <2>1, <2>2 DEF CloudInv, Redeemed
<1>19. OfferedFileHasObject'
  <2> SUFFICES ASSUME NEW g \in Files, Offered(g)', ~files'[g].doomed
               PROVE  [file |-> g, at |-> files'[g].at] \in objects
    BY <1>1 DEF OfferedFileHasObject
  <2>1. CASE g = f /\ files'[f] = row
    <3>1. [file |-> f, at |-> Leak(w).at] = Leak(w)
      BY DEF Leak
    <3> QED
      BY <1>5, <1>7, <2>1, <3>1
  <2>2. CASE files'[g] = files[g]
    <3>1. Offered(g)
      BY <1>8, <1>9, <2>2 DEF Offered
    <3> QED
      BY <2>2, <3>1 DEF CloudInv, OfferedFileHasObject
  <2> QED
    BY <1>10, <1>11, <2>1, <2>2
<1>20. ObjectsAccountedFor'
  <2> SUFFICES ASSUME NEW o \in objects
               PROVE  \/ o \in leaks'
                      \/ \E v \in Workers : work'[v].pc = "stored" /\ Leak(v)' = o
                      \/ files'[o.file].state = "active"
                      \/ files'[o.file].strayed
    BY <1>1 DEF ObjectsAccountedFor
  <2>1. o.file \in Files
    BY DEF CloudInv, Types, Stored
  <2>2. CASE o.file = f
    BY <1>5, <1>7, <1>11, <2>2
  <2>3. CASE o.file # f
    <3>1. files'[o.file] = files[o.file] /\ o # Leak(w)
      BY <1>3, <1>10, <2>1, <2>3
    <3>2. \A v \in Workers : v # w => work'[v] = work[v]
      BY <1>8
    <3> QED
      BY <1>12, <3>1, <3>2 DEF CloudInv, ObjectsAccountedFor, Leak
  <2> QED
    BY <2>2, <2>3
<1> QED
  BY <1>13, <1>14, <1>15, <1>16, <1>17, <1>18, <1>19, <1>20 DEF CloudInv

---------------------------------------------------------------------------
(* Deletion and downloads *)

LEMMA FindSteps ==
  ASSUME CloudInv, NEW w \in Workers,
         \/ \E f \in Files : FindForDelete(w, f) \/ FindForDownload(w, f)
         \/ ConfigForDelete(w) \/ Serve(w)
  PROVE  CloudInv'
<1>1. work[w] \in Held /\ files \in [Files -> Rows]
  BY DEF CloudInv, Types
<1>2. ASSUME NEW f \in Files, FindForDelete(w, f)
      PROVE  CloudInv'
  <2> DEFINE h == [Idle EXCEPT !.pc = "found", !.file = f, !.provider = files[f].provider]
  <2>1. /\ files[f].state = "active" /\ work[w].pc = "idle" /\ Set(w, h)
        /\ UNCHANGED <<now, configs, files, objects, tickets, leaks>>
    BY <1>2 DEF FindForDelete
  <2>2. files[f].provider \in Providers
    BY <2>1 DEF CloudInv, Placed
  <2>3. h \in Held /\ h.pc = "found" /\ h.file = f /\ h.provider = files[f].provider
    BY <2>2 DEF Idle, Unread, Reads, Held, Jobs, WithFile, WithProvider
  <2> HIDE DEF h
  <2>4. Fits(h)
    BY <2>1, <2>3 DEF Fits
  <2> QED
    BY <2>1, <2>3, <2>4, ReadingStep
<1>3. ASSUME NEW f \in Files, FindForDownload(w, f)
      PROVE  CloudInv'
  <2> DEFINE h == [Idle EXCEPT !.pc = "serving", !.file = f, !.provider = files[f].provider,
                               !.cfg = ForAccess(files[f].provider)]
  <2>1. /\ files[f].state = "active" /\ work[w].pc = "idle" /\ Set(w, h)
        /\ UNCHANGED <<now, configs, files, objects, tickets, leaks>>
    BY <1>3 DEF FindForDownload
  <2>2. files[f].provider \in Providers
    BY <2>1 DEF CloudInv, Placed
  <2>3. ForAccess(files[f].provider) \in Reads
    BY <2>2, ReadsConfig
  <2>4. h \in Held /\ h.pc = "serving" /\ h.file = f /\ h.provider = files[f].provider
    BY <2>2, <2>3 DEF Idle, Held, Jobs, WithFile, WithProvider
  <2> HIDE DEF h
  <2>5. Fits(h)
    BY <2>1, <2>4 DEF Fits
  <2> QED
    BY <2>1, <2>4, <2>5, ReadingStep
<1>4. CASE ConfigForDelete(w)
  <2> DEFINE h == [work[w] EXCEPT !.pc = "removing", !.cfg = ForAccess(work[w].provider)]
  <2>1. /\ work[w].pc = "found" /\ Set(w, h) /\ Fits(work[w])
        /\ UNCHANGED <<now, configs, files, objects, tickets, leaks>>
    BY <1>4 DEF ConfigForDelete, CloudInv, AllFit
  <2>2. ForAccess(work[w].provider) \in Reads
    BY <1>1, <2>1, ReadsConfig DEF Held, WithProvider, WithFile
  <2>3. h \in Held /\ h.pc = "removing" /\ h.file = work[w].file
        /\ h.provider = work[w].provider
    BY <1>1, <2>1, <2>2 DEF Held, Jobs, WithFile, WithProvider
  <2> HIDE DEF h
  <2>4. Fits(h)
    BY <2>1, <2>3 DEF Fits
  <2> QED
    BY <2>1, <2>3, <2>4, ReadingStep
<1>5. CASE Serve(w)
  BY <1>5, DoneStep DEF Serve
<1> QED
  BY <1>2, <1>3, <1>4, <1>5

(* The handler has found the file's row; the step changes only that row, and *)
(* of it neither the place nor the ticket; objects may only go.             *)
LEMMA RowStep ==
  ASSUME CloudInv, NEW w \in Workers, work[w].pc \in {"removing", "removed"},
         NEW h \in Held, h.pc \in {"idle", "removed"},
         h.pc = "removed" => h.file = work[w].file /\ h.provider = work[w].provider
                             /\ InHand(h) \notin objects',
         work' = [work EXCEPT ![w] = h],
         NEW row \in Rows, row.state \in {"active", "deleted"},
         row.provider = files[work[w].file].provider,
         row.at = files[work[w].file].at, row.ticket = files[work[w].file].ticket,
         row.state = "active" => files[work[w].file].state = "active",
         files[work[w].file].doomed => row.doomed,
         files[work[w].file].strayed => row.strayed,
         files' = [files EXCEPT ![work[w].file] = row],
         objects' \in {objects, objects \ {InHand(work[w])}},
         objects' # objects => row.doomed,
         row.state # files[work[w].file].state
           => row.strayed \/ \A o \in objects' : o.file # work[w].file,
         UNCHANGED <<now, configs, tickets, leaks>>
  PROVE  CloudInv'
<1> DEFINE f == work[w].file
<1>1. /\ work \in [Workers -> Held] /\ files \in [Files -> Rows] /\ f \in Files
      /\ files[f].state # "none" /\ work[w].provider = files[f].provider
      /\ objects' \subseteq objects
  BY DEF CloudInv, Types, AllFit, Fits, Held, WithFile
<1>2. \A v \in Workers : work'[v] = IF v = w THEN h ELSE work[v]
  BY <1>1
<1>3. \A g \in Files : files'[g] = IF g = f THEN row ELSE files[g]
  BY <1>1
<1>4. work' \in [Workers -> Held] /\ files' \in [Files -> Rows]
  BY <1>1
<1>5. \A x \in objects : x.file # f => x \in objects'
  BY DEF InHand
<1>6. Types'
  BY <1>1, <1>4 DEF CloudInv, Types
<1>7. OneDefault'
  BY DEF CloudInv, OneDefault, Defaults
<1>8. AllFit'
  <2> SUFFICES ASSUME NEW v \in Workers PROVE Fits(work[v])'
    BY DEF AllFit
  <2>1. CASE v = w
    BY <1>1, <1>2, <1>3, <2>1 DEF Fits, InHand
  <2>2. CASE v # w /\ work[v].pc = "stored"
    <3>1. work'[v] = work[v] /\ Fits(work[v]) /\ work[v].file \in Files
      BY <1>1, <1>2, <2>2 DEF CloudInv, AllFit, Held, WithFile
    <3>2. work[v].file # f
      BY <1>1, <2>2, <3>1 DEF Fits
    <3> QED
      BY <1>1, <1>3, <1>5, <2>2, <3>1, <3>2 DEF Fits, InHand
  <2>3. CASE v # w /\ work[v].pc \in WithFile \ {"stored"}
    <3>1. work'[v] = work[v] /\ Fits(work[v]) /\ work[v].file \in Files
      BY <1>1, <1>2, <2>3 DEF CloudInv, AllFit, Held
    <3> QED
      BY <1>1, <1>3, <2>3, <3>1 DEF Fits, InHand, WithFile
  <2>4. CASE v # w /\ work[v].pc \notin WithFile
    BY <1>2, <2>4 DEF Fits, WithFile
  <2> QED
    BY <2>1, <2>2, <2>3, <2>4
<1>9. Apart'
  BY <1>2 DEF CloudInv, Apart
<1>10. Placed'
  BY <1>1, <1>3 DEF CloudInv, Placed, Types, Stored
<1>11. Redeemed'
  <2>1. \A v \in Workers, t \in Tickets : Redeeming(v, t)' => Redeeming(v, t)
    BY <1>2 DEF Redeeming
  <2>2. \A g \in Files : files'[g].ticket = files[g].ticket
    BY <1>3
  <2> QED
    BY <2>1, <2>2 DEF CloudInv, Redeemed
<1>12. OfferedFileHasObject'
  <2> SUFFICES ASSUME NEW g \in Files, Offered(g)', ~files'[g].doomed
               PROVE  [file |-> g, at |-> files'[g].at] \in objects'
    BY DEF OfferedFileHasObject
  <2>1. Offered(g)
    BY <1>1, <1>2, <1>3 DEF Offered
  <2>2. files'[g].at = files[g].at /\ ~files[g].doomed
    BY <1>3
  <2>3. [file |-> g, at |-> files[g].at] \in objects
    BY <2>1, <2>2 DEF CloudInv, OfferedFileHasObject
  <2>4. CASE g = f
    BY <1>3, <2>2, <2>3, <2>4
  <2>5. CASE g # f
    BY <1>5, <2>2, <2>3, <2>5
  <2> QED
    BY <2>4, <2>5
<1>13. ObjectsAccountedFor'
  <2> SUFFICES ASSUME NEW o \in objects'
               PROVE  \/ o \in leaks
                      \/ \E v \in Workers : work'[v].pc = "stored" /\ Leak(v)' = o
                      \/ files'[o.file].state = "active"
                      \/ files'[o.file].strayed
    BY DEF ObjectsAccountedFor
  <2>1. o \in objects /\ o.file \in Files
    BY <1>1 DEF CloudInv, Types, Stored
  <2>2. \A v \in Workers : work[v].pc = "stored" => Leak(v)' = Leak(v)
                                               /\ work'[v].pc = "stored"
    BY <1>2 DEF Leak
  <2>3. \/ o \in leaks
        \/ \E v \in Workers : work[v].pc = "stored" /\ Leak(v) = o
        \/ files[o.file].state = "active"
        \/ files[o.file].strayed
    BY <2>1 DEF CloudInv, ObjectsAccountedFor
  <2>4. CASE o.file = f
    BY <1>1, <1>3, <2>1, <2>2, <2>3, <2>4
  <2>5. CASE o.file # f
    BY <1>3, <2>1, <2>2, <2>3, <2>5
  <2> QED
    BY <2>4, <2>5
<1> QED
  BY <1>6, <1>7, <1>8, <1>9, <1>10, <1>11, <1>12, <1>13 DEF CloudInv

LEMMA DeleteSteps ==
  ASSUME CloudInv, NEW w \in Workers, DeleteObject(w) \/ MarkFileDeleted(w)
  PROVE  CloudInv'
<1> DEFINE f == work[w].file
<1>1. /\ work \in [Workers -> Held] /\ files \in [Files -> Rows]
      /\ work[w] \in Held /\ Fits(work[w]) /\ work[w].pc \in {"removing", "removed"}
  BY DEF CloudInv, Types, AllFit, DeleteObject, MarkFileDeleted
<1>2. /\ f \in Files /\ files[f] \in Rows /\ files[f].state \in {"active", "deleted"}
      /\ work[w].provider = files[f].provider
  BY <1>1 DEF Held, WithFile, Fits, Rows
<1>3. CASE DeleteObject(w)
  <2>1. PICK e \in Outcomes(work[w].provider) :
          /\ objects' = IF e[1] THEN objects \ {Leak(w)} ELSE objects
          /\ files' = [files EXCEPT ![f].doomed = @ \/ e[1]]
          /\ IF e[2] THEN Set(w, [work[w] EXCEPT !.pc = "removed"]) ELSE Done(w)
    BY <1>3 DEF DeleteObject, Removal
  <2> DEFINE s == [work[w] EXCEPT !.pc = "removed"]
             d == files[f].doomed \/ e[1]
             row == [files[f] EXCEPT !.doomed = d]
  <2>2. s \in Held /\ s.pc = "removed" /\ s.file = f /\ s.provider = work[w].provider
        /\ s.cfg = work[w].cfg
    BY <1>1, <1>2 DEF Held, Jobs, WithFile, WithProvider
  <2>3. InHand(s) = InHand(work[w]) /\ Leak(w) = InHand(work[w])
    BY <2>2 DEF InHand, Leak
  <2>4. files' = [files EXCEPT ![f] = row] /\ d \in BOOLEAN
    BY <1>1, <2>1
  <2> HIDE DEF s
  <2>5. e[2] => e[1]
    <3>1. e = <<TRUE, TRUE>> \/ e = <<FALSE, FALSE>> \/ e = <<TRUE, FALSE>>
      BY DEF Outcomes
    <3>2. CASE e = <<TRUE, TRUE>>
      BY <3>2
    <3>3. CASE e = <<FALSE, FALSE>>
      BY <3>3
    <3>4. CASE e = <<TRUE, FALSE>>
      BY <3>4
    <3> QED
      BY <3>1, <3>2, <3>3, <3>4
  <2>6. e[1] => d
    OBVIOUS
  <2>7. files[f].doomed => d
    OBVIOUS
  <2> HIDE DEF d
  <2>8. /\ row \in Rows /\ row.state = files[f].state /\ row.provider = files[f].provider
        /\ row.at = files[f].at /\ row.ticket = files[f].ticket /\ row.doomed = d
        /\ row.strayed = files[f].strayed
    BY <1>2, <2>4 DEF Rows
  <2> HIDE DEF row
  <2>9. objects' \in {objects, objects \ {InHand(work[w])}} /\ (objects' # objects => d)
    BY <2>1, <2>3, <2>6
  <2>10. UNCHANGED <<now, configs, tickets, leaks>>
    BY <1>3 DEF DeleteObject
  <2>11. CASE e[2]
    <3>1. work' = [work EXCEPT ![w] = s] /\ InHand(s) \notin objects'
      BY <2>1, <2>3, <2>5, <2>11 DEF Set, s
    <3> QED
      BY <1>1, <1>2, <2>2, <2>4, <2>7, <2>8, <2>9, <2>10, <3>1, RowStep
  <2>12. CASE ~e[2]
    <3>1. work' = [work EXCEPT ![w] = Idle]
      BY <2>1, <2>12 DEF Done, Set
    <3> QED
      BY <1>1, <1>2, <2>4, <2>7, <2>8, <2>9, <2>10, <3>1, EmptyRows, RowStep
  <2> QED
    BY <2>11, <2>12
<1>4. CASE MarkFileDeleted(w)
  <2> DEFINE row == [files[f] EXCEPT !.state = "deleted",
                                     !.strayed = @ \/ Leak(w).at # files[f].at]
  <2>1. /\ row \in Rows /\ row.state = "deleted" /\ row.provider = files[f].provider
        /\ row.at = files[f].at /\ row.ticket = files[f].ticket
        /\ row.doomed = files[f].doomed
        /\ row.strayed <=> files[f].strayed \/ Leak(w).at # files[f].at
    BY <1>2 DEF Rows
  <2>2. files' = [files EXCEPT ![f] = row]
    BY <1>1, <1>4 DEF MarkFileDeleted
  <2>3. /\ work[w].pc = "removed" /\ work' = [work EXCEPT ![w] = Idle]
        /\ UNCHANGED <<now, configs, objects, tickets, leaks>>
    BY <1>4 DEF MarkFileDeleted, Done, Set
  <2>4. ASSUME ~row.strayed, NEW o \in objects, o.file = f
        PROVE  FALSE
    <3>1. Leak(w).at = files[f].at /\ o.at = files[f].at
      BY <1>2, <2>1, <2>4 DEF CloudInv, Placed
    <3>2. InHand(work[w]) \notin objects /\ InHand(work[w]) = Leak(w)
      BY <1>1, <2>3 DEF Fits, InHand, Leak
    <3>3. o = [file |-> o.file, at |-> o.at]
      BY DEF CloudInv, Types, Stored
    <3>4. Leak(w) = [file |-> f, at |-> Leak(w).at]
      BY DEF Leak
    <3> QED
      BY <2>4, <3>1, <3>2, <3>3, <3>4
  <2> HIDE DEF row
  <2> QED
    BY <1>1, <1>2, <2>1, <2>2, <2>3, <2>4, EmptyRows, RowStep
<1> QED
  BY <1>3, <1>4

---------------------------------------------------------------------------
(* Steps of no handler *)

LEMMA CleanupStep ==
  ASSUME CloudInv, CleanupTickets
  PROVE  CloudInv'
<1>1. tickets \in [Tickets -> Slips] /\ UNCHANGED <<now, configs, files, objects, work, leaks>>
  BY DEF CloudInv, Types, CleanupTickets
<1> DEFINE gone == [NoTicket EXCEPT !.state = "gone"]
<1>2. gone \in Slips /\ gone.state = "gone"
  BY DEF NoTicket, Slips
<1>3. \A t \in Tickets : tickets'[t] = gone \/ tickets'[t] = tickets[t]
  BY DEF CleanupTickets
<1>4. tickets' = [t \in Tickets |-> tickets'[t]]
  BY DEF CleanupTickets
<1> HIDE DEF gone
<1>5. tickets' \in [Tickets -> Slips]
  BY <1>1, <1>2, <1>3, <1>4
<1>6. Types'
  BY <1>1, <1>5 DEF CloudInv, Types
<1>7. OneDefault' /\ AllFit' /\ Apart' /\ Placed'
  BY <1>1 DEF CloudInv, OneDefault, Defaults, AllFit, Fits, InHand, Apart, Placed
<1>8. Redeemed'
  BY <1>1, <1>2, <1>3 DEF CloudInv, Redeemed, Redeeming
<1>9. OfferedFileHasObject' /\ ObjectsAccountedFor'
  BY <1>1 DEF CloudInv, OfferedFileHasObject, Offered, ObjectsAccountedFor, Leak
<1> QED
  BY <1>6, <1>7, <1>8, <1>9 DEF CloudInv

LEMMA StutterStep ==
  ASSUME CloudInv, now' \in 1..MaxTime,
         UNCHANGED <<configs, files, objects, tickets, work, leaks>>
  PROVE  CloudInv'
<1>1. Types'
  BY DEF CloudInv, Types
<1>2. OneDefault' /\ AllFit' /\ Apart' /\ Placed' /\ Redeemed'
  BY DEF CloudInv, OneDefault, Defaults, AllFit, Fits, InHand, Apart, Placed,
         Redeemed, Redeeming
<1>3. OfferedFileHasObject' /\ ObjectsAccountedFor'
  BY DEF CloudInv, OfferedFileHasObject, Offered, ObjectsAccountedFor, Leak
<1> QED
  BY <1>1, <1>2, <1>3 DEF CloudInv

LEMMA RestartStep ==
  ASSUME CloudInv, Restart
  PROVE  CloudInv'
<1>1. /\ work \in [Workers -> Held]
      /\ UNCHANGED <<now, configs, files, objects, tickets>>
  BY DEF CloudInv, Types, Restart
<1>2. \A w \in Workers : work'[w] = Idle /\ work'[w].pc = "idle"
  BY EmptyRows DEF Restart
<1>3. \A w \in Workers : work[w].pc = "stored" => Leak(w) \in leaks'
  BY DEF Restart
<1>4. leaks \subseteq leaks'
  BY DEF Restart
<1>5. leaks' \subseteq Stored
  <2>1. \A w \in Workers : work[w].pc = "stored" => Leak(w) \in Stored
    <3> SUFFICES ASSUME NEW w \in Workers, work[w].pc = "stored"
                 PROVE  Leak(w) \in Stored
      OBVIOUS
    <3>1. InHand(work[w]) \in Stored
      BY <1>1, InHandStored DEF WithFile
    <3> QED
      BY <3>1 DEF InHand, Leak
  <2> QED
    BY <2>1 DEF Restart, CloudInv, Types
<1>6. work' \in [Workers -> Held]
  BY EmptyRows DEF Restart
<1>7. Types'
  BY <1>1, <1>5, <1>6 DEF CloudInv, Types
<1>8. OneDefault' /\ AllFit' /\ Apart' /\ Placed'
  BY <1>1, <1>2 DEF CloudInv, OneDefault, Defaults, AllFit, Fits, Apart, Placed
<1>9. Redeemed'
  BY <1>1, <1>2 DEF CloudInv, Redeemed, Redeeming
<1>10. OfferedFileHasObject'
  BY <1>1, <1>2 DEF CloudInv, OfferedFileHasObject, Offered
<1>11. ObjectsAccountedFor'
  BY <1>1, <1>3, <1>4 DEF CloudInv, ObjectsAccountedFor
<1> QED
  BY <1>7, <1>8, <1>9, <1>10, <1>11 DEF CloudInv

LEMMA CloudStep == CloudInv /\ [Next]_vars => CloudInv'
<1> SUFFICES ASSUME CloudInv, [Next]_vars PROVE CloudInv'
  OBVIOUS
<1>1. now \in 1..MaxTime /\ MaxTime \in Nat
  BY Given DEF CloudInv, Types
<1>2. ASSUME NEW w \in Workers, WorkerStep(w)
      PROVE  CloudInv'
  BY <1>2, ConfigSteps, TicketSteps, StoreStep, CreateStep, FindSteps, DeleteSteps
     DEF WorkerStep
<1>3. CASE Tick
  <2>1. now' \in 1..MaxTime
    BY <1>1, <1>3 DEF Tick
  <2> QED
    BY <1>3, <2>1, StutterStep DEF Tick
<1>4. CASE UNCHANGED vars
  BY <1>1, <1>4, StutterStep DEF vars
<1> QED
  BY <1>2, <1>3, <1>4, CleanupStep, RestartStep DEF Next

---------------------------------------------------------------------------
(* Theorems *)

LEMMA CloudAlways == Spec => []CloudInv
<1> QED
  BY CloudInit, CloudStep, PTL DEF Spec

(* What the tables, storage and the handlers hold keeps its type.           *)
THEOREM CloudTypes == Spec => []TypeOK
<1>1. CloudInv => TypeOK
  BY DEF CloudInv, Types, TypeOK, Configs, Rows, Stored, Slips, Reads, Jobs, Held
<1> QED
  BY <1>1, CloudAlways, PTL

(* However many uploads present a ticket at once and whenever the server    *)
(* stops, a ticket yields one file.                                         *)
THEOREM TicketsYieldOneFile == Spec => []OneFilePerTicket
<1>1. CloudInv => OneFilePerTicket
  <2> SUFFICES ASSUME CloudInv, NEW t \in Tickets
               PROVE  Cardinality({f \in Files : files[f].ticket = t}
                   \cup {work[w].file : w \in {v \in Workers :
                           work[v].pc = "stored" /\ work[v].ticket = t}}) <= 1
    BY DEF OneFilePerTicket
  <2> DEFINE S == {f \in Files : files[f].ticket = t}
                   \cup {work[w].file : w \in {v \in Workers :
                           work[v].pc = "stored" /\ work[v].ticket = t}}
  <2>1. \A w \in Workers : work[w].pc = "stored" /\ work[w].ticket = t
                            => Redeeming(w, t)
    BY DEF Redeeming
  <2>2. \A x, y \in S : x = y
    BY <2>1 DEF CloudInv, Redeemed
  <2> HIDE DEF S
  <2>3. CASE S = {}
    BY <2>3, FS_EmptySet DEF S
  <2>4. CASE S # {}
    <3>1. PICK x : S = {x}
      BY <2>2, <2>4
    <3> QED
      BY <3>1, FS_Singleton DEF S
  <2> QED
    BY <2>3, <2>4
<1> QED
  BY <1>1, CloudAlways, PTL

(* A file on offer has its object, unless a deletion of it has begun.       *)
THEOREM OfferedFilesExist == Spec => []OfferedFileHasObject
<1>1. CloudInv => OfferedFileHasObject
  BY DEF CloudInv
<1> QED
  BY <1>1, CloudAlways, PTL

(* Every object left in storage is accounted for by a table, by a handler,  *)
(* by a failed upload or by a bucket the configuration no longer names.     *)
THEOREM StorageIsAccountedFor == Spec => []ObjectsAccountedFor
<1>1. CloudInv => ObjectsAccountedFor
  BY DEF CloudInv
<1> QED
  BY <1>1, CloudAlways, PTL

(* The statements that write configurations.                                *)
LEMMA ConfigWrites ==
  ASSUME [Next]_vars
  PROVE  \/ configs' = configs
         \/ \E w \in Workers : \/ UpsertLocal(w) \/ UpsertConfig(w)
                               \/ DefaultToLocal(w) \/ SetDefaultConfig(w)
<1>1. ASSUME NEW w \in Workers, WorkerStep(w)
      PROVE  \/ configs' = configs
             \/ UpsertLocal(w) \/ UpsertConfig(w) \/ DefaultToLocal(w) \/ SetDefaultConfig(w)
  BY <1>1 DEF WorkerStep, EnsureLocalConfig, FindDefault, ShowPage, ReadForSave,
     CreateUploadTicket, FindTicket, TakeDefaultForBase64, ReadTicketConfig,
     MarkTicketUsed, StoreObject, CreateFile, FindForDelete, FindForDownload,
     ConfigForDelete, DeleteObject, MarkFileDeleted, Serve
<1>2. CleanupTickets \/ Tick \/ Restart \/ UNCHANGED vars => configs' = configs
  BY DEF CleanupTickets, Tick, Restart, vars
<1> QED
  BY <1>1, <1>2 DEF Next

LEMMA LocalUpsert ==
  ASSUME CloudInv, NEW w \in Workers, UpsertLocal(w)
  PROVE  /\ Defaults' = Defaults
         /\ \A p \in Remotes : configs'[p] = configs[p]
<1> DEFINE row == [NoConfig EXCEPT !.there = TRUE, !.on = TRUE,
                                   !.default = configs[Local].default]
<1>1. configs \in [Providers -> Configs] /\ configs' = [configs EXCEPT ![Local] = row]
  BY DEF CloudInv, Types, UpsertLocal
<1>2. row \in Configs /\ row.default = configs[Local].default
  BY <1>1, Given DEF NoConfig, Configs
<1> HIDE DEF row
<1>3. \A p \in Remotes : configs'[p] = configs[p]
  BY <1>1, Given
<1> QED
  BY <1>1, <1>2, <1>3, Given, DefaultKept

LEMMA ConfigUpsert ==
  ASSUME CloudInv, NEW w \in Workers, UpsertConfig(w)
  PROVE  /\ Defaults' = Defaults
         /\ work[w].pc = "saving" /\ work[w].ask.provider \in Providers
         /\ \A p \in Providers : p # work[w].ask.provider => configs'[p] = configs[p]
         /\ configs'[work[w].ask.provider].secret = SavedSecret(work[w].ask, work[w].cfg)
<1> DEFINE ask == work[w].ask
           secret == SavedSecret(ask, work[w].cfg)
           row == [there |-> TRUE, on |-> ask.on, bucket |-> ask.bucket,
                   secret |-> secret, default |-> configs[ask.provider].default]
<1>1. configs \in [Providers -> Configs] /\ work[w] \in Held /\ work[w].pc = "saving"
  BY DEF CloudInv, Types, UpsertConfig
<1>2. ask \in Saves /\ ask.provider \in Providers
  BY <1>1, Given DEF Held
<1>3. configs' = [configs EXCEPT ![ask.provider] = row]
  BY DEF UpsertConfig
<1>4. secret \in BOOLEAN /\ configs[ask.provider].default \in BOOLEAN
  BY <1>1, <1>2 DEF SavedSecret, Configs
<1>5. row \in Configs /\ row.default = configs[ask.provider].default /\ row.secret = secret
  <2> HIDE DEF secret
  <2> QED
    BY <1>2, <1>4, Given DEF Configs
<1> HIDE DEF row
<1>6. Defaults' = Defaults
  BY <1>2, <1>3, <1>5, DefaultKept
<1>7. configs'[ask.provider] = row
      /\ \A p \in Providers : p # ask.provider => configs'[p] = configs[p]
  BY <1>1, <1>2, <1>3
<1> QED
  BY <1>1, <1>2, <1>5, <1>6, <1>7

LEMMA DefaultWrites ==
  ASSUME CloudInv, NEW w \in Workers, DefaultToLocal(w) \/ SetDefaultConfig(w)
  PROVE  \E p \in Providers : SetDefault(p)
<1>1. work[w] \in Held
  BY DEF CloudInv, Types
<1>2. CASE DefaultToLocal(w)
  BY <1>2, Given DEF DefaultToLocal
<1>3. CASE SetDefaultConfig(w)
  BY <1>1, <1>3, Given DEF SetDefaultConfig, Held
<1> QED
  BY <1>2, <1>3

(* Once there is a default there always is exactly one, whatever saves and  *)
(* page loads overlap.                                                      *)
THEOREM DefaultIsKept == Spec => OneDefaultKept
<1>1. ASSUME CloudInv, CloudInv', [Next]_vars
      PROVE  /\ Defaults # {} => Defaults' # {}
             /\ \A p, q \in Defaults' : p = q
  <2>1. \A p, q \in Defaults' : p = q
    BY <1>1 DEF CloudInv, OneDefault
  <2>2. CASE configs' = configs
    BY <2>1, <2>2 DEF Defaults
  <2>3. ASSUME NEW w \in Workers, UpsertLocal(w) \/ UpsertConfig(w)
        PROVE  Defaults' = Defaults
    BY <1>1, <2>3, LocalUpsert, ConfigUpsert
  <2>4. ASSUME NEW w \in Workers, DefaultToLocal(w) \/ SetDefaultConfig(w)
        PROVE  Defaults' # {}
    BY <1>1, <2>4, DefaultWrites, DefaultSet
  <2> QED
    BY <1>1, <2>1, <2>2, <2>3, <2>4, ConfigWrites
<1> QED
  BY <1>1, CloudAlways, PTL DEF OneDefaultKept, Spec

(* A stored secret disappears only by a save that had read the row before   *)
(* the secret was there.                                                    *)
THEOREM SecretsOutliveFreshSaves == Spec => SecretErasedOnlyByStaleSave
<1>1. ASSUME CloudInv, [Next]_vars
      PROVE  \A p \in Remotes : configs[p].secret /\ ~configs'[p].secret
                => \E w \in Workers : /\ work[w].pc = "saving"
                                      /\ work[w].ask.provider = p
                                      /\ ~work[w].cfg.secret
  <2> SUFFICES ASSUME NEW p \in Remotes, configs[p].secret, ~configs'[p].secret
               PROVE  \E w \in Workers : /\ work[w].pc = "saving"
                                         /\ work[w].ask.provider = p
                                         /\ ~work[w].cfg.secret
    OBVIOUS
  <2>1. p \in Providers /\ p # Local
    BY Given
  <2>2. ASSUME NEW w \in Workers, UpsertLocal(w)
        PROVE  FALSE
    BY <1>1, <2>2, LocalUpsert
  <2>3. ASSUME NEW w \in Workers, DefaultToLocal(w) \/ SetDefaultConfig(w)
        PROVE  FALSE
    <3>1. PICK q \in Providers : SetDefault(q)
      BY <1>1, <2>3, DefaultWrites
    <3>2. configs'[p] = [configs[p] EXCEPT !.default = (p = q)]
      BY <2>1, <3>1 DEF SetDefault
    <3>3. configs'[p].secret = configs[p].secret
      BY <1>1, <2>1, <3>2 DEF CloudInv, Types, Configs
    <3> QED
      BY <3>3
  <2>4. ASSUME NEW w \in Workers, UpsertConfig(w)
        PROVE  /\ work[w].pc = "saving" /\ work[w].ask.provider = p
               /\ ~work[w].cfg.secret
    <3>1. work[w].pc = "saving" /\ work[w].ask.provider = p
      BY <1>1, <2>1, <2>4, ConfigUpsert
    <3>2. ~SavedSecret(work[w].ask, work[w].cfg)
      BY <1>1, <2>4, <3>1, ConfigUpsert
    <3> QED
      BY <2>1, <3>1, <3>2 DEF SavedSecret
  <2> QED
    BY <1>1, <2>2, <2>3, <2>4, ConfigWrites
<1> QED
  BY <1>1, CloudAlways, PTL DEF SecretErasedOnlyByStaleSave, Spec
=============================================================================
