------------------------ MODULE ServiceProcessProofs ------------------------
(***************************************************************************)
(* Proofs about ServiceProcess, for any requests and events and any number *)
(* of restarts.                                                            *)
(***************************************************************************)
EXTENDS ServiceProcess, TLAPS

(* The server listens, and main waits for it, with everything open. *)
SetupInv == phase \in {"serving", "stopping"} => opened = Len(Main.setup)

(* What the collector holds about a request or an event follows from where  *)
(* the request or event is.                                                 *)
JobInv ==
  /\ \A r \in Requests : job[r] \in {"observed", "done"} =>
       \E status \in {"ok", "error"} : <<r, status>> \in observed
  /\ \A r \in Requests \cap Main.counts :
       job[r] = "ok" \/ <<r, "ok">> \in observed => r \in counted
  /\ \A j \in Jobs : job[j] = "stored" => j \in stored
  /\ counted \subseteq stored

(* While a scrape holds a lock, what the lock protects is what the scrape   *)
(* has printed or will print.                                               *)
ScrapeInv ==
  /\ scrape.at # "idle" =>
       /\ scrape.total = observed
       /\ \A r \in scrape.before : \E status \in {"ok", "error"} : <<r, status>> \in observed
  /\ scrape.at \in {"histogram", "business"} => scrape.histogram = observed
  /\ scrape.at = "business" => scrape.business = counted

IInv == TypeOK /\ SetupInv /\ JobInv /\ ScrapeInv /\ CleanExit

-----------------------------------------------------------------------------
Steps == {"telemetry", "signals", "pool", "redis", "publisher", "consumer", "publish", "consume"}

(* The seven programs are lists of steps, and no step changes the program.  *)
LEMMA MainIs ==
  ASSUME service \in Services
  PROVE  /\ Main.setup \in Seq(Steps) /\ Len(Main.setup) \in Nat
         /\ DOMAIN Main.setup = 1..Len(Main.setup)
<1>1. Main.setup \in Seq(Steps)
  <2>1. Main \in {OrderMain, PaymentMain, InventoryMain, NotificationMain, CartMain,
                  CatalogMain, BffMain}
    BY DEF Services, Main
  <2>2. OrderMain.setup \in Seq(Steps) /\ PaymentMain.setup \in Seq(Steps)
    BY DEF OrderMain, PaymentMain, Steps
  <2>3. InventoryMain.setup \in Seq(Steps) /\ NotificationMain.setup \in Seq(Steps)
    BY DEF InventoryMain, NotificationMain, Steps
  <2>4. /\ CartMain.setup \in Seq(Steps) /\ CatalogMain.setup \in Seq(Steps)
        /\ BffMain.setup \in Seq(Steps)
    BY DEF CartMain, CatalogMain, BffMain, Steps
  <2>. QED
    BY <2>1, <2>2, <2>3, <2>4
<1>. QED
  BY <1>1

LEMMA MainStays == service' = service => Main' = Main
BY DEF Main, OrderMain, PaymentMain, InventoryMain, NotificationMain,
       CartMain, CatalogMain, BffMain

LEMMA InitIInv == Init => IInv
<1>. SUFFICES ASSUME Init PROVE IInv
  OBVIOUS
<1>. USE DEF Init, Metrics!Init, Metrics!NoScrape
<1>1. Len(Main.setup) \in Nat
  BY MainIs
<1>2. TypeOK
  <2>1. Metrics!TypeOK
    BY DEF Metrics!TypeOK
  <2>2. opened \in 0..Len(Main.setup) /\ starts \in 0..MaxStarts
    BY <1>1, BoundsAssumption
  <2>. QED
    BY <2>1, <2>2 DEF TypeOK
<1>3. SetupInv /\ JobInv /\ ScrapeInv /\ CleanExit
  BY DEF SetupInv, JobInv, ScrapeInv, CleanExit, Jobs
<1>. QED
  BY <1>2, <1>3 DEF IInv

(* A new process starts from nothing, what is stored apart. *)
LEMMA DieKeeps ==
  ASSUME IInv, Die
  PROVE  IInv'
<1>0. Main' = Main /\ Len(Main.setup) \in Nat /\ TypeOK
  BY MainStays, MainIs DEF Die, IInv, TypeOK
<1>1. TypeOK'
  <2>1. Metrics!TypeOK'
    BY DEF Die, Metrics!TypeOK, Metrics!NoScrape
  <2>2. opened' \in 0..Len(Main.setup)' /\ starts' \in 0..MaxStarts
    BY <1>0 DEF Die, TypeOK
  <2>3. job' \in [Jobs -> {"none", "accepted", "tx", "stored", "ok", "error",
                           "observed", "done", "skipped", "over"}]
    BY <1>0 DEF Die
  <2>. QED
    BY <1>0, <2>1, <2>2, <2>3 DEF Die, TypeOK
<1>2. SetupInv' /\ ScrapeInv' /\ CleanExit'
  BY <1>0 DEF Die, SetupInv, ScrapeInv, CleanExit, Metrics!NoScrape
<1>3. JobInv'
  <2>1. \A j \in Jobs : job'[j] \in {"none", "over", "done"} /\ (j \in Requests => job'[j] # "done")
    BY <1>0, JobsAssumption DEF Die, Jobs
  <2>. QED
    BY <1>0, <2>1 DEF Die, JobInv, Jobs
<1>. QED
  BY <1>1, <1>2, <1>3 DEF IInv

(* The steps of main that only move main. *)
LEMMA MainStep ==
  ASSUME IInv, UNCHANGED <<service, job, stored, polling, collectorVars>>,
         phase' \in {"down", "starting", "serving", "stopping", "closing"},
         opened' \in 0..Len(Main.setup), told' \in BOOLEAN, expired' \in BOOLEAN,
         starts' \in 0..MaxStarts, SetupInv',
         phase' = "closing" =>
           /\ ~expired' => Underway = {}
           /\ \A i \in opened'+1..Len(Main.setup) : Main.setup[i] = "pool" => InUse = {}
  PROVE  IInv'
<1>0. Main' = Main /\ TypeOK /\ Len(Main.setup) \in Nat
  BY MainStays, MainIs DEF IInv, TypeOK
<1>1. TypeOK'
  <2>1. Metrics!TypeOK'
    BY <1>0 DEF TypeOK, Metrics!TypeOK, collectorVars
  <2>. QED
    BY <1>0, <2>1 DEF TypeOK
<1>2. JobInv' /\ ScrapeInv'
  BY <1>0 DEF IInv, JobInv, ScrapeInv, collectorVars
<1>3. CleanExit'
  BY <1>0 DEF CleanExit, Underway, InUse
<1>. QED
  BY <1>1, <1>2, <1>3 DEF IInv

LEMMA MainKeeps ==
  ASSUME IInv, Launch \/ RunMain \/ Signal \/ Crash
  PROVE  IInv'
<1>0. /\ TypeOK /\ SetupInv /\ CleanExit /\ Len(Main.setup) \in Nat
      /\ phase \in {"down", "starting", "serving", "stopping", "closing"}
      /\ opened \in 0..Len(Main.setup) /\ starts \in 0..MaxStarts
      /\ told \in BOOLEAN /\ expired \in BOOLEAN
  BY MainIs DEF IInv, TypeOK
<1>s. service' = service => Main' = Main
  BY MainStays
<1>c. phase = "closing" =>
        /\ ~expired => Underway = {}
        /\ \A i \in opened+1..Len(Main.setup) : Main.setup[i] = "pool" => InUse = {}
  BY <1>0 DEF CleanExit
<1>1. CASE Launch
  <2>1. starts' \in 0..MaxStarts
    BY <1>0, <1>1, BoundsAssumption DEF Launch
  <2>. QED
    BY <1>0, <1>1, <1>s, <2>1, MainStep DEF Launch, SetupInv
<1>2. CASE OpenNext
  <2>1. opened' \in 0..Len(Main.setup)
    BY <1>0, <1>2 DEF OpenNext
  <2>. QED
    BY <1>0, <1>2, <1>s, <2>1, MainStep DEF OpenNext, SetupInv
<1>3. CASE Listen
  BY <1>0, <1>3, <1>s, MainStep DEF Listen, SetupInv
<1>4. CASE BeginShutdown
  BY <1>0, <1>4, <1>s, MainStep DEF BeginShutdown, SetupInv
<1>5. CASE ShutdownReturns
  <2>1. opened+1..Len(Main.setup) = {}
    BY <1>0, <1>5 DEF ShutdownReturns, SetupInv
  <2>. QED
    BY <1>0, <1>5, <2>1, MainStep DEF ShutdownReturns, SetupInv
<1>6. CASE LimitPasses
  <2>1. opened+1..Len(Main.setup) = {}
    BY <1>0, <1>6 DEF LimitPasses, SetupInv
  <2>. QED
    BY <1>0, <1>6, <2>1, MainStep DEF LimitPasses, SetupInv
<1>7. CASE CloseLast
  <2>1. opened' \in 0..Len(Main.setup)
    BY <1>0, <1>7 DEF CloseLast
  <2>2. \A i \in opened'+1..Len(Main.setup) : i = opened \/ i \in opened+1..Len(Main.setup)
    BY <1>0, <1>7 DEF CloseLast
  <2>3. \A i \in opened'+1..Len(Main.setup) : Main.setup[i] = "pool" => InUse = {}
    BY <1>7, <1>c, <2>2 DEF CloseLast
  <2>. QED
    BY <1>0, <1>7, <1>c, <2>1, <2>3, MainStep DEF CloseLast, SetupInv
<1>8. CASE Signal /\ ~Die
  BY <1>0, <1>8, <1>c, <1>s, MainStep DEF Signal, SetupInv
<1>9. CASE Die
  BY <1>9, DieKeeps
<1>. QED
  BY <1>1, <1>2, <1>3, <1>4, <1>5, <1>6, <1>7, <1>8, <1>9 DEF RunMain, OpenFails, Return, Crash

-----------------------------------------------------------------------------
(* While main stays where it is, an exit stays clean if no request is       *)
(* accepted and no connection is taken from a pool that is closed.          *)
LEMMA ExitStaysClean ==
  ASSUME TypeOK, CleanExit, UNCHANGED mainVars,
         Underway' \subseteq Underway \/ phase # "closing",
         InUse' \subseteq InUse \/ Connects
  PROVE  CleanExit' /\ (SetupInv => SetupInv')
<1>0. /\ Main' = Main /\ Len(Main.setup) \in Nat /\ DOMAIN Main.setup = 1..Len(Main.setup)
      /\ opened \in 0..Len(Main.setup)
      /\ phase' = phase /\ opened' = opened /\ expired' = expired
  BY MainStays, MainIs DEF mainVars, TypeOK
<1>1. ASSUME phase = "closing", NEW i \in opened+1..Len(Main.setup), Main.setup[i] = "pool"
      PROVE  InUse' = {}
  <2>1. ~Connects
    BY <1>0, <1>1 DEF Connects
  <2>. QED
    BY <1>1, <2>1 DEF CleanExit
<1>2. ASSUME phase = "closing", ~expired
      PROVE  Underway' = {}
  BY <1>2 DEF CleanExit
<1>. QED
  BY <1>0, <1>1, <1>2 DEF CleanExit, SetupInv

(* A step that moves one request or event and nothing else. *)
LEMMA JobMoves ==
  ASSUME IInv, NEW j \in Jobs, NEW b, Goto(j, b),
         b \in {"accepted", "tx", "stored", "ok", "error", "observed", "done", "skipped"},
         UNCHANGED <<mainVars, polling, collectorVars>>,
         stored \subseteq stored', stored' \subseteq Jobs,
         job[j] \in {"none", "done", "over"} => phase # "closing" \/ j \notin Requests,
         b = "tx" => Connects,
         b \in {"observed", "done"} /\ j \in Requests =>
           \E status \in {"ok", "error"} : <<j, status>> \in observed,
         b = "ok" => j \notin Main.counts,
         b = "stored" => j \in stored'
  PROVE  IInv'
<1>0. Main' = Main /\ TypeOK /\ SetupInv /\ JobInv /\ ScrapeInv /\ CleanExit
  BY MainStays DEF IInv, mainVars
<1>1. job'[j] = b /\ \A k \in Jobs \ {j} : job'[k] = job[k]
  BY <1>0 DEF Goto, TypeOK
<1>2. TypeOK'
  <2>1. Metrics!TypeOK'
    BY <1>0 DEF TypeOK, Metrics!TypeOK, collectorVars
  <2>2. job' \in [Jobs -> {"none", "accepted", "tx", "stored", "ok", "error",
                           "observed", "done", "skipped", "over"}]
    BY <1>0 DEF TypeOK, Goto
  <2>. QED
    BY <1>0, <2>1, <2>2 DEF TypeOK, mainVars
<1>3. JobInv'
  <2>1. observed' = observed /\ counted' = counted
    BY DEF collectorVars
  <2>. QED
    BY <1>0, <1>1, <2>1 DEF JobInv, Jobs
<1>4. ScrapeInv'
  BY <1>0 DEF ScrapeInv, collectorVars
<1>5. CleanExit' /\ SetupInv'
  <2>1. Underway' \subseteq Underway \/ phase # "closing"
    BY <1>1 DEF Underway, Jobs
  <2>2. InUse' \subseteq InUse \/ Connects
    BY <1>1 DEF InUse
  <2>. QED
    BY <1>0, <2>1, <2>2, ExitStaysClean
<1>. QED
  BY <1>2, <1>3, <1>4, <1>5 DEF IInv

LEMMA JobsKeep ==
  ASSUME IInv,
         \/ \E r \in Requests : AcceptRequest(r) \/ ObserveRequest(r) \/ Answer(r)
         \/ \E e \in Events : FetchEvent(e) \/ PassEvent(e)
         \/ \E j \in Jobs : Begin(j) \/ Commit(j) \/ Fail(j) \/ Count(j)
  PROVE  IInv'
<1>0. TypeOK /\ SetupInv /\ JobInv /\ ScrapeInv /\ CleanExit /\ stored \subseteq Jobs
  BY DEF IInv, TypeOK
<1>1. ASSUME NEW r \in Requests, AcceptRequest(r)
      PROVE  IInv'
  BY <1>0, <1>1, JobMoves DEF AcceptRequest, Jobs
<1>2. ASSUME NEW r \in Requests, Answer(r)
      PROVE  IInv'
  BY <1>0, <1>2, JobMoves DEF Answer, At, Jobs, JobInv
<1>3. ASSUME NEW e \in Events, FetchEvent(e)
      PROVE  IInv'
  BY <1>0, <1>3, JobMoves, JobsAssumption DEF FetchEvent, Jobs
<1>4. ASSUME NEW e \in Events, PassEvent(e)
      PROVE  IInv'
  <2>1. e \in Jobs /\ e \notin Requests /\ job[e] \in {"ok", "error"}
    BY <1>4, JobsAssumption DEF PassEvent, At, Jobs
  <2>2. PICK b \in {"done", "skipped"} : Goto(e, b)
    BY <1>4 DEF PassEvent
  <2>. QED
    BY <1>0, <1>4, <2>1, <2>2, JobMoves DEF PassEvent
<1>5. ASSUME NEW j \in Jobs, Begin(j)
      PROVE  IInv'
  BY <1>0, <1>5, JobMoves DEF Begin, At
<1>6. ASSUME NEW j \in Jobs, Commit(j)
      PROVE  IInv'
  <2>1. /\ job[j] = "tx" /\ stored' = stored \cup {j}
        /\ UNCHANGED <<mainVars, polling, collectorVars>>
    BY <1>6 DEF Commit, At
  <2>2. PICK b \in {"stored", "ok", "error"} : Goto(j, b) /\ (b = "ok" => j \notin Main.counts)
    BY <1>6 DEF Commit
  <2>. QED
    BY <1>0, <2>1, <2>2, JobMoves
<1>7. ASSUME NEW j \in Jobs, Fail(j)
      PROVE  IInv'
  <2>1. /\ job[j] \in {"accepted", "tx"} /\ Goto(j, "error")
        /\ UNCHANGED <<mainVars, stored, polling, collectorVars>>
    BY <1>7 DEF Fail, At
  <2>. QED
    BY <1>0, <2>1, JobMoves
<1>n. ASSUME NEW j \in Jobs, NEW b \in {"ok", "observed"}, Goto(j, b),
             job[j] \in {"stored", "ok", "error"},
             UNCHANGED <<mainVars, stored, polling>>
      PROVE  /\ Main' = Main /\ CleanExit' /\ SetupInv'
             /\ job'[j] = b /\ \A k \in Jobs \ {j} : job'[k] = job[k]
             /\ job' \in [Jobs -> {"none", "accepted", "tx", "stored", "ok", "error",
                                   "observed", "done", "skipped", "over"}]
  <2>1. /\ job'[j] = b /\ \A k \in Jobs \ {j} : job'[k] = job[k]
        /\ job' \in [Jobs -> {"none", "accepted", "tx", "stored", "ok", "error",
                              "observed", "done", "skipped", "over"}]
    BY <1>0, <1>n DEF Goto, TypeOK
  <2>2. Underway' \subseteq Underway
    BY <1>n, <2>1 DEF Underway, Jobs
  <2>3. InUse' \subseteq InUse
    BY <1>n, <2>1 DEF InUse
  <2>. QED
    BY <1>0, <1>n, <2>1, <2>2, <2>3, MainStays, ExitStaysClean DEF mainVars
<1>8. ASSUME NEW j \in Jobs, Count(j)
      PROVE  IInv'
  <2>1. /\ job[j] = "stored" /\ Goto(j, "ok") /\ UNCHANGED <<mainVars, stored, polling>>
        /\ scrape.at # "business" /\ counted' = counted \cup {j}
        /\ observed' = observed /\ scrape' = scrape
    BY <1>8 DEF Count, At, Metrics!IncBusiness, Metrics!CountersAreFree
  <2>2. /\ Main' = Main /\ CleanExit' /\ SetupInv' /\ job'[j] = "ok"
        /\ \A k \in Jobs \ {j} : job'[k] = job[k]
        /\ job' \in [Jobs -> {"none", "accepted", "tx", "stored", "ok", "error",
                              "observed", "done", "skipped", "over"}]
    BY <1>n, <2>1
  <2>3. TypeOK'
    <3>1. Metrics!TypeOK'
      BY <1>0, <2>1 DEF TypeOK, Metrics!TypeOK
    <3>. QED
      BY <1>0, <2>1, <2>2, <3>1 DEF TypeOK, mainVars
  <2>4. JobInv' /\ ScrapeInv'
    BY <1>0, <2>1, <2>2 DEF JobInv, ScrapeInv, Jobs
  <2>. QED
    BY <2>2, <2>3, <2>4 DEF IInv
<1>9. ASSUME NEW r \in Requests, ObserveRequest(r)
      PROVE  IInv'
  <2>1. /\ job[r] \in {"ok", "error"} /\ Goto(r, "observed")
        /\ UNCHANGED <<mainVars, stored, polling>> /\ r \in Jobs
        /\ scrape.at = "idle" /\ observed' = observed \cup {<<r, job[r]>>}
        /\ counted' = counted /\ scrape' = scrape
    BY <1>9 DEF ObserveRequest, At, Jobs, Metrics!Observe, Metrics!CollectorIsFree
  <2>2. /\ Main' = Main /\ CleanExit' /\ SetupInv' /\ job'[r] = "observed"
        /\ \A k \in Jobs \ {r} : job'[k] = job[k]
        /\ job' \in [Jobs -> {"none", "accepted", "tx", "stored", "ok", "error",
                              "observed", "done", "skipped", "over"}]
    BY <1>n, <2>1
  <2>3. TypeOK'
    <3>1. Metrics!TypeOK'
      BY <1>0, <2>1 DEF TypeOK, Metrics!TypeOK
    <3>. QED
      BY <1>0, <2>1, <2>2, <3>1 DEF TypeOK, mainVars
  <2>4. JobInv'
    BY <1>0, <2>1, <2>2 DEF JobInv, Jobs
  <2>5. ScrapeInv'
    BY <1>0, <2>1 DEF ScrapeInv
  <2>. QED
    BY <2>2, <2>3, <2>4, <2>5 DEF IInv
<1>. QED
  BY <1>1, <1>2, <1>3, <1>4, <1>5, <1>6, <1>7, <1>8, <1>9

LEMMA OthersKeep ==
  ASSUME IInv, Poll \/ PollReturns \/ Scrape \/ UNCHANGED vars
  PROVE  IInv'
<1>0. TypeOK /\ SetupInv /\ JobInv /\ ScrapeInv /\ CleanExit
  BY DEF IInv
<1>1. CASE Poll \/ PollReturns
  <2>1. /\ UNCHANGED <<mainVars, job, stored, collectorVars>> /\ polling' \in BOOLEAN
        /\ Connects \/ ~polling'
    BY <1>1 DEF Poll, PollReturns
  <2>2. Main' = Main
    BY <2>1, MainStays DEF mainVars
  <2>3. Underway' = Underway /\ (InUse' \subseteq InUse \/ Connects)
    BY <2>1 DEF Underway, InUse
  <2>4. TypeOK' /\ JobInv' /\ ScrapeInv'
    BY <1>0, <2>1, <2>2 DEF TypeOK, Metrics!TypeOK, JobInv, ScrapeInv, mainVars, collectorVars
  <2>5. CleanExit' /\ SetupInv'
    BY <1>0, <2>1, <2>3, ExitStaysClean
  <2>. QED
    BY <2>4, <2>5 DEF IInv
<1>2. CASE Scrape
  <2>1. UNCHANGED <<mainVars, job, stored, polling, observed, counted>>
    BY <1>2 DEF Scrape, Metrics!WriteTotals, Metrics!WriteHistograms, Metrics!WriteBusiness,
                Metrics!EndScrape
  <2>2. Main' = Main
    BY <2>1, MainStays DEF mainVars
  <2>3. Metrics!TypeOK
    BY <1>0 DEF TypeOK
  <2>4. Metrics!TypeOK' /\ ScrapeInv'
    <3>. DEFINE done == {r \in Requests : job[r] = "done"}
    <3>1. CASE Metrics!WriteTotals(done)
      <4>1. \A r \in done : \E status \in {"ok", "error"} : <<r, status>> \in observed
        BY <1>0 DEF JobInv
      <4>. QED
        BY <1>0, <2>1, <2>3, <3>1, <4>1 DEF Metrics!WriteTotals, Metrics!TypeOK, ScrapeInv
    <3>2. CASE Metrics!WriteHistograms
      BY <1>0, <2>1, <2>3, <3>2 DEF Metrics!WriteHistograms, Metrics!TypeOK, ScrapeInv
    <3>3. CASE Metrics!WriteBusiness
      BY <1>0, <2>1, <2>3, <3>3 DEF Metrics!WriteBusiness, Metrics!TypeOK, ScrapeInv
    <3>4. CASE Metrics!EndScrape
      BY <1>0, <2>1, <2>3, <3>4 DEF Metrics!EndScrape, Metrics!TypeOK, Metrics!NoScrape, ScrapeInv
    <3>. QED
      BY <1>2, <3>1, <3>2, <3>3, <3>4 DEF Scrape
  <2>5. TypeOK' /\ JobInv'
    BY <1>0, <2>1, <2>2, <2>4 DEF TypeOK, JobInv, mainVars
  <2>6. Underway' = Underway /\ InUse' = InUse
    BY <2>1 DEF Underway, InUse
  <2>7. CleanExit' /\ SetupInv'
    BY <1>0, <2>1, <2>6, ExitStaysClean
  <2>. QED
    BY <2>4, <2>5, <2>7 DEF IInv
<1>3. CASE UNCHANGED vars
  <2>1. Main' = Main
    BY <1>3, MainStays DEF vars, mainVars
  <2>2. TypeOK' /\ SetupInv' /\ JobInv' /\ ScrapeInv'
    BY <1>0, <1>3, <2>1 DEF vars, mainVars, collectorVars, TypeOK, Metrics!TypeOK, SetupInv,
                            JobInv, ScrapeInv
  <2>3. CleanExit'
    BY <1>0, <1>3, <2>1 DEF vars, mainVars, CleanExit, Underway, InUse
  <2>. QED
    BY <2>2, <2>3 DEF IInv
<1>. QED
  BY <1>1, <1>2, <1>3

LEMMA NextIInv == IInv /\ [Next]_vars => IInv'
BY MainKeeps, JobsKeep, OthersKeep DEF Next

-----------------------------------------------------------------------------
THEOREM Invariance == Spec => []IInv
BY InitIInv, NextIInv, PTL DEF Spec

(* Type correctness of the process and of its collector. *)
THEOREM TypeCorrect == Spec => []TypeOK
<1>1. IInv => TypeOK
  BY DEF IInv
<1>. QED
  BY <1>1, Invariance, PTL

(* One scrape does not contradict itself: the two locks are held long       *)
(* enough, and the service counts an order before it answers.               *)
THEOREM ScrapesAreConsistent == Spec => []ExpositionConsistent
<1>1. ASSUME IInv
      PROVE  ExpositionConsistent
  <2>. SUFFICES ASSUME scrape.at = "business"
                PROVE  /\ scrape.total = scrape.histogram
                       /\ \A r \in scrape.before : \E status \in {"ok", "error"} :
                            <<r, status>> \in scrape.total
                       /\ \A r \in Requests \cap Main.counts :
                            <<r, "ok">> \in scrape.total => r \in scrape.business
                       /\ scrape.business \subseteq stored
    BY DEF ExpositionConsistent
  <2>1. /\ scrape.total = observed /\ scrape.histogram = observed /\ scrape.business = counted
        /\ \A r \in scrape.before : \E status \in {"ok", "error"} : <<r, status>> \in observed
    BY <1>1 DEF IInv, ScrapeInv
  <2>. QED
    BY <1>1, <2>1 DEF IInv, JobInv
<1>2. IInv => ExpositionConsistent
  BY <1>1
<1>. QED
  BY <1>2, Invariance, PTL

(* A process that is told to stop answers its requests, unless the limit    *)
(* passes, and cuts no transaction when it closes its pool.                 *)
THEOREM ExitsAreClean == Spec => []CleanExit
<1>1. IInv => CleanExit
  BY DEF IInv
<1>. QED
  BY <1>1, Invariance, PTL
=============================================================================
