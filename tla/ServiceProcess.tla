--------------------------- MODULE ServiceProcess ---------------------------
(***************************************************************************)
(* A process of one of the seven services, from the first line of main to  *)
(* its end: what main opens and closes, the workers it starts, the HTTP    *)
(* requests and events it works on, the metrics it keeps, SIGTERM, the     *)
(* shutdown of the HTTP server with its limit of ten seconds, crashes and  *)
(* restarts.                                                               *)
(*                                                                         *)
(*   - main is the list of what it opens, in order; each has a deferred    *)
(*     Close, run in the opposite order when main returns.  log.Fatal and  *)
(*     crashes skip them.                                                  *)
(*   - pgxpool.Close lets nobody begin and waits for the connections in    *)
(*     use.  What else is closed ends by itself: the Kafka writer waits a  *)
(*     bounded time for what it is writing, the telemetry flushes within   *)
(*     its limit, and a reader or a Redis client waits for nobody.  Each   *)
(*     of these is one step.                                               *)
(*   - Server.Shutdown accepts nothing more and waits for the requests     *)
(*     under way, GET /metrics included.                                   *)
(*   - Workers stop fetching when the context of main is cancelled.  main  *)
(*     does not wait for them, except for their connections.               *)
(*                                                                         *)
(* The transactions are the subject of the modules of the services: here   *)
(* one only holds a connection, and is committed or not.                   *)
(***************************************************************************)
EXTENDS Naturals, Sequences, SequencesExt, FiniteSets

CONSTANTS
  Requests,      \* HTTP requests other than GET /metrics
  Events,        \* Kafka messages for the service's consumer
  MaxStarts      \* bound: how often the platform starts a process

ASSUME JobsAssumption == Requests \cap Events = {}
ASSUME BoundsAssumption == MaxStarts \in Nat

VARIABLES
  service,       \* which service this is
  phase,         \* where main is
  opened,        \* how much of setup is open
  told,          \* the context of main is cancelled
  expired,       \* the limit of the shutdown has passed
  starts,        \* processes started so far
  job,           \* where each request and event is
  stored,        \* those whose transaction was committed
  polling,       \* the outbox worker is at a statement
  observed, counted, scrape    \* the collector of this process

mainVars == <<service, phase, opened, told, expired, starts>>
collectorVars == <<observed, counted, scrape>>
vars == <<mainVars, job, stored, polling, collectorVars>>

Metrics == INSTANCE MetricsCollector

Jobs == Requests \cup Events

-----------------------------------------------------------------------------
(* The seven main functions: what they open and start in which order,       *)
(* whether the shutdown has a limit, and which jobs a business counter      *)
(* counts.  "publish" and "consume" are where the outbox worker and the     *)
(* consumer start to run.  The catalog service knows no signals and never   *)
(* comes to a shutdown.                                                     *)
OrderMain ==
  [setup |-> <<"telemetry", "signals", "pool", "publisher", "consumer", "publish", "consume">>,
   limit |-> TRUE, counts |-> Requests \cup Events]

PaymentMain ==
  [setup |-> <<"telemetry", "signals", "pool", "publisher", "consumer", "publish", "consume">>,
   limit |-> TRUE, counts |-> Events]

InventoryMain ==
  [setup |-> <<"telemetry", "signals", "pool", "publisher", "publish", "consumer", "consume">>,
   limit |-> FALSE, counts |-> Events]

NotificationMain ==
  [setup |-> <<"telemetry", "signals", "pool", "consumer", "consume">>,
   limit |-> TRUE, counts |-> Events]

CartMain ==
  [setup |-> <<"telemetry", "signals", "redis">>, limit |-> TRUE, counts |-> {}]

CatalogMain ==
  [setup |-> <<"telemetry", "pool">>, limit |-> TRUE, counts |-> {}]

BffMain ==
  [setup |-> <<"telemetry", "signals">>, limit |-> TRUE, counts |-> {}]

Services == {"order", "payment", "inventory", "notification", "cart", "catalog", "bff"}

Main ==
  CASE service = "order" -> OrderMain
    [] service = "payment" -> PaymentMain
    [] service = "inventory" -> InventoryMain
    [] service = "notification" -> NotificationMain
    [] service = "cart" -> CartMain
    [] service = "catalog" -> CatalogMain
    [] service = "bff" -> BffMain

Init ==
  /\ service \in Services
  /\ phase = "down" /\ opened = 0 /\ starts = 0
  /\ told = FALSE /\ expired = FALSE
  /\ job = [j \in Jobs |-> "none"]
  /\ stored = {} /\ polling = FALSE
  /\ Metrics!Init

-----------------------------------------------------------------------------
IsOpen(step) == \E i \in 1..opened : Main.setup[i] = step

At(j, pc) == phase # "down" /\ job[j] = pc
Goto(j, pc) == job' = [job EXCEPT ![j] = pc]

(* Mutant of InUse: jobs are counted before they give their connection back. *)
InUseWhileCounting ==
  {j \in Jobs : job[j] \in {"tx", "stored"}} \cup {w \in {"outbox worker"} : polling}

(* The connections of the pool that are in use, and by whom. *)
InUse == {j \in Jobs : job[j] = "tx"} \cup {w \in {"outbox worker"} : polling}

(* Requests accepted and not answered. *)
Underway == {r \in Requests : job[r] \notin {"none", "done", "over"}}

(* The pool, or the Redis client, is there and nobody closes it. *)
Connects ==
  \A i \in DOMAIN Main.setup :
    Main.setup[i] \in {"pool", "redis"} => (IF phase = "closing" THEN i < opened ELSE i <= opened)

(* The process is gone: what it had under way is rolled back; requests get  *)
(* no answer, events are delivered again.                                   *)
Die ==
  /\ phase' = "down" /\ opened' = 0 /\ told' = FALSE /\ expired' = FALSE
  /\ job' = [j \in Jobs |->
       IF job[j] = "none" \/ (j \in Events /\ job[j] = "done") THEN job[j]
       ELSE IF j \in Requests THEN "over" ELSE "none"]
  /\ polling' = FALSE
  /\ observed' = {} /\ counted' = {} /\ scrape' = Metrics!NoScrape
  /\ UNCHANGED <<service, starts, stored>>

(* The platform starts the container. *)
Launch ==
  /\ phase = "down" /\ starts < MaxStarts
  /\ phase' = "starting" /\ starts' = starts + 1
  /\ UNCHANGED <<service, opened, told, expired, job, stored, polling, collectorVars>>

(* telemetry.Start, NewPool and its Ping, ... : the next line of main. *)
OpenNext ==
  /\ phase = "starting" /\ opened < Len(Main.setup)
  /\ Main.setup[opened + 1] \in {"pool", "redis"} => ~told
  /\ opened' = opened + 1
  /\ UNCHANGED <<service, phase, told, expired, starts, job, stored, polling, collectorVars>>

OpenFails ==
  /\ phase = "starting" /\ opened < Len(Main.setup)
  /\ Main.setup[opened + 1] \in {"telemetry", "pool", "redis"}
  /\ Die

Listen ==
  /\ phase = "starting" /\ opened = Len(Main.setup)
  /\ phase' = "serving"
  /\ UNCHANGED <<service, opened, told, expired, starts, job, stored, polling, collectorVars>>

(* SIGTERM: signal.NotifyContext cancels the context, before and after it   *)
(* the default is to die.                                                   *)
Signal ==
  /\ phase # "down" /\ ~told
  /\ IF IsOpen("signals")
     THEN /\ told' = TRUE
          /\ UNCHANGED <<service, phase, opened, expired, starts, job, stored, polling, collectorVars>>
     ELSE Die

Crash == phase # "down" /\ Die

-----------------------------------------------------------------------------
(* main has seen ctx.Done: Shutdown, then the deferred calls. *)
BeginShutdown ==
  /\ phase = "serving" /\ told
  /\ phase' = "stopping"
  /\ UNCHANGED <<service, opened, told, expired, starts, job, stored, polling, collectorVars>>

(* Mutant of ShutdownReturns: main does not wait for the requests.          *)
ShutdownAtOnce ==
  /\ phase = "stopping"
  /\ phase' = "closing"
  /\ UNCHANGED <<service, opened, told, expired, starts, job, stored, polling, collectorVars>>

ShutdownReturns ==
  /\ phase = "stopping" /\ Underway = {} /\ scrape.at = "idle"
  /\ phase' = "closing"
  /\ UNCHANGED <<service, opened, told, expired, starts, job, stored, polling, collectorVars>>

LimitPasses ==
  /\ phase = "stopping" /\ Main.limit
  /\ phase' = "closing" /\ expired' = TRUE
  /\ UNCHANGED <<service, opened, told, starts, job, stored, polling, collectorVars>>

(* The next deferred Close. *)
CloseLast ==
  /\ phase = "closing" /\ opened > 0
  /\ Main.setup[opened] = "pool" => InUse = {}
  /\ opened' = opened - 1
  /\ UNCHANGED <<service, phase, told, expired, starts, job, stored, polling, collectorVars>>

Return == phase = "closing" /\ opened = 0 /\ Die

RunMain ==
  \/ OpenNext \/ OpenFails \/ Listen
  \/ BeginShutdown \/ ShutdownReturns \/ LimitPasses \/ CloseLast \/ Return

-----------------------------------------------------------------------------
AcceptRequest(r) ==
  /\ phase = "serving" /\ job[r] = "none"
  /\ Goto(r, "accepted")
  /\ UNCHANGED <<mainVars, stored, polling, collectorVars>>

(* FetchMessage; Run handles one message after the other. *)
FetchEvent(e) ==
  /\ phase # "down" /\ IsOpen("consume") /\ ~told
  /\ job[e] = "none"
  /\ \A f \in Events : job[f] \in {"none", "done", "skipped"}
  /\ Goto(e, "accepted")
  /\ UNCHANGED <<mainVars, stored, polling, collectorVars>>

(* The outbox worker: OutboxPublisher has what its statements do. *)
Poll ==
  /\ phase # "down" /\ IsOpen("publish") /\ ~told /\ Connects
  /\ ~polling /\ polling' = TRUE
  /\ UNCHANGED <<mainVars, job, stored, collectorVars>>

PollReturns ==
  /\ polling /\ polling' = FALSE
  /\ UNCHANGED <<mainVars, job, stored, collectorVars>>

Begin(j) ==
  /\ At(j, "accepted") /\ Connects
  /\ Goto(j, "tx")
  /\ UNCHANGED <<mainVars, stored, polling, collectorVars>>

(* COMMIT.  Its answer may get lost. *)
Commit(j) ==
  /\ At(j, "tx")
  /\ stored' = stored \cup {j}
  /\ \/ Goto(j, IF j \in Main.counts THEN "stored" ELSE "ok")
     \/ Goto(j, "error")
  /\ UNCHANGED <<mainVars, polling, collectorVars>>

(* The request is refused, the pool is closed, a statement fails, the       *)
(* context is cancelled.                                                    *)
Fail(j) ==
  /\ At(j, "accepted") \/ At(j, "tx")
  /\ Goto(j, "error")
  /\ UNCHANGED <<mainVars, stored, polling, collectorVars>>

(* The service counts what it has committed. *)
Count(j) ==
  /\ At(j, "stored")
  /\ Metrics!IncBusiness(j)
  /\ Goto(j, "ok")
  /\ UNCHANGED <<mainVars, stored, polling>>

(* Mutant of ObserveRequest: a request that failed gets no answer.          *)
ObserveSuccess(r) ==
  /\ At(r, "ok")
  /\ Metrics!Observe(r, job[r])
  /\ Goto(r, "observed")
  /\ UNCHANGED <<mainVars, stored, polling>>

ObserveRequest(r) ==
  /\ At(r, "ok") \/ At(r, "error")
  /\ Metrics!Observe(r, job[r])
  /\ Goto(r, "observed")
  /\ UNCHANGED <<mainVars, stored, polling>>

(* net/http flushes the answer. *)
Answer(r) ==
  /\ At(r, "observed")
  /\ Goto(r, "done")
  /\ UNCHANGED <<mainVars, stored, polling, collectorVars>>

(* CommitMessages.  A message whose handler, or whose offset commit, failed *)
(* is skipped: the next process may be given it again.                      *)
PassEvent(e) ==
  /\ \/ At(e, "ok") /\ (Goto(e, "done") \/ Goto(e, "skipped"))
     \/ At(e, "error") /\ Goto(e, "skipped")
  /\ UNCHANGED <<mainVars, stored, polling, collectorVars>>

(* GET /metrics is served without being observed. *)
Scrape ==
  /\ \/ phase = "serving" /\ Metrics!WriteTotals({r \in Requests : job[r] = "done"})
     \/ phase # "down" /\ (Metrics!WriteHistograms \/ Metrics!WriteBusiness \/ Metrics!EndScrape)
  /\ UNCHANGED <<mainVars, job, stored, polling>>

Next ==
  \/ Launch \/ RunMain \/ Signal \/ Crash
  \/ \E r \in Requests : AcceptRequest(r) \/ ObserveRequest(r) \/ Answer(r)
  \/ \E e \in Events : FetchEvent(e) \/ PassEvent(e)
  \/ \E j \in Jobs : Begin(j) \/ Commit(j) \/ Fail(j) \/ Count(j)
  \/ Poll \/ PollReturns
  \/ Scrape

Spec == Init /\ [][Next]_vars

(* Goroutines run on, statements return, the limit passes, and a writer     *)
(* that waits for a sync.RWMutex gets it before the next reader.  Nothing   *)
(* makes the client of a scrape read.                                       *)
Fairness ==
  /\ WF_vars(RunMain) /\ WF_vars(PollReturns)
  /\ \A j \in Jobs :
       /\ WF_vars(Begin(j) \/ Commit(j) \/ Fail(j))
       /\ SF_vars(Count(j))
  /\ \A r \in Requests : SF_vars(ObserveRequest(r)) /\ WF_vars(Answer(r))
  /\ \A e \in Events : WF_vars(PassEvent(e))

FairSpec == Spec /\ Fairness

-----------------------------------------------------------------------------
TypeOK ==
  /\ service \in Services
  /\ phase \in {"down", "starting", "serving", "stopping", "closing"}
  /\ opened \in 0..Len(Main.setup)
  /\ told \in BOOLEAN /\ expired \in BOOLEAN
  /\ starts \in 0..MaxStarts
  /\ job \in [Jobs -> {"none", "accepted", "tx", "stored", "ok", "error",
                       "observed", "done", "skipped", "over"}]
  /\ stored \subseteq Jobs /\ polling \in BOOLEAN
  /\ Metrics!TypeOK

(* One scrape does not contradict itself, though its parts are printed one  *)
(* after the other and behind two locks: counts and histograms agree, what  *)
(* was answered before is in them, and an order that POST /orders was       *)
(* counted for as created is among the orders created, which are stored.    *)
ExpositionConsistent ==
  scrape.at = "business" =>
    /\ scrape.total = scrape.histogram
    /\ \A r \in scrape.before : \E status \in {"ok", "error"} : <<r, status>> \in scrape.total
    /\ \A r \in Requests \cap Main.counts :
         <<r, "ok">> \in scrape.total => r \in scrape.business
    /\ scrape.business \subseteq stored

(* A process that stops when it is told to leaves nothing half done: all    *)
(* requests are answered unless the limit passed, and when the pool is      *)
(* closed no transaction, of a request or of a worker, is cut.              *)
CleanExit ==
  phase = "closing" =>
    /\ ~expired => Underway = {}
    /\ \A i \in opened+1..Len(Main.setup) : Main.setup[i] = "pool" => InUse = {}

(* A process that is told to stop ends, whatever its requests, its workers  *)
(* and a scrape that nobody reads are at; one whose shutdown has no limit,  *)
(* the inventory service's, if no scrape is left unread.                    *)
StopsWhenTold ==
  []<>(Main.limit \/ scrape.at = "idle") => (told ~> phase = "down")

(* While scrapes are read, every request is answered or ends with its       *)
(* process: no lock, connection or shutdown leaves it waiting.              *)
RequestsComplete ==
  []<>(scrape.at = "idle") => \A r \in Requests : r \in Underway ~> r \notin Underway
=============================================================================
