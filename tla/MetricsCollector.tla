-------------------------- MODULE MetricsCollector --------------------------
(***************************************************************************)
(* internal/metrics of a service, one copy per service: the Collector of   *)
(* HTTP requests and the business counters, each behind a sync.RWMutex,    *)
(* and the scrape of GET /metrics that prints both.  A counter is the set  *)
(* of what it counted.                                                     *)
(*                                                                         *)
(* The scrape writes to its client while it holds the locks, and no write  *)
(* has a time limit: whoever needs a lock waits for the client to read.    *)
(***************************************************************************)
CONSTANTS
  Requests       \* what Middleware may observe

VARIABLES
  observed,      \* Collector.values: requests with the status they got
  counted,       \* businessCounters.values
  scrape         \* what GET /metrics has printed so far

vars == <<observed, counted, scrape>>

NoScrape ==
  [at |-> "idle",     \* the part it is printing
   before |-> {},     \* requests answered when it began
   total |-> {},      \* http_server_requests_total
   histogram |-> {},  \* http_server_request_duration_seconds
   business |-> {}]   \* the business counters

Init == observed = {} /\ counted = {} /\ scrape = NoScrape

-----------------------------------------------------------------------------
(* The read lock on Collector.mu is held to the end, the one on             *)
(* businessCounters.mu while the counters are printed.                      *)
CollectorIsFree == scrape.at = "idle"
CountersAreFree == scrape.at # "business"

IncBusiness(j) ==
  /\ CountersAreFree
  /\ counted' = counted \cup {j}
  /\ UNCHANGED <<observed, scrape>>

(* Mutant of Observe: the collector is not locked.                          *)
ObserveUnlocked(r, status) ==
  /\ observed' = observed \cup {<<r, status>>}
  /\ UNCHANGED <<counted, scrape>>

(* Mutant of Observe: the recorder does not start with StatusOK, and a      *)
(* handler need not call WriteHeader.                                       *)
ObserveUnset(r, status) ==
  /\ CollectorIsFree
  /\ observed' = observed \cup {<<r, IF status = "ok" THEN "unset" ELSE status>>}
  /\ UNCHANGED <<counted, scrape>>

(* Middleware, once the handler has returned. *)
Observe(r, status) ==
  /\ CollectorIsFree
  /\ observed' = observed \cup {<<r, status>>}
  /\ UNCHANGED <<counted, scrape>>

(* Three loops print the request counts, the histograms and the business    *)
(* counters.                                                                *)
WriteTotals(answered) ==
  /\ scrape.at = "idle"
  /\ scrape' = [scrape EXCEPT !.at = "total", !.before = answered, !.total = observed]
  /\ UNCHANGED <<observed, counted>>

WriteHistograms ==
  /\ scrape.at = "total"
  /\ scrape' = [scrape EXCEPT !.at = "histogram", !.histogram = observed]
  /\ UNCHANGED <<observed, counted>>

WriteBusiness ==
  /\ scrape.at = "histogram"
  /\ scrape' = [scrape EXCEPT !.at = "business", !.business = counted]
  /\ UNCHANGED <<observed, counted>>

EndScrape ==
  /\ scrape.at = "business"
  /\ scrape' = NoScrape
  /\ UNCHANGED <<observed, counted>>

-----------------------------------------------------------------------------
TypeOK ==
  /\ observed \subseteq Requests \X {"ok", "error"}
  /\ scrape \in [at : {"idle", "total", "histogram", "business"},
                 before : SUBSET Requests, total : SUBSET observed,
                 histogram : SUBSET observed, business : SUBSET counted]
=============================================================================
