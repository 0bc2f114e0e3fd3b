----------------------------- MODULE LiveProbe -----------------------------
(* The live probe of the demo page: the limit per address (routes/api/demo.js),
   the cache per host in front of the probe (live-probe-cache.js) and what is
   reported of the answer (probe-live.js).  The probe is awaited between the
   look at the cache and the write to it, so probes of one host overlap. *)
EXTENDS Integers, FiniteSets, Sequences

CONSTANTS
  ProbeUrls, HostName,
  Row,              \* the stored row of a url: [protocol, method, failures]; protocol Unknown without one
  Visitors,         \* addresses
  MaxCalls,         \* bound: calls
  Replies,          \* what an endpoint may answer: [status, found], found a sequence of [protocol, valid]
  CACHE_TTL, CACHE_MAX_AGE, CacheSize,
  RateWindow, PROBE_RATE_LIMIT_MAX,
  MaxTime,          \* bound on the clock
  Unknown

ASSUME LiveAssumption ==
  /\ {CACHE_TTL, CACHE_MAX_AGE, CacheSize, RateWindow, PROBE_RATE_LIMIT_MAX} \subseteq Nat
  /\ CACHE_TTL > 0
  /\ CACHE_TTL <= CACHE_MAX_AGE
  /\ Unknown \notin Replies

VARIABLES
  time,
  entry,            \* cache: per host [result, timestamp], or Unknown
  visits,           \* probeLiveRateLimit: per address, the times of its calls
  call,             \* per call: [url, stage, since, report], or Unknown
  seen              \* history: the answers of hosts, with the time their probe began

lpVars == <<time, entry, visits, call, seen>>

Calls == 1..MaxCalls
Hosts == {HostName[u] : u \in ProbeUrls}

LPTypeOK ==
  /\ time \in 0..MaxTime
  /\ \A h \in Hosts : entry[h] # Unknown => entry[h].timestamp \in 0..time
  /\ \A v \in Visitors : Len(visits[v]) <= PROBE_RATE_LIMIT_MAX
  /\ \A k \in Calls : call[k] # Unknown =>
       call[k].stage \in {"probing", "reported"} /\ (call[k].report = Unknown) = (call[k].stage = "probing")

LPInit ==
  /\ time = 0 /\ seen = {}
  /\ entry = [h \in Hosts |-> Unknown]
  /\ visits = [v \in Visitors |-> <<>>]
  /\ call = [k \in Calls |-> Unknown]

----------------------------------------------------------------------------
(* probeEndpoint *)

Nothing == [status |-> 0, found |-> <<>>]

Carries(reply) == \E n \in DOMAIN reply.found : reply.found[n].valid
Dead(result) == result.main = Nothing   \* errorMessage

(* A reply to POST is kept beside that to GET, and takes its place when it is a
   valid 402. *)
Probed(url, reply, second) ==
  IF Row[url].method = "GET" /\ reply.status \in {405, 400, 200}
  THEN [main |-> IF second.status = 402 /\ Carries(second) THEN second ELSE reply, post |-> second]
  ELSE [main |-> reply, post |-> Unknown]

(* The detection of the stored protocol, or of the first one found. *)
Primary(url, found) ==
  LET wanted == IF Row[url].protocol # Unknown THEN Row[url].protocol
                ELSE IF found # <<>> THEN found[1].protocol ELSE Unknown
  IN {d \in {found[n] : n \in DOMAIN found} : d.protocol = wanted}

(* runProbeSteps: the status of the answer, an invalid challenge of a protocol
   that is judged by it, and a valid one to POST, each over the former. *)
Report402(url, result) ==
  IF Dead(result) THEN "error"
  ELSE IF result.post # Unknown /\ \E d \in Primary(url, result.post.found) : d.valid THEN "healthy"
  ELSE IF \E d \in Primary(url, result.main.found) : ~d.valid /\ d.protocol # "x402" THEN "degraded"
  ELSE IF result.main.status = 402 THEN "healthy"
  ELSE IF result.main.status >= 500 /\ Row[url].failures + 1 >= 3 THEN "down"
  ELSE "degraded"

----------------------------------------------------------------------------
Recently(v) == SelectSeq(visits[v], LAMBDA t : time - t < RateWindow)

Cached(h) == entry[h] # Unknown /\ time - entry[h].timestamp < CACHE_TTL

(* cleanExpired, when the cache has grown *)
Cleaned ==
  LET stored == {h \in Hosts : entry[h] # Unknown}
  IN [h \in Hosts |-> IF Cardinality(stored) > CacheSize /\ h \in stored /\ time - entry[h].timestamp > CACHE_MAX_AGE
                      THEN Unknown ELSE entry[h]]

(* GET /demo/probe-live: an address within its limit is counted, and answered
   from the cache or by a probe. *)
AskLive(k) ==
  /\ call[k] = Unknown /\ \A j \in 1 .. k - 1 : call[j] # Unknown
  /\ \E v \in Visitors, u \in ProbeUrls :
       LET h == HostName[u]
       IN /\ Len(Recently(v)) < PROBE_RATE_LIMIT_MAX
          /\ visits' = [visits EXCEPT ![v] = Append(Recently(v), time)]
          /\ IF Cached(h)
             THEN /\ call' = [call EXCEPT ![k] = [url |-> u, stage |-> "reported", since |-> time,
                                                  report |-> Report402(u, entry[h].result)]]
                  /\ UNCHANGED entry
             ELSE /\ call' = [call EXCEPT ![k] = [url |-> u, stage |-> "probing", since |-> time, report |-> Unknown]]
                  /\ entry' = Cleaned
  /\ UNCHANGED <<time, seen>>

(* Bug: an entry is as old as its write. *)
WrittenNow(k) == time

(* The entry is as old as the call that made it. *)
Stamp(k) == call[k].since

(* The probe is over, and its result takes the place of whatever is there. *)
ProbeOver(k) ==
  /\ call[k] # Unknown /\ call[k].stage = "probing"
  /\ \E reply \in Replies \union {Nothing}, second \in Replies \union {Nothing} :
       LET u == call[k].url  result == Probed(u, reply, second)
       IN /\ (result.post = Unknown => second = Nothing)
          /\ entry' = [entry EXCEPT ![HostName[u]] = [result |-> result, timestamp |-> Stamp(k)]]
          /\ call' = [call EXCEPT ![k].stage = "reported", ![k].report = Report402(u, result)]
          /\ seen' = seen \union {[host |-> HostName[u], url |-> u, result |-> result, began |-> call[k].since, ended |-> time]}
  /\ UNCHANGED <<time, visits>>

TimePasses ==
  /\ time < MaxTime /\ time' = time + 1
  /\ UNCHANGED <<entry, visits, call, seen>>

LPNext == (\E k \in Calls : AskLive(k) \/ ProbeOver(k)) \/ TimePasses

LPSpec == LPInit /\ [][LPNext]_lpVars

----------------------------------------------------------------------------
(* What holds *)

(* A report judges, by the row of the url that was asked for, an answer its host
   gave to a probe that began less than the time to live before the call:
   however long probes take, and whichever of two that overlap is stored last. *)
ReportIsFresh ==
  \A k \in Calls : call[k] # Unknown /\ call[k].stage = "reported" =>
    \E a \in seen : /\ a.host = HostName[call[k].url]
                    /\ call[k].since - a.began < CACHE_TTL
                    /\ call[k].report = Report402(call[k].url, a.result)

----------------------------------------------------------------------------
(* What the repository says and the code does not do *)

(* live-probe-cache.js: "Return cached result if same host probed within 3s".  A
   probe that began earlier and ends later leaves its older entry, and the host
   is probed again although a probe of it began within that time and is over. *)
ProbesAreSpaced ==
  \A k \in Calls : call[k] # Unknown /\ call[k].stage = "probing" =>
    ~\E a \in seen : /\ a.host = HostName[call[k].url] /\ a.ended < call[k].since
                     /\ call[k].since - a.began < CACHE_TTL

(* probe-live.js: the second step of a report is "GET <url>", of the url that was
   asked for.  The answer may be that of another url of the host. *)
AnswerIsOfUrl ==
  \A k \in Calls : call[k] # Unknown /\ call[k].stage = "reported" =>
    \E a \in seen : a.url = call[k].url /\ call[k].report = Report402(call[k].url, a.result)
============================================================================
