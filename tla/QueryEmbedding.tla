--------------------------- MODULE QueryEmbedding ---------------------------
(* How a search gets the vector of its query: the cache of query vectors, the
   circuit breaker around the embeddings service with its single trial while
   half open, and the race of the call with a deadline
   (src/src/services/embeddings.js).  What the search does with the vector is
   VectorIndex.  Time is left out: sixty seconds is a step that can be taken
   once no call is out, since a read waits 1.5 s at most. *)
EXTENDS Naturals, Sequences, SequencesExt

CONSTANTS
  Reads,                  \* searches that may be under way at the same time
  Texts,                  \* query texts
  CIRCUIT_OPEN_THRESHOLD, \* failures in a row that open the circuit
  QUERY_CACHE_MAX,        \* query vectors kept
  MaxOutages              \* bound: times the embeddings service goes down

ASSUME QueryEmbeddingAssumption ==
  /\ CIRCUIT_OPEN_THRESHOLD \in Nat \ {0}
  /\ QUERY_CACHE_MAX \in Nat \ {0}
  /\ MaxOutages \in Nat

VARIABLES
  read,     \* per read: idle, or what it waits for, the circuit it saw, and
            \* whether the service was down while its call was out
  circuit,  \* closed, open or half-open, as getCircuitState computes it
  failures, \* consecutiveFailures, counted up to the threshold
  trial,    \* halfOpenTrialInFlight
  cache,    \* texts with a cached vector, the least recently used first
  up,       \* the embeddings service answers
  outages   \* times it went down

qeVars == <<read, circuit, failures, trial, cache, up, outages>>

NotReading == [at |-> "idle"]
Calling(t, saw) ==
  [at |-> "calling", text |-> t, saw |-> saw, hit |-> ~up]

QETypeOK ==
  /\ read \in [Reads -> {NotReading} \cup
       [at : {"calling"}, text : Texts, saw : {"closed", "half-open"},
        hit : BOOLEAN]]
  /\ circuit \in {"closed", "open", "half-open"}
  /\ failures \in 0..CIRCUIT_OPEN_THRESHOLD
  /\ trial \in BOOLEAN
  /\ cache \in Seq(Texts) /\ Len(cache) <= QUERY_CACHE_MAX
  /\ up \in BOOLEAN /\ outages \in 0..MaxOutages

QEInit ==
  /\ read = [s \in Reads |-> NotReading]
  /\ circuit = "closed" /\ failures = 0 /\ trial = FALSE
  /\ cache = <<>>
  /\ up = TRUE /\ outages = 0

----------------------------------------------------------------------------
(* The cache *)

Cached(t) == \E i \in DOMAIN cache : cache[i] = t

(* A hit or a store makes the text the most recently used one. *)
Touched(t) == Append(SelectSeq(cache, LAMBDA u : u # t), t)

(* A store puts the least recently used text out when the cache is full. *)
CacheWith(t) ==
  IF Len(Touched(t)) > QUERY_CACHE_MAX THEN Tail(Touched(t)) ELSE Touched(t)

----------------------------------------------------------------------------
(* One read *)

(* The vector is at hand: no call. *)
ReadCached(s, t) ==
  /\ read[s].at = "idle" /\ Cached(t)
  /\ cache' = Touched(t)
  /\ UNCHANGED <<read, circuit, failures, trial, up, outages>>

(* The circuit is closed, or half open with no trial out: the call is made. *)
ReadCalls(s, t) ==
  /\ read[s].at = "idle" /\ ~Cached(t)
  /\ circuit # "open"
  /\ circuit = "half-open" => ~trial
  /\ trial' = (trial \/ circuit = "half-open")
  /\ read' = [read EXCEPT ![s] = Calling(t, circuit)]
  /\ UNCHANGED <<circuit, failures, cache, up, outages>>

(* The trial is given back by its success only. *)
TrialKept(s) == trial /\ circuit' # "closed"

(* The finally of a read: the trial is over, however it ended. *)
TrialOver(s) == IF read[s].saw = "half-open" THEN FALSE ELSE trial

RecordSuccess == failures' = 0 /\ circuit' = "closed"

RecordFailure ==
  LET n == IF failures < CIRCUIT_OPEN_THRESHOLD THEN failures + 1 ELSE failures
  IN /\ failures' = n
     /\ circuit' = IF n >= CIRCUIT_OPEN_THRESHOLD THEN "open" ELSE circuit

(* The vector arrives before the deadline. *)
ReadAnswered(s) ==
  /\ read[s].at = "calling" /\ up
  /\ RecordSuccess
  /\ cache' = CacheWith(read[s].text)
  /\ trial' = TrialOver(s)
  /\ read' = [read EXCEPT ![s] = NotReading]
  /\ UNCHANGED <<up, outages>>

(* An error, or the deadline: the call that is still out is not looked at. *)
ReadFailed(s) ==
  /\ read[s].at = "calling" /\ read[s].hit
  /\ RecordFailure
  /\ trial' = TrialOver(s)
  /\ read' = [read EXCEPT ![s] = NotReading]
  /\ UNCHANGED <<cache, up, outages>>

----------------------------------------------------------------------------
(* Time, the service, the process *)

(* CIRCUIT_OPEN_DURATION_MS after the last failure. *)
CoolsDown ==
  /\ circuit = "open" /\ \A s \in Reads : read[s].at = "idle"
  /\ circuit' = "half-open"
  /\ UNCHANGED <<read, failures, trial, cache, up, outages>>

(* QUERY_CACHE_TTL_MS after it was stored a vector is not used any more. *)
VectorExpires(t) ==
  /\ Cached(t)
  /\ cache' = SelectSeq(cache, LAMBDA u : u # t)
  /\ UNCHANGED <<read, circuit, failures, trial, up, outages>>

ServiceFails ==
  /\ up /\ outages < MaxOutages
  /\ up' = FALSE /\ outages' = outages + 1
  /\ read' = [s \in Reads |-> IF read[s].at = "idle" THEN read[s]
                              ELSE [read[s] EXCEPT !.hit = TRUE]]
  /\ UNCHANGED <<circuit, failures, trial, cache>>

ServiceReturns ==
  /\ ~up /\ up' = TRUE
  /\ UNCHANGED <<read, circuit, failures, trial, cache, outages>>

QENext ==
  \/ \E s \in Reads, t \in Texts : ReadCached(s, t) \/ ReadCalls(s, t)
  \/ \E s \in Reads : ReadAnswered(s) \/ ReadFailed(s)
  \/ CoolsDown
  \/ \E t \in Texts : VectorExpires(t)
  \/ ServiceFails \/ ServiceReturns

QESpec == QEInit /\ [][QENext]_qeVars

(* A call ends by its deadline, the clock goes on, a cached vector expires.
   That searches for uncached texts keep coming is an assumption about the
   clients: a circuit nobody reads through cannot be tried. *)
QEFairness ==
  /\ \A s \in Reads : WF_qeVars(ReadAnswered(s) \/ ReadFailed(s))
  /\ WF_qeVars(\E s \in Reads, t \in Texts : ReadCalls(s, t))
  /\ WF_qeVars(CoolsDown)
  /\ \A t \in Texts : WF_qeVars(VectorExpires(t))

----------------------------------------------------------------------------
(* A half open circuit lets one call through, and halfOpenTrialInFlight tells of
   that call and of no other: it is up as long as a call that saw the circuit
   half open is out, the circuit is still half open then, and nobody else calls. *)
Out(s) == read[s].at = "calling"
OneTrial ==
  /\ trial <=> \E s \in Reads : Out(s) /\ read[s].saw = "half-open"
  /\ trial => circuit = "half-open"
  /\ circuit = "half-open" => \A r, s \in Reads : Out(r) /\ Out(s) => r = s

(* Once the embeddings service stays up, the circuit closes for good: the one
   trial that a half open circuit admits is always made, its end always makes
   room for the next, and no late failure reopens a circuit for ever. *)
CircuitHeals == <>[]up => <>[](circuit = "closed")
============================================================================
