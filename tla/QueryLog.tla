------------------------------ MODULE QueryLog ------------------------------
(* The log of the searches: raw rows are kept for a while, then folded into one
   row per day and term, chunk by chunk, by the server's hourly prune and by an
   operator's script in a process of its own, at the same time
   (src/src/services/query-log-rollup.js, src/src/db.js,
   src/scripts/ops/rollup-query-log.mjs).  Reports join the raw rows and the
   folded ones.  Time is in ticks, DayTicks to a day. *)
EXTENDS Naturals, FiniteSets, FiniteSetsExt, Functions, Sequences

CONSTANTS
  Terms,         \* what tells two searches apart: text, filters and user agent
  DayTicks,      \* ticks in a day
  RetentionTicks,\* how long a raw row is kept
  ChunkRows,     \* rows folded in one transaction
  MaxChunks,     \* chunks of one run of the server's prune
  MaxRows,       \* bound: searches logged
  MaxClock       \* bound: ticks

ASSUME QueryLogAssumption ==
  /\ DayTicks \in Nat \ {0} /\ RetentionTicks \in Nat
  /\ ChunkRows \in Nat \ {0} /\ MaxChunks \in Nat \ {0}
  /\ MaxRows \in Nat /\ MaxClock \in Nat

VARIABLES
  clock,  \* now
  log,    \* history: every search, in the order of its id
  raw,    \* ids of the rows in query_log
  daily,  \* rows of query_log_daily
  roller  \* the prune and the script: idle, or a cutoff and the chunks done

qlVars == <<clock, log, raw, daily, roller>>

Rollers == {"prune", "script"}
NotRolling == [at |-> "idle"]
Rolling(cutoff, n) == [at |-> "rolling", cutoff |-> cutoff, chunks |-> n]
Day(t) == t \div DayTicks

QLTypeOK ==
  /\ clock \in 0..MaxClock
  /\ log \in Seq([time : 0..MaxClock, term : Terms, zero : BOOLEAN])
  /\ raw \subseteq 1..Len(log) /\ Len(log) <= MaxRows
  /\ daily \subseteq [day : 0..Day(MaxClock), term : Terms, count : 1..MaxRows,
                      zeros : 0..MaxRows, first : 0..MaxClock, last : 0..MaxClock]
  /\ \A d, e \in daily : d.day = e.day /\ d.term = e.term => d = e
  /\ roller \in [Rollers -> {NotRolling} \cup
       [at : {"rolling"}, cutoff : 0..MaxClock, chunks : 0..(MaxChunks - 1)]]

QLInit ==
  /\ clock = 0 /\ log = <<>> /\ raw = {} /\ daily = {}
  /\ roller = [p \in Rollers |-> NotRolling]

----------------------------------------------------------------------------
(* Folding *)

Times(rows) == {log[i].time : i \in rows}

(* The GROUP BY of some rows: one row for the group of each of them. *)
Grouped(rows) ==
  LET Of(i) == {j \in rows : Day(log[j].time) = Day(log[i].time) /\ log[j].term = log[i].term}
  IN {[day |-> Day(log[i].time), term |-> log[i].term, count |-> Cardinality(Of(i)),
       zeros |-> Cardinality({j \in Of(i) : log[j].zero}),
       first |-> Min(Times(Of(i))), last |-> Max(Times(Of(i)))] : i \in rows}

SameKey(d, e) == d.day = e.day /\ d.term = e.term

Joined(d, e) ==
  [d EXCEPT !.count = @ + e.count, !.zeros = @ + e.zeros,
            !.first = Min({@, e.first}), !.last = Max({@, e.last})]

(* ON CONFLICT DO NOTHING. *)
FirstFoldOnly(old, rows) ==
  old \cup {e \in Grouped(rows) : \A d \in old : ~SameKey(d, e)}

(* ON CONFLICT DO UPDATE: a day may be folded in several chunks. *)
Fold(old, rows) ==
  LET new == Grouped(rows)
  IN {d \in old : \A e \in new : ~SameKey(d, e)}
     \cup {e \in new : \A d \in old : ~SameKey(d, e)}
     \cup {Joined(p[1], p[2]) : p \in {q \in old \X new : SameKey(q[1], q[2])}}

(* The oldest rows before the cutoff, by time and then by id. *)
Chunk(cutoff) ==
  LET due == {i \in raw : log[i].time < cutoff}
      Before(i, j) == \/ log[i].time < log[j].time
                      \/ log[i].time = log[j].time /\ i < j
  IN {i \in due : Cardinality({j \in due : Before(j, i)}) < ChunkRows}

----------------------------------------------------------------------------
(* The server is one thread: it logs nothing while it prunes. *)
LogQuery(t, z) ==
  /\ roller["prune"].at = "idle" /\ Len(log) < MaxRows
  /\ log' = Append(log, [time |-> clock, term |-> t, zero |-> z])
  /\ raw' = raw \cup {Len(log) + 1}
  /\ UNCHANGED <<clock, daily, roller>>

Cutoff == IF clock < RetentionTicks THEN 0 ELSE clock - RetentionTicks

(* The cutoff is computed once for all the chunks of a run. *)
RollupStarts(p) ==
  /\ roller[p].at = "idle"
  /\ roller' = [roller EXCEPT ![p] = Rolling(Cutoff, 0)]
  /\ UNCHANGED <<clock, log, raw, daily>>

(* One transaction that writes from its start: fold a chunk and delete it. *)
RollupChunk(p) ==
  LET chunk == Chunk(roller[p].cutoff)
      last == p = "script" \/ roller[p].chunks + 1 = MaxChunks
  IN /\ roller[p].at = "rolling" /\ chunk # {}
     /\ daily' = Fold(daily, chunk)
     /\ raw' = raw \ chunk
     /\ roller' = [roller EXCEPT ![p] =
                     IF last THEN NotRolling ELSE Rolling(@.cutoff, @.chunks + 1)]
     /\ UNCHANGED <<clock, log>>

RollupEnds(p) ==
  /\ roller[p].at = "rolling" /\ Chunk(roller[p].cutoff) = {}
  /\ roller' = [roller EXCEPT ![p] = NotRolling]
  /\ UNCHANGED <<clock, log, raw, daily>>

(* The process of one of them dies between two transactions. *)
RollerDies(p) ==
  /\ roller[p].at = "rolling"
  /\ roller' = [roller EXCEPT ![p] = NotRolling]
  /\ UNCHANGED <<clock, log, raw, daily>>

ClockTicks ==
  /\ clock < MaxClock /\ clock' = clock + 1
  /\ UNCHANGED <<log, raw, daily, roller>>

QLNext ==
  \/ \E t \in Terms, z \in BOOLEAN : LogQuery(t, z)
  \/ \E p \in Rollers :
       RollupStarts(p) \/ RollupChunk(p) \/ RollupEnds(p) \/ RollerDies(p)
  \/ ClockTicks

QLSpec == QLInit /\ [][QLNext]_qlVars

----------------------------------------------------------------------------
Earliest(times) == {t \in times : \A u \in times : t <= u}
Latest(times) == {t \in times : \A u \in times : t >= u}

(* What mcpAllTime reports, from the raw rows and the folded ones. *)
AllTime ==
  [total |-> Cardinality(raw) + SumFunctionOnSet([d \in daily |-> d.count], daily),
   activeDays |-> Cardinality({Day(log[i].time) : i \in raw}
                              \cup {d.day : d \in daily}),
   firstSeen |-> Earliest(Times(raw) \cup {d.first : d \in daily}),
   lastSeen |-> Latest(Times(raw) \cup {d.last : d \in daily})]

(* The same report from the whole log, as if nothing were ever folded. *)
AllTimeOfLog ==
  [total |-> Len(log),
   activeDays |-> Cardinality({Day(log[i].time) : i \in DOMAIN log}),
   firstSeen |-> Earliest(Times(DOMAIN log)),
   lastSeen |-> Latest(Times(DOMAIN log))]

(* Whatever was folded, in whatever chunks, by either process, with a crash or
   the other one between any two transactions: the report over raw and folded
   rows is that of the whole log, each day and term keeps its number of empty
   answers, and the rows a 7-day report reads are still raw. *)
SummaryIsExact ==
  /\ AllTime = AllTimeOfLog
  /\ Grouped(DOMAIN log) = Fold(daily, raw)
  /\ \A i \in DOMAIN log : log[i].time >= Cutoff => i \in raw
============================================================================
