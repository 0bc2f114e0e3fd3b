------------------------------ MODULE Scheduler ------------------------------
(* The life of the server process (scheduler.js, the handlers of db.js): a
   sweep every hour unless one is still running, a snapshot after the first
   sweep that ends on a day, signals and crashes.  Beside it a script fills the
   days before the first snapshot from known data points and interpolates
   between them (scripts/backfill-snapshots.mjs); it is a process of its own,
   commits statement by statement, and may be killed and run again.

   Of the columns of daily_snapshots two are kept: one every known point has,
   and one some of them lack. *)
EXTENDS Integers, FiniteSets, FiniteSetsExt

CONSTANTS
  HISTORICAL_DATA,  \* known points: [date, total, verified]
  Today,            \* the day the behaviour begins; days are numbers
  LastDay,          \* bound: the day it ends
  Counts,           \* what a capture may count: [total, verified]
  NULL

Dates == {p.date : p \in HISTORICAL_DATA}

ASSUME SchedulerAssumption ==
  /\ HISTORICAL_DATA # {} /\ LastDay \in Nat
  /\ HISTORICAL_DATA \subseteq [date : 1..LastDay, total : Nat, verified : Nat \union {NULL}]
  /\ \A p, q \in HISTORICAL_DATA : p.date = q.date => p = q
  /\ Counts \subseteq [total : Nat, verified : Nat]
  /\ Today \in 1..LastDay /\ NULL \notin Int

VARIABLES
  today,
  process,          \* up, or how it ended
  sweeping,         \* healthCheckRunning
  lastSnapshotDate,
  snapshot,         \* daily_snapshots, by date
  statements,       \* those the script has left; NULL when it is not running
  captured,         \* history: per day, what the server captured last
  filled            \* history: the script has come to its end

scVars == <<today, process, sweeping, lastSnapshotDate, snapshot, statements, captured, filled>>
server == <<process, sweeping, lastSnapshotDate, captured>>

Days == 1..LastDay
Snapshot(total, verified) == [total |-> total, verified |-> verified]
NoSnapshot == Snapshot(NULL, NULL)

SCTypeOK ==
  /\ today \in Today..LastDay
  /\ process \in {"up", "crashed", "told to stop"}
  /\ sweeping \in BOOLEAN /\ (sweeping => process = "up")
  /\ lastSnapshotDate \in {NULL} \union (Today..today)
  /\ \A d \in Days : snapshot[d].total \in Nat \union {NULL} /\ snapshot[d].verified \in Nat \union {NULL}
  /\ captured \in [Days -> Counts \union {NoSnapshot}]
  /\ filled \in BOOLEAN

SCInit ==
  /\ today = Today
  /\ process = "up" /\ sweeping = FALSE /\ lastSnapshotDate = NULL
  /\ snapshot = [d \in Days |-> NoSnapshot] /\ captured = snapshot
  /\ statements = NULL /\ filled = FALSE

----------------------------------------------------------------------------
(* The server *)

(* startScheduler: nothing is remembered of the process before. *)
Started ==
  /\ process # "up"
  /\ process' = "up" /\ sweeping' = FALSE /\ lastSnapshotDate' = NULL
  /\ UNCHANGED <<today, snapshot, statements, captured, filled>>

(* A tick while a sweep is running is only noted in scheduler_events. *)
RunHealthCheckGuarded ==
  /\ process = "up" /\ ~sweeping
  /\ sweeping' = TRUE
  /\ UNCHANGED <<today, process, lastSnapshotDate, snapshot, statements, captured, filled>>

(* captureSnapshot replaces the row of the day. *)
CaptureSnapshot ==
  \E c \in Counts :
    /\ snapshot' = [snapshot EXCEPT ![today] = c] /\ captured' = [captured EXCEPT ![today] = c]
    /\ lastSnapshotDate' = today

(* The sweep is over, or the disk too full for it: the day's snapshot, which may
   fail and is then tried again after the next sweep. *)
SweepOver ==
  /\ sweeping /\ sweeping' = FALSE
  /\ \/ lastSnapshotDate # today /\ CaptureSnapshot
     \/ UNCHANGED <<snapshot, captured, lastSnapshotDate>>
  /\ UNCHANGED <<today, process, statements, filled>>

(* SIGTERM or SIGINT.  The handlers run in the order they were registered: that
   of db.js, which closes the database and exits, is before the one that leads
   to shutdown, because server.js imports db.js. *)
Signal ==
  /\ process = "up"
  /\ process' = "told to stop" /\ sweeping' = FALSE /\ lastSnapshotDate' = NULL
  /\ UNCHANGED <<today, snapshot, statements, captured, filled>>

ServerCrash ==
  /\ process = "up"
  /\ process' = "crashed" /\ sweeping' = FALSE /\ lastSnapshotDate' = NULL
  /\ UNCHANGED <<today, snapshot, statements, captured, filled>>

Midnight ==
  /\ today < LastDay /\ today' = today + 1
  /\ UNCHANGED <<server, snapshot, statements, filled>>

----------------------------------------------------------------------------
(* backfill-snapshots.mjs *)

(* Math.round of the point between two others, k days after the first. *)
Between(a, b, field, k) ==
  LET n == b.date - a.date
  IN (2 * (a[field] * n + (b[field] - a[field]) * k) + n) \div (2 * n)

(* A statement of the script writes one day: the first pass inserts the known
   points, the second the totals between them, the third updates the verified
   counts; each goes from day to day. *)
Statement(pass, date, total, verified) == [pass |-> pass, date |-> date, is |-> Snapshot(total, verified)]
Sooner(s, t) == s.pass < t.pass \/ (s.pass = t.pass /\ s.date < t.date)

(* The days between two successive points. *)
Gaps(points) ==
  {g \in [from : points, to : points, date : Days] :
     /\ g.from.date < g.date /\ g.date < g.to.date
     /\ \A p \in points : p.date <= g.from.date \/ p.date >= g.to.date}

Filler(g, field) == Between(g.from, g.to, field, g.date - g.from.date)

KnownVerified == {p \in HISTORICAL_DATA : p.verified # NULL}

Statements ==
  {Statement(1, p.date, p.total, p.verified) : p \in HISTORICAL_DATA}
    \union {Statement(2, g.date, Filler(g, "total"), NULL) : g \in Gaps(HISTORICAL_DATA)}
    \union {Statement(3, g.date, NULL, Filler(g, "verified")) : g \in Gaps(KnownVerified)}

(* Bug: the interpolated count is written whatever is there. *)
Unconditionally(row, s) ==
  IF s.pass < 3 THEN IF row.total = NULL THEN s.is ELSE row
  ELSE IF row.total # NULL THEN [row EXCEPT !.verified = s.is.verified] ELSE row

(* The row of the statement's date after it: INSERT OR IGNORE, UPDATE ... WHERE
   verified_endpoints IS NULL. *)
After(row, s) ==
  IF s.pass < 3 THEN IF row.total = NULL THEN s.is ELSE row
  ELSE IF row.total # NULL /\ row.verified = NULL THEN [row EXCEPT !.verified = s.is.verified] ELSE row

BackfillRun ==
  /\ statements = NULL
  /\ statements' = Statements
  /\ UNCHANGED <<today, server, snapshot, filled>>

BackfillStatement ==
  /\ statements # NULL
  /\ \E s \in statements :
       /\ \A t \in statements \ {s} : Sooner(s, t)
       /\ snapshot' = [snapshot EXCEPT ![s.date] = After(@, s)]
       /\ statements' = statements \ {s}
  /\ UNCHANGED <<today, server, filled>>

BackfillDone ==
  /\ statements # NULL /\ statements = {}
  /\ statements' = NULL /\ filled' = TRUE
  /\ UNCHANGED <<today, server, snapshot>>

BackfillCut ==
  /\ statements # NULL
  /\ statements' = NULL
  /\ UNCHANGED <<today, server, snapshot, filled>>

----------------------------------------------------------------------------
SCNext ==
  \/ Started \/ RunHealthCheckGuarded \/ SweepOver \/ Signal \/ ServerCrash \/ Midnight
  \/ BackfillRun \/ BackfillStatement \/ BackfillDone \/ BackfillCut

SCSpec == SCInit /\ [][SCNext]_scVars

----------------------------------------------------------------------------
(* What holds *)

(* The value at a day on the line through the nearest points on either side. *)
OnTheLine(points, field, d) ==
  LET before == {p \in points : p.date <= d}
      beyond == {p \in points : p.date >= d}
      a == CHOOSE p \in before : \A q \in before : q.date <= p.date
      b == CHOOSE p \in beyond : \A q \in beyond : q.date >= p.date
  IN IF before = {} \/ beyond = {} THEN NULL
     ELSE IF a = b THEN a[field] ELSE Between(a, b, field, d - a.date)

(* Once the script has come to its end, every day between its first and last
   point has a row: the one the server captured, or the points and the lines
   between them.  Runs that were killed, later runs and captures in between
   change nothing about that. *)
BackfillSettles ==
  filled => \A d \in Min(Dates) .. Max(Dates) :
    snapshot[d] = IF captured[d] # NoSnapshot THEN captured[d]
                  ELSE Snapshot(OnTheLine(HISTORICAL_DATA, "total", d), OnTheLine(KnownVerified, "verified", d))

----------------------------------------------------------------------------
(* What the repository says and the code does not do *)

(* scheduler.js, shutdown: it waits for the health check batch to finish. *)
ShutdownWaits == [][process' = "told to stop" /\ process = "up" => ~sweeping]_scVars
==============================================================================
