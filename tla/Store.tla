------------------------------- MODULE Store -------------------------------
(***************************************************************************)
(* The crate store and what its two users do with it: the window, whose    *)
(* tasks each open the database for one operation, and the command line,   *)
(* which keeps it open.  Opening migrates the schema; a round is one row   *)
(* of rounds; the ping monitors of both programs add samples, and          *)
(* retention folds old samples into one row a minute.                      *)
(*                                                                         *)
(* SQLite is modelled as this code uses it: one transaction holds the      *)
(* write lock and is committed or rolled back as a whole, a reader sees    *)
(* what is committed, and who waits for the lock may give up.  A row of    *)
(* rounds is a function from its columns; the columns of the download      *)
(* stand for those of the upload.  Times are seconds of the wall clock,    *)
(* which may be set.                                                       *)
(***************************************************************************)
EXTENDS Integers, Sequences, FiniteSets, FiniteSetsExt, SequencesExt, Functions

CONSTANTS
  Clients,         \* connections
  Targets, Rtts,   \* names, and round-trip times a probe may measure
  None,            \* SQL NULL
  Results,         \* what run_round may return
  OldRounds,       \* rounds stored by version 1
  Minute, Day,     \* in seconds
  RetentionDays,   \* raw_ping_retention_days
  Lag,             \* longest time from a probe to the insert of its sample
  MaxClock, MaxWork, MaxOpens, MaxJumps

ASSUME TimeAssumption == {Minute, Day} \subseteq Nat \ {0} /\ {RetentionDays, Lag} \subseteq Nat
ASSUME ClientAssumption == None \notin Clients
\* Before version 3 there were only full rounds; rates are numbers or NULL.
ASSUME RoundAssumption ==
  /\ None \notin Nat
  /\ \A r \in OldRounds : r.kind = "full"
  /\ \A r \in Results \cup OldRounds : r.down \in Nat \cup {None}
ASSUME BoundAssumption == {MaxClock, MaxWork, MaxOpens, MaxJumps} \subseteq Nat

VARIABLES
  db,       \* what is committed
  writer,   \* the client whose transaction holds the write lock, or None
  view,     \* what that transaction sees, None without one
  pc,       \* what each connection is doing
  seen,     \* the version a connection has read, or the cutoff of its retention
  taken,    \* samples of a tick of a ping monitor that are not stored yet
  clock,
  opens, work, jumps,   \* work: rounds stored and ticks of ping monitors
  kept,     \* observer: the rounds stored, by id
  ever,     \* observer: every sample ever stored
  late      \* observer: minutes that got a sample after they were collapsed

counters == <<opens, work, jumps>>
observers == <<kept, ever, late>>
tx == <<writer, view>>
vars == <<db, tx, pc, seen, taken, clock, counters, observers>>

SCHEMA_VERSION == 3
V1Columns == {"started_at", "down_bps", "ping_idle_ms", "loss_pct", "bytes_down",
              "skipped_reason"}
V2Columns == {"loss_idle_pct"}
V3Columns == {"mode", "capped", "load_down_ms"}
Columns == V1Columns \cup V2Columns \cup V3Columns

-----------------------------------------------------------------------------
(* schema.rs: the steps of a migration, each with what it needs to succeed *)

WithColumns(d, default) ==
  [d EXCEPT !.columns = @ \cup DOMAIN default,
            !.rounds = [i \in DOMAIN @ |->
               [column \in DOMAIN @[i] \cup DOMAIN default |->
                  IF column \in DOMAIN default THEN default[column] ELSE @[i][column]]]]

\* CREATE TABLE IF NOT EXISTS.
V1(d) == IF d.columns = {} THEN [d EXCEPT !.columns = V1Columns] ELSE d

\* ALTER TABLE ADD COLUMN, and the idle baseline is copied.
V2(d) ==
  LET wider == WithColumns(d, [column \in V2Columns |-> None])
  IN  [wider EXCEPT !.rounds = [i \in DOMAIN @ |->
         [@[i] EXCEPT !["loss_idle_pct"] = wider.rounds[i]["loss_pct"]]]]

\* The defaults are the backfill: what is stored so far was a full round.
V3(d) ==
  WithColumns(d, [column \in V3Columns |->
    CASE column = "mode" -> "full" [] column = "capped" -> FALSE
      [] column = "load_down_ms" -> None])

Fits(d, step) ==
  CASE step = 1 -> TRUE
    [] step = 2 -> d.columns \cap V2Columns = {}
    [] step = 3 -> d.columns \cap V3Columns = {}
Migrated(d, step) ==
  CASE step = 1 -> V1(d) [] step = 2 -> V2(d) [] step = 3 -> V3(d)

-----------------------------------------------------------------------------
(* lib.rs: a round as a row, and the rows read back *)

\* Mutant: bytes are taken from the rate that was trusted.
BytesOfRate(r) == IF r.down = None THEN 0 ELSE r.window.bytes
bytes_moved(r) == IF r.window = None THEN 0 ELSE r.window.bytes
load_ms(r) == IF r.window = None THEN None ELSE r.window.ms

\* A phase that nothing answered has a loss and no time.
RoundRow(r, at) ==
  [column \in Columns |->
    CASE column = "started_at" -> at
      [] column = "mode" -> r.kind
      [] column = "down_bps" -> r.down
      [] column = "ping_idle_ms" -> IF r.ping = None THEN None ELSE r.ping.avg_ms
      [] column \in {"loss_pct", "loss_idle_pct"} ->
           IF r.ping = None THEN None ELSE r.ping.loss_pct
      [] column = "bytes_down" -> bytes_moved(r)
      [] column = "load_down_ms" -> load_ms(r)
      [] column = "capped" -> r.capped
      [] column = "skipped_reason" -> r.reason]

\* Rows of [from, to], oldest first, ids breaking ties.
Between(d, from, to) ==
  {id \in DOMAIN d.rounds : d.rounds[id]["started_at"] \in from .. to}
rounds_between(d, from, to) ==
  LET Before(i, j) == \/ d.rounds[i]["started_at"] < d.rounds[j]["started_at"]
                      \/ d.rounds[i]["started_at"] = d.rounds[j]["started_at"] /\ i < j
      Place(i) == 1 + Cardinality({j \in Between(d, from, to) : Before(j, i)})
  IN  [place \in 1 .. Cardinality(Between(d, from, to)) |->
         LET id == CHOOSE i \in Between(d, from, to) : Place(i) = place
         IN  [id |-> id, row |-> d.rounds[id]]]

\* AVG, MIN and MAX pass over NULL; the average is kept as a sum and a count.
MetricAgg(values) ==
  [sum |-> IF values = {} THEN None ELSE MapThenSumSet(LAMBDA v : v[2], values),
   count |-> Cardinality(values),
   min |-> IF values = {} THEN None ELSE Min({v[2] : v \in values}),
   max |-> IF values = {} THEN None ELSE Max({v[2] : v \in values})]
round_aggregates(d, from, to, column) ==
  MetricAgg({<<id, d.rounds[id][column]>> :
               id \in {i \in Between(d, from, to) : d.rounds[i][column] # None}})

\* A line of the export; a blank cell is None.
CsvLine(row) ==
  [column \in {"started_at", "mode", "down_bps", "ping_idle_ms", "loss_pct", "capped",
               "skipped_reason", "load_down_ms"} |-> row[column]]
export_rounds_csv(d, from, to) ==
  LET rows == rounds_between(d, from, to)
  IN  [i \in DOMAIN rows |-> CsvLine(rows[i].row)]

-----------------------------------------------------------------------------
(* retention.rs *)

MinuteOf(sample) == <<sample.target, sample.at \div Minute>>

\* Mutant: the cutoff may fall within a minute.
RawCutoff == clock - RetentionDays * Day
\* Mutant: everything before this minute is folded, whatever the setting.
CutoffNow == clock - (clock % Minute)
Cutoff == IF RawCutoff >= 0 THEN RawCutoff - (RawCutoff % Minute) ELSE RawCutoff

\* COALESCE: a minute nobody answered in has an average of zero, and loss 100.
MinuteAggregate(samples) ==
  LET answered == {<<s.id, s.rtt>> : s \in {t \in samples : t.rtt # None}}
      agg == MetricAgg(answered)
  IN  [avg_ms |-> IF answered = {} THEN <<0, 1>> ELSE <<agg.sum, agg.count>>,
       min_ms |-> IF answered = {} THEN 0 ELSE agg.min,
       max_ms |-> IF answered = {} THEN 0 ELSE agg.max,
       loss |-> <<Cardinality(samples) - agg.count, Cardinality(samples)>>]

Older(d, cutoff) == {s \in d.samples : s.at < cutoff}
\* ON CONFLICT DO UPDATE: the new aggregate takes the place of an old one.
Collapsed(d, cutoff) ==
  LET minutes == {MinuteOf(s) : s \in Older(d, cutoff)}
  IN  [d EXCEPT !.minutes = [m \in DOMAIN @ \cup minutes |->
         IF m \in minutes THEN MinuteAggregate({s \in Older(d, cutoff) : MinuteOf(s) = m})
         ELSE @[m]]]
Pruned(d, cutoff) == [d EXCEPT !.samples = @ \ Older(d, cutoff)]

-----------------------------------------------------------------------------
Free == writer = None
Holds(c) == writer = c

\* A database of any version, or none.
Init ==
  /\ \E version \in 0 .. SCHEMA_VERSION + 1, old \in OldRounds :
       LET made == Migrated([version |-> version, columns |-> {}, samples |-> {}, rounds |-> <<>>,
                             minutes |-> [m \in {} |-> None]], 1)
           first == [made EXCEPT !.rounds = <<Restrict(RoundRow(old, 0), V1Columns)>>]
       IN  /\ db = CASE version = 0 -> [made EXCEPT !.columns = {}]
                     [] version = 1 -> first
                     [] version = 2 -> V2(first)
                     [] version > 2 -> V3(V2(first))
           /\ kept = IF version = 0 THEN <<>> ELSE <<[result |-> old, at |-> 0]>>
  /\ writer = None /\ view = None
  /\ pc = [c \in Clients |-> "closed"]
  /\ seen = [c \in Clients |-> 0]
  /\ taken = [c \in Clients |-> {}]
  /\ clock = 0
  /\ opens = 0 /\ work = 0 /\ jumps = 0
  /\ ever = {}
  /\ late = {}

TypeOK ==
  /\ db.version \in 0 .. SCHEMA_VERSION + 1
  /\ db.columns = UNION {CASE n = 1 -> V1Columns [] n = 2 -> V2Columns [] n = 3 -> V3Columns :
                           n \in 1 .. Min({db.version, SCHEMA_VERSION})}
  /\ \A id \in DOMAIN db.rounds : DOMAIN db.rounds[id] = db.columns
  /\ \A c \in Clients :
       /\ pc[c] \in {"closed", "behind", "migrating", "open", "collapsed"}
       /\ pc[c] \in {"migrating", "collapsed"} <=> Holds(c)
       /\ pc[c] \in {"open", "collapsed"} => db.version = SCHEMA_VERSION

Goto(c, label) == pc' = [pc EXCEPT ![c] = label]

-----------------------------------------------------------------------------
(* Store::open *)

\* The version is read outside the transaction that migrates.
CheckVersion(c) ==
  /\ pc[c] = "closed"
  /\ opens < MaxOpens
  /\ opens' = opens + 1
  /\ db.version <= SCHEMA_VERSION
  /\ Goto(c, IF db.version = SCHEMA_VERSION THEN "open" ELSE "behind")
  /\ seen' = [seen EXCEPT ![c] = IF db.version = SCHEMA_VERSION THEN 0 ELSE db.version]
  /\ UNCHANGED <<db, tx, taken, clock, work, jumps, observers>>

BeginMigration(c) ==
  /\ pc[c] = "behind"
  /\ Free
  /\ writer' = c /\ view' = db
  /\ Goto(c, "migrating")
  /\ UNCHANGED <<db, seen, taken, clock, counters, observers>>

\* Mutant: every step is committed by itself.
MigrateAlone(c) ==
  /\ pc[c] = "migrating"
  /\ seen[c] < SCHEMA_VERSION
  /\ Fits(db, seen[c] + 1)
  /\ db' = Migrated(db, seen[c] + 1)
  /\ view' = db'
  /\ seen' = [seen EXCEPT ![c] = @ + 1]
  /\ UNCHANGED <<writer, pc, taken, clock, counters, observers>>
Migrate(c) ==
  /\ pc[c] = "migrating"
  /\ seen[c] < SCHEMA_VERSION
  /\ Fits(view, seen[c] + 1)
  /\ view' = Migrated(view, seen[c] + 1)
  /\ seen' = [seen EXCEPT ![c] = @ + 1]
  /\ UNCHANGED <<db, writer, pc, taken, clock, counters, observers>>

CommitMigration(c) ==
  /\ pc[c] = "migrating"
  /\ seen[c] = SCHEMA_VERSION
  /\ db' = [view EXCEPT !.version = SCHEMA_VERSION]
  /\ writer' = None /\ view' = None
  /\ Goto(c, "open")
  /\ seen' = [seen EXCEPT ![c] = 0]
  /\ UNCHANGED <<taken, clock, counters, observers>>

Leave(c) ==
  /\ Goto(c, "closed")
  /\ IF Holds(c) THEN writer' = None /\ view' = None ELSE UNCHANGED tx
  /\ taken' = [taken EXCEPT ![c] = {}]
  /\ seen' = [seen EXCEPT ![c] = 0]
  /\ UNCHANGED <<db, clock, counters, observers>>

\* A column is there already: another connection has migrated since the version
\* was read.  The transaction is rolled back and open returns the error.
MigrationFails(c) ==
  /\ pc[c] = "migrating"
  /\ seen[c] < SCHEMA_VERSION
  /\ ~Fits(view, seen[c] + 1)
  /\ Leave(c)

\* The write lock is not to be had in time.
Busy(c) == pc[c] = "behind" /\ ~Free /\ Leave(c)

-----------------------------------------------------------------------------
(* The operations of an open store *)

insert_round(c) ==
  /\ pc[c] = "open"
  /\ Free
  /\ work < MaxWork
  /\ work' = work + 1
  /\ \E r \in Results :
       /\ db' = [db EXCEPT !.rounds = Append(@, RoundRow(r, clock))]
       /\ kept' = Append(kept, [result |-> r, at |-> clock])
  /\ UNCHANGED <<tx, pc, seen, taken, clock, opens, jumps, ever, late>>

\* One tick of a ping monitor: every target is probed at once.
Tick(c) ==
  /\ pc[c] = "open"
  /\ taken[c] = {}
  /\ work < MaxWork
  /\ work' = work + 1
  /\ \E rtts \in [Targets -> Rtts \cup {None}] :
       taken' = [taken EXCEPT ![c] = {[id |-> work, target |-> target, at |-> clock,
                                       rtt |-> rtts[target]] : target \in Targets}]
  /\ UNCHANGED <<db, tx, pc, seen, clock, opens, jumps, observers>>

\* The probes are joined in any order, and each sample is stored by itself.
insert_ping_samples(c) ==
  /\ pc[c] = "open"
  /\ Free
  /\ \E sample \in taken[c] :
       /\ taken' = [taken EXCEPT ![c] = @ \ {sample}]
       /\ db' = [db EXCEPT !.samples = @ \cup {sample}]
       /\ ever' = ever \cup {sample}
       /\ late' = IF MinuteOf(sample) \in DOMAIN db.minutes THEN late \cup {MinuteOf(sample)}
                  ELSE late
  /\ UNCHANGED <<tx, pc, seen, clock, counters, kept>>

\* A sample that cannot be stored is reported or not, and given up.
SampleLost(c) ==
  /\ pc[c] = "open"
  /\ ~Free
  /\ \E sample \in taken[c] : taken' = [taken EXCEPT ![c] = @ \ {sample}]
  /\ UNCHANGED <<db, tx, pc, seen, clock, counters, observers>>

\* downsample_pings: collapse, then delete, in one transaction.
Collapse(c) ==
  /\ pc[c] = "open"
  /\ Free
  /\ Older(db, Cutoff) # {}
  /\ writer' = c /\ view' = Collapsed(db, Cutoff)
  /\ seen' = [seen EXCEPT ![c] = Cutoff]
  /\ Goto(c, "collapsed")
  /\ UNCHANGED <<db, taken, clock, counters, observers>>

Prune(c) ==
  /\ pc[c] = "collapsed"
  /\ db' = Pruned(view, seen[c])
  /\ writer' = None /\ view' = None
  /\ Goto(c, "open")
  /\ seen' = [seen EXCEPT ![c] = 0]
  /\ UNCHANGED <<taken, clock, counters, observers>>

\* The operation is over, or its program ends in the middle of it.
Close(c) == pc[c] # "closed" /\ Leave(c)

-----------------------------------------------------------------------------
\* Time passes; a probe and its insert are not further apart than Lag.
Pass ==
  /\ clock < MaxClock
  /\ \A c \in Clients : \A sample \in taken[c] : clock - sample.at < Lag
  /\ clock' = clock + 1
  /\ UNCHANGED <<db, tx, pc, seen, taken, counters, observers>>

SetClock ==
  /\ jumps < MaxJumps
  /\ jumps' = jumps + 1
  /\ \E time \in {0, MaxClock} : clock # time /\ clock' = time
  /\ UNCHANGED <<db, tx, pc, seen, taken, opens, work, observers>>

Next ==
  \/ \E c \in Clients :
       \/ CheckVersion(c) \/ BeginMigration(c) \/ Migrate(c) \/ CommitMigration(c)
       \/ MigrationFails(c) \/ Busy(c)
       \/ insert_round(c)
       \/ Tick(c) \/ insert_ping_samples(c) \/ SampleLost(c)
       \/ Collapse(c) \/ Prune(c)
       \/ Close(c)
  \/ Pass \/ SetClock

Spec == Init /\ [][Next]_vars

-----------------------------------------------------------------------------
(* What the stored evidence says *)

\* A minute is folded once and whole: its row tells of every sample ever stored
\* for it, crashes and repeated runs of the retention included, and no sample is
\* counted twice or lost (retention.rs: "Never split a one-minute bucket across
\* downsample runs").  Only a sample stored after its minute was folded escapes.
MinutesAreWhole ==
  /\ \A m \in DOMAIN db.minutes \ late :
       db.minutes[m] = MinuteAggregate({s \in ever : MinuteOf(s) = m})
  /\ \A s \in ever \ db.samples : MinuteOf(s) \in DOMAIN db.minutes
  /\ \A s \in db.samples : MinuteOf(s) \in DOMAIN db.minutes => MinuteOf(s) \in late

\* A sample is never that late unless the clock is set, as long as samples are
\* kept longer than it takes to store one.
OnTimeUnlessClockSet == jumps = 0 => late = {}

\* An export of any range holds the rounds of that range in the order of time,
\* whatever version stored them: a cell is blank when, and only when, that round
\* has no such reading, bytes that moved are never forgotten with a rate that
\* was not trusted, and an aggregate is of the readings alone.
EvidenceIsTrue ==
  db.version = SCHEMA_VERSION =>
    \A from, to \in {0} \cup {kept[id].at : id \in DOMAIN kept} :
      LET lines == export_rounds_csv(db, from, to)
          rows == rounds_between(db, from, to)
          down == round_aggregates(db, from, to, "down_bps")
          Ids == {id \in DOMAIN kept : kept[id].at \in from .. to}
      IN  /\ {rows[i].id : i \in DOMAIN rows} = Ids /\ Len(rows) = Cardinality(Ids)
          /\ \A i, j \in DOMAIN lines : i < j => lines[i]["started_at"] <= lines[j]["started_at"]
          /\ \A i \in DOMAIN lines :
               LET r == kept[rows[i].id].result
               IN  /\ lines[i]["mode"] = r.kind
                   /\ lines[i]["down_bps"] = r.down
                   /\ (lines[i]["ping_idle_ms"] = None) <=> (r.ping = None \/ r.ping.avg_ms = None)
                   /\ r.ping # None => rows[i].row["loss_idle_pct"] = r.ping.loss_pct
                   /\ lines[i]["skipped_reason"] = r.reason
                   /\ rows[i].row["bytes_down"] = (IF r.window = None THEN 0 ELSE r.window.bytes)
          /\ down.count = Cardinality({id \in Ids : kept[id].result.down # None})
          /\ (down.min = None) <=> (down.count = 0)

\* What schema.rs says of opening: "Safe to call on every Store::open".
OpenSucceeds == [][\A c \in Clients : ~MigrationFails(c)]_vars
=============================================================================
