----------------------------- MODULE StoreProofs -----------------------------
(***************************************************************************)
(* The database of Store, proved for any number of connections, targets,   *)
(* operations, crashes and clock changes, every length of a minute and of  *)
(* a day, and every retention.                                             *)
(***************************************************************************)
EXTENDS Store, FiniteSetTheorems, SequenceTheorems, WellFoundedInduction, TLAPS

Sample == [id : Nat, target : Targets, at : Nat, rtt : Rtts \cup {None}]

\* A value of the tables; what the rows hold does not matter to retention.
IsDb(d) ==
  /\ d = [version |-> d.version, columns |-> d.columns, samples |-> d.samples,
          rounds |-> d.rounds, minutes |-> d.minutes]
  /\ d.version \in 0 .. SCHEMA_VERSION + 1
  /\ d.samples \subseteq Sample
  /\ d.minutes = [m \in DOMAIN d.minutes |-> d.minutes[m]]

\* A connection holds the write lock exactly while it migrates or between the two
\* statements of a retention, and what it sees differs from what is committed
\* only by what it did itself.
LockInv ==
  /\ pc \in [Clients -> {"closed", "behind", "migrating", "open", "collapsed"}]
  /\ seen \in [Clients -> Int]
  /\ taken \in [Clients -> SUBSET Sample]
  /\ clock \in Nat /\ work \in Nat /\ jumps \in Nat
  /\ writer \in Clients \cup {None}
  /\ IsDb(db) /\ ever \subseteq Sample
  /\ \A c \in Clients : pc[c] \in {"migrating", "collapsed"} <=> Holds(c)
  /\ \A c \in Clients : pc[c] \in {"behind", "migrating"} => seen[c] \in 0 .. SCHEMA_VERSION
  /\ writer # None =>
       /\ IsDb(view) /\ view.samples = db.samples
       /\ pc[writer] = "migrating" => view.minutes = db.minutes
       /\ pc[writer] = "collapsed" => view = Collapsed(db, seen[writer])

\* A cutoff never falls within a minute.
SplitsNoMinute(cutoff) ==
  \A a, b \in Nat : a \div Minute = b \div Minute => (a < cutoff <=> b < cutoff)

CutoffInv == \A c \in Clients : pc[c] = "collapsed" => SplitsNoMinute(seen[c])

FoldInv == db.samples \subseteq ever /\ MinutesAreWhole

\* Every second of a folded minute is older than what retention keeps.
OldMinutes(d) ==
  \A m \in DOMAIN d.minutes : \A a \in Nat :
    a \div Minute = m[2] => a < clock - RetentionDays * Day

\* As long as the clock is not set, folded minutes are over for good, samples on
\* their way are fresh, and none has come late.
OnTimeInv ==
  jumps = 0 =>
    /\ late = {}
    /\ OldMinutes(db)
    /\ \A c \in Clients : pc[c] = "collapsed" => seen[c] <= clock - RetentionDays * Day
    /\ \A c \in Clients : \A s \in taken[c] : clock - s.at <= Lag

\* The columns of each version.
ColumnsOf(version) ==
  IF version = 0 THEN {}
  ELSE IF version = 1 THEN V1Columns
  ELSE IF version = 2 THEN V1Columns \cup V2Columns
  ELSE Columns

\* What is told of a round by every version: all but the two columns that were
\* not recorded before version 3.
Told == Columns \ {"capped", "load_down_ms"}

\* The tables of a version hold the rounds stored so far, in their order, and say
\* of each what it was.
Tells(d, version) ==
  /\ d.columns = ColumnsOf(version)
  /\ d.rounds = [id \in 1 .. Len(kept) |-> d.rounds[id]]
  /\ \A id \in 1 .. Len(kept) :
       /\ DOMAIN d.rounds[id] = d.columns
       /\ \A column \in d.columns \cap Told :
            d.rounds[id][column] = RoundRow(kept[id].result, kept[id].at)[column]
  /\ version = 0 => Len(kept) = 0

\* A version that was read is the version still, unless another connection has
\* migrated since; a migration never goes back, and an open store is up to date.
SchemaInv ==
  /\ kept \in Seq([result : Results \cup OldRounds, at : Nat])
  /\ Tells(db, db.version)
  /\ db.version < SCHEMA_VERSION => \A id \in 1 .. Len(kept) : kept[id].result \in OldRounds
  /\ \A c \in Clients :
       /\ pc[c] # "closed" => db.version <= SCHEMA_VERSION
       /\ pc[c] = "behind" => /\ seen[c] < SCHEMA_VERSION
                              /\ db.version \in {seen[c], SCHEMA_VERSION}
       /\ pc[c] = "migrating" => IF db.version = SCHEMA_VERSION
                                   THEN seen[c] < SCHEMA_VERSION /\ Tells(view, SCHEMA_VERSION)
                                   ELSE Tells(view, seen[c])
       /\ pc[c] \in {"open", "collapsed"} => db.version = SCHEMA_VERSION

-----------------------------------------------------------------------------
(***************************************************************************)
(* The cutoff.                                                             *)
(***************************************************************************)
\* What is left of a division is not negative and below the divisor.
LEMMA DivBelow ==
  ASSUME NEW d \in Nat \ {0}, NEW a \in Int
  PROVE  a >= d * (a \div d)
OBVIOUS

LEMMA DivAbove ==
  ASSUME NEW d \in Nat \ {0}, NEW a \in Int
  PROVE  a < d * (a \div d) + d
OBVIOUS

LEMMA DivRest ==
  ASSUME NEW d \in Nat \ {0}, NEW a \in Int
  PROVE  a % d = a - d * (a \div d) /\ a \div d \in Int
<1>1. a % d = a - d * (a \div d)
  OBVIOUS
<1>2. a \div d \in Int
  OBVIOUS
<1> QED
  BY <1>1, <1>2

LEMMA MinuteBounds ==
  ASSUME NEW a \in Int
  PROVE  /\ a \div Minute \in Int
         /\ Minute * (a \div Minute) <= a /\ a < Minute * (a \div Minute) + Minute
<1>1. Minute \in Nat \ {0}
  BY TimeAssumption
<1>2. a >= Minute * (a \div Minute)
  BY ONLY <1>1, a \in Int, DivBelow, Zenon
<1>3. a < Minute * (a \div Minute) + Minute
  BY ONLY <1>1, a \in Int, DivAbove, Zenon
<1>4. a \div Minute \in Int
  BY ONLY <1>1, a \in Int, DivRest, Zenon
<1>5. Minute * (a \div Minute) <= a
  <2> DEFINE below == Minute * (a \div Minute)
  <2>1. below \in Int
    BY <1>1, <1>4
  <2> HIDE DEF below
  <2>2. a >= below
    BY <1>2 DEF below
  <2>3. below <= a
    BY <2>1, <2>2
  <2> QED
    BY <2>3 DEF below
<1> QED
  BY ONLY <1>3, <1>4, <1>5, Zenon

LEMMA Multiples ==
  ASSUME NEW j \in Int, NEW k \in Int, j < k
  PROVE  Minute * j + Minute <= Minute * k
<1>1. Minute \in Nat \ {0}
  BY TimeAssumption
<1>2. k - j - 1 \in Nat
  OBVIOUS
<1>3. Minute * (k - j - 1) >= 0
  BY <1>1, <1>2
<1> QED
  BY <1>1, <1>3

\* An instant is before a whole number of minutes if its minute is.
LEMMA BeforeWholeMinutes ==
  ASSUME NEW a \in Nat, NEW k \in Int
  PROVE  a < Minute * k <=> a \div Minute < k
<1> DEFINE q == a \div Minute
<1>1. q \in Int /\ Minute * q <= a /\ a < Minute * q + Minute /\ Minute \in Nat \ {0}
  <2>1. Minute \in Nat \ {0} /\ a \in Int
    BY TimeAssumption
  <2> QED
    BY ONLY <2>1, MinuteBounds, Zenon
<1> HIDE DEF q
<1>2. q < k => Minute * q + Minute <= Minute * k
  BY <1>1, Multiples
<1>3. k < q => Minute * k + Minute <= Minute * q
  BY <1>1, Multiples
<1>4. k = q => Minute * k = Minute * q
  OBVIOUS
<1>5. Minute * k \in Int /\ Minute * q \in Int
  BY <1>1
<1>6. a < Minute * k <=> q < k
  BY <1>1, <1>2, <1>3, <1>4, <1>5
<1> QED
  BY <1>6 DEF q

\* retention.rs floors the cutoff to a minute; before the first day is over it is
\* below every instant.
LEMMA CutoffSplitsNoMinute ==
  ASSUME clock \in Nat
  PROVE  /\ Cutoff \in Int /\ Cutoff <= clock - RetentionDays * Day
         /\ SplitsNoMinute(Cutoff)
<1> DEFINE raw == clock - RetentionDays * Day
           q == raw \div Minute
<1>1. /\ raw \in Int /\ q \in Int /\ raw % Minute = raw - Minute * q
      /\ Minute * q <= raw /\ Minute * q \in Int
  <2>1. Minute \in Nat \ {0} /\ RetentionDays * Day \in Nat
    BY TimeAssumption
  <2>2. raw \in Int
    BY <2>1
  <2> HIDE DEF raw
  <2>3. q \in Int /\ Minute * q <= raw
    BY <2>2, MinuteBounds
  <2>4. raw % Minute = raw - Minute * q
    BY <2>1, <2>2
  <2> QED
    BY <2>1, <2>2, <2>3, <2>4
<1>2. Cutoff = IF raw >= 0 THEN raw - (raw % Minute) ELSE raw
  BY DEF Cutoff, RawCutoff
<1>3. raw >= 0 => Cutoff = Minute * q
  BY <1>1, <1>2
<1> HIDE DEF raw, q
<1>4. SplitsNoMinute(Cutoff)
  <2> SUFFICES ASSUME NEW a \in Nat, NEW b \in Nat, a \div Minute = b \div Minute
               PROVE  a < Cutoff <=> b < Cutoff
    BY DEF SplitsNoMinute
  <2>1. CASE raw >= 0
    <3>1. (a < Minute * q <=> a \div Minute < q) /\ (b < Minute * q <=> b \div Minute < q)
      BY <1>1, BeforeWholeMinutes
    <3> QED
      BY <1>3, <2>1, <3>1
  <2>2. CASE ~(raw >= 0)
    <3>1. Cutoff = raw
      BY <1>2, <2>2
    <3> QED
      BY <1>1, <2>2, <3>1
  <2> QED
    BY <2>1, <2>2
<1>5. Cutoff \in Int /\ Cutoff <= raw
  BY <1>1, <1>2, <1>3
<1> QED
  BY <1>4, <1>5 DEF raw

-----------------------------------------------------------------------------
(***************************************************************************)
(* Who holds the lock, and what it sees.                                   *)
(***************************************************************************)

\* No step of a migration touches samples or minutes.
LEMMA MigratedKeeps ==
  ASSUME NEW d, IsDb(d), NEW step \in 1 .. SCHEMA_VERSION
  PROVE  /\ IsDb(Migrated(d, step))
         /\ Migrated(d, step).samples = d.samples /\ Migrated(d, step).minutes = d.minutes
         /\ Migrated(d, step).version = d.version
<1> DEFINE Same(e) == IsDb(e) /\ e.samples = d.samples /\ e.minutes = d.minutes
                      /\ e.version = d.version
<1>1. ASSUME NEW e, Same(e), NEW default PROVE Same(WithColumns(e, default))
  <2> DEFINE columns == e.columns \cup DOMAIN default
             rows == [i \in DOMAIN e.rounds |->
                       [column \in DOMAIN e.rounds[i] \cup DOMAIN default |->
                          IF column \in DOMAIN default THEN default[column]
                                                       ELSE e.rounds[i][column]]]
  <2>1. WithColumns(e, default) = [e EXCEPT !.columns = columns, !.rounds = rows]
    BY DEF WithColumns
  <2> HIDE DEF columns, rows
  <2> QED
    BY <1>1, <2>1 DEF IsDb
<1>2. Same(V1(d))
  BY DEF V1, IsDb
<1>3. Same(V2(d))
  <2> DEFINE wider == WithColumns(d, [column \in V2Columns |-> None])
  <2>1. Same(wider)
    BY <1>1
  <2>2. V2(d) = [wider EXCEPT !.rounds = [i \in DOMAIN @ |->
                   [@[i] EXCEPT !["loss_idle_pct"] = wider.rounds[i]["loss_pct"]]]]
    BY DEF V2
  <2> HIDE DEF wider
  <2> QED
    BY <2>1, <2>2 DEF IsDb
<1>4. Same(V3(d))
  BY <1>1 DEF V3
<1> HIDE DEF Same
<1>5. Same(Migrated(d, step))
  BY <1>2, <1>3, <1>4 DEF Migrated, SCHEMA_VERSION
<1> QED
  BY <1>5 DEF Same

\* The statements of a retention touch nothing but samples and minutes.
LEMMA FoldKeeps ==
  ASSUME NEW d, IsDb(d), NEW cutoff
  PROVE  /\ IsDb(Collapsed(d, cutoff)) /\ Collapsed(d, cutoff).samples = d.samples
         /\ Collapsed(d, cutoff).version = d.version
         /\ IsDb(Pruned(d, cutoff)) /\ Pruned(d, cutoff).minutes = d.minutes
         /\ Pruned(d, cutoff).samples = d.samples \ Older(d, cutoff)
         /\ Pruned(d, cutoff).version = d.version
<1> DEFINE folded == {MinuteOf(s) : s \in Older(d, cutoff)}
           rows == [m \in DOMAIN d.minutes \cup folded |->
                      IF m \in folded
                        THEN MinuteAggregate({s \in Older(d, cutoff) : MinuteOf(s) = m})
                        ELSE d.minutes[m]]
<1>1. Collapsed(d, cutoff) = [d EXCEPT !.minutes = rows]
  BY DEF Collapsed
<1>2. rows = [m \in DOMAIN rows |-> rows[m]]
  OBVIOUS
<1>3. Pruned(d, cutoff) = [d EXCEPT !.samples = d.samples \ Older(d, cutoff)]
  BY DEF Pruned
<1> HIDE DEF rows
<1>4. IsDb(Collapsed(d, cutoff))
  BY <1>1, <1>2 DEF IsDb
<1>5. /\ Collapsed(d, cutoff).samples = d.samples
      /\ Collapsed(d, cutoff).version = d.version
  BY <1>1 DEF IsDb
<1> DEFINE left == d.samples \ Older(d, cutoff)
<1>6. left \subseteq Sample
  BY DEF IsDb
<1>7. Pruned(d, cutoff) = [d EXCEPT !.samples = left]
  BY <1>3
<1> HIDE DEF left
<1>8. IsDb(Pruned(d, cutoff)) /\ Pruned(d, cutoff).samples = left
  BY <1>6, <1>7 DEF IsDb
<1>9. Pruned(d, cutoff).minutes = d.minutes /\ Pruned(d, cutoff).version = d.version
  BY <1>7 DEF IsDb
<1> QED
  BY <1>4, <1>5, <1>8, <1>9 DEF left

\* A connection that leaves gives the lock back if it has it.
LEMMA LeaveKeepsLock ==
  ASSUME LockInv, NEW c \in Clients, Leave(c)
  PROVE  LockInv'
<1> USE DEF LockInv
<1>1. /\ pc' = [pc EXCEPT ![c] = "closed"] /\ seen' = [seen EXCEPT ![c] = 0]
      /\ taken' = [taken EXCEPT ![c] = {}]
      /\ UNCHANGED <<db, clock, work, jumps, ever>>
  BY DEF Leave, Goto, counters, observers
<1>2. CASE Holds(c)
  <2>1. writer = c /\ writer' = None
    BY <1>2 DEF Leave, Holds
  <2> QED
    BY <1>1, <2>1, ClientAssumption DEF Holds, SCHEMA_VERSION
<1>3. CASE ~Holds(c)
  <2>1. writer # c /\ writer' = writer /\ view' = view
    BY <1>3 DEF Leave, Holds, tx
  <2>2. writer # None => pc'[writer] = pc[writer] /\ seen'[writer] = seen[writer]
    BY <1>1, <2>1
  <2>3. writer # None /\ pc'[writer] = "collapsed" => view' = Collapsed(db, seen'[writer])
    BY <2>1, <2>2
  <2> QED
    BY <1>1, <2>1, <2>2, <2>3 DEF Holds, SCHEMA_VERSION, Collapsed, Older
<1> QED
  BY <1>2, <1>3

LEMMA LockInit == Init => LockInv
<1> SUFFICES ASSUME Init PROVE LockInv
  OBVIOUS
<1>1. IsDb(db)
  <2> DEFINE empty(version) ==
        [version |-> version, columns |-> {}, samples |-> {}, rounds |-> <<>>,
         minutes |-> [m \in {} |-> None]]
  <2>1. PICK version \in 0 .. SCHEMA_VERSION + 1, old \in OldRounds :
          LET made == Migrated(empty(version), 1)
              first == [made EXCEPT !.rounds = <<Restrict(RoundRow(old, 0), V1Columns)>>]
          IN  db = CASE version = 0 -> [made EXCEPT !.columns = {}]
                     [] version = 1 -> first
                     [] version = 2 -> V2(first)
                     [] version > 2 -> V3(V2(first))
    BY DEF Init
  <2> DEFINE made == Migrated(empty(version), 1)
             first == [made EXCEPT !.rounds = <<Restrict(RoundRow(old, 0), V1Columns)>>]
  <2>2. IsDb(empty(version))
    BY DEF IsDb
  <2>3. IsDb(made)
    BY <2>2, MigratedKeeps DEF SCHEMA_VERSION
  <2>4. IsDb([made EXCEPT !.columns = {}])
    <3> HIDE DEF made
    <3> QED
      BY <2>3 DEF IsDb
  <2>5. IsDb(first)
    <3> DEFINE row == <<Restrict(RoundRow(old, 0), V1Columns)>>
    <3> HIDE DEF made, row
    <3>1. IsDb([made EXCEPT !.rounds = row])
      BY <2>3 DEF IsDb
    <3> QED
      BY <3>1 DEF row
  <2> HIDE DEF made, first
  <2>6. IsDb(V2(first)) /\ IsDb(V3(V2(first)))
    <3>1. V2(first) = Migrated(first, 2) /\ V3(V2(first)) = Migrated(V2(first), 3)
      BY DEF Migrated
    <3>2. 2 \in 1 .. SCHEMA_VERSION /\ 3 \in 1 .. SCHEMA_VERSION
      BY DEF SCHEMA_VERSION
    <3>3. IsDb(V2(first))
      BY <2>5, <3>1, <3>2, MigratedKeeps
    <3> QED
      BY <3>1, <3>2, <3>3, MigratedKeeps
  <2>7. \/ db = [made EXCEPT !.columns = {}] \/ db = first \/ db = V2(first)
        \/ db = V3(V2(first))
    <3>1. db = CASE version = 0 -> [made EXCEPT !.columns = {}]
                 [] version = 1 -> first
                 [] version = 2 -> V2(first)
                 [] version > 2 -> V3(V2(first))
      BY <2>1 DEF made, first
    <3>2. version = 0 \/ version = 1 \/ version = 2 \/ version > 2
      BY DEF SCHEMA_VERSION
    <3> QED
      BY <3>1, <3>2
  <2> QED
    BY <2>4, <2>5, <2>6, <2>7
<1> QED
  BY <1>1, ClientAssumption DEF Init, LockInv, Holds

\* The lock changes hands only through BEGIN, COMMIT and ROLLBACK.
LEMMA LockStep == LockInv /\ [Next]_vars => LockInv'
<1> SUFFICES ASSUME LockInv, [Next]_vars PROVE LockInv'
  OBVIOUS
<1> USE DEF LockInv
<1>0. None \notin Clients
  BY ClientAssumption
<1>1. ASSUME NEW c \in Clients, CheckVersion(c) PROVE LockInv'
  <2>1. /\ pc[c] = "closed" /\ pc' = [pc EXCEPT ![c] = IF db.version = SCHEMA_VERSION
                                                         THEN "open" ELSE "behind"]
        /\ seen' = [seen EXCEPT ![c] = IF db.version = SCHEMA_VERSION THEN 0 ELSE db.version]
        /\ db.version <= SCHEMA_VERSION
        /\ UNCHANGED <<db, writer, view, taken, clock, work, jumps, ever>>
    BY <1>1 DEF CheckVersion, Goto, tx, observers
  <2>2. writer # c
    BY <2>1 DEF Holds
  <2>3. seen'[c] \in 0 .. SCHEMA_VERSION
    BY <2>1 DEF IsDb, SCHEMA_VERSION
  <2>4. writer # None => pc'[writer] = pc[writer] /\ seen'[writer] = seen[writer]
    BY <2>1, <2>2
  <2> QED
    BY <2>1, <2>2, <2>3, <2>4 DEF Holds, Collapsed, Older
<1>2. ASSUME NEW c \in Clients, BeginMigration(c) PROVE LockInv'
  BY <1>0, <1>2 DEF BeginMigration, Free, Goto, Holds, counters, observers
<1>3. ASSUME NEW c \in Clients, Migrate(c) PROVE LockInv'
  <2>1. /\ pc[c] = "migrating" /\ writer = c /\ view' = Migrated(view, seen[c] + 1)
        /\ seen' = [seen EXCEPT ![c] = @ + 1] /\ seen[c] + 1 \in 1 .. SCHEMA_VERSION
        /\ UNCHANGED <<db, writer, pc, taken, clock, work, jumps, ever>>
    BY <1>3 DEF Migrate, Holds, counters, observers, SCHEMA_VERSION
  <2>2. /\ IsDb(view') /\ view'.samples = view.samples /\ view'.minutes = view.minutes
    BY <1>0, <2>1, MigratedKeeps
  <2>3. seen'[c] \in 0 .. SCHEMA_VERSION /\ seen' \in [Clients -> Int]
    BY <2>1 DEF SCHEMA_VERSION
  <2> QED
    BY <1>0, <2>1, <2>2, <2>3 DEF Holds
<1>4. ASSUME NEW c \in Clients, CommitMigration(c) PROVE LockInv'
  <2>1. /\ pc[c] = "migrating" /\ writer = c /\ writer' = None
        /\ db' = [view EXCEPT !.version = SCHEMA_VERSION]
        /\ pc' = [pc EXCEPT ![c] = "open"] /\ seen' = [seen EXCEPT ![c] = 0]
        /\ UNCHANGED <<taken, clock, work, jumps, ever>>
    BY <1>4 DEF CommitMigration, Goto, Holds, counters, observers
  <2>2. IsDb(db')
    BY <1>0, <2>1 DEF IsDb, SCHEMA_VERSION
  <2> QED
    BY <1>0, <2>1, <2>2 DEF Holds, SCHEMA_VERSION
<1>5. ASSUME NEW c \in Clients, MigrationFails(c) \/ Busy(c) \/ Close(c) PROVE LockInv'
  BY <1>5, LeaveKeepsLock DEF MigrationFails, Busy, Close
<1>6. ASSUME NEW c \in Clients, insert_round(c) PROVE LockInv'
  <2>1. PICK r \in Results : db' = [db EXCEPT !.rounds = Append(@, RoundRow(r, clock))]
    BY <1>6 DEF insert_round
  <2>2. IsDb(db')
    <3> DEFINE rows == Append(db.rounds, RoundRow(r, clock))
    <3>1. db' = [db EXCEPT !.rounds = rows]
      BY <2>1
    <3> HIDE DEF rows
    <3> QED
      BY <3>1 DEF IsDb
  <2>3. writer = None /\ work' = work + 1 /\ UNCHANGED <<writer, view, pc, seen, taken, clock, jumps, ever>>
    BY <1>6 DEF insert_round, Free, tx
  <2> QED
    BY <1>0, <2>2, <2>3 DEF Holds
<1>7. ASSUME NEW c \in Clients, Tick(c) PROVE LockInv'
  <2>1. PICK rtts \in [Targets -> Rtts \cup {None}] :
          taken' = [taken EXCEPT ![c] = {[id |-> work, target |-> target, at |-> clock,
                                          rtt |-> rtts[target]] : target \in Targets}]
    BY <1>7 DEF Tick
  <2>2. {[id |-> work, target |-> target, at |-> clock, rtt |-> rtts[target]] : target \in Targets}
          \subseteq Sample
    BY DEF Sample
  <2>3. taken' \in [Clients -> SUBSET Sample]
    BY <2>1, <2>2
  <2>4. work' = work + 1 /\ UNCHANGED <<db, writer, view, pc, seen, clock, jumps, ever>>
    BY <1>7 DEF Tick, tx, observers
  <2> QED
    BY <2>3, <2>4 DEF Holds, Collapsed, Older
<1>8. ASSUME NEW c \in Clients, insert_ping_samples(c) PROVE LockInv'
  <2>1. PICK sample \in taken[c] :
          /\ taken' = [taken EXCEPT ![c] = @ \ {sample}]
          /\ db' = [db EXCEPT !.samples = @ \cup {sample}]
          /\ ever' = ever \cup {sample}
    BY <1>8 DEF insert_ping_samples
  <2>2. sample \in Sample
    OBVIOUS
  <2>3. IsDb(db')
    <3> DEFINE all == db.samples \cup {sample}
    <3>1. db' = [db EXCEPT !.samples = all] /\ all \subseteq Sample
      BY <2>1, <2>2 DEF IsDb
    <3> HIDE DEF all
    <3> QED
      BY <3>1 DEF IsDb
  <2>4. writer = None /\ UNCHANGED <<writer, view, pc, seen, clock, work, jumps>>
    BY <1>8 DEF insert_ping_samples, Free, tx, counters
  <2> QED
    BY <1>0, <2>1, <2>2, <2>3, <2>4 DEF Holds
<1>9. ASSUME NEW c \in Clients, SampleLost(c) PROVE LockInv'
  <2>1. taken' \in [Clients -> SUBSET Sample]
    BY <1>9 DEF SampleLost
  <2>2. UNCHANGED <<db, writer, view, pc, seen, clock, work, jumps, ever>>
    BY <1>9 DEF SampleLost, tx, counters, observers
  <2> QED
    BY <2>1, <2>2 DEF Holds, Collapsed, Older
<1>10. ASSUME NEW c \in Clients, Collapse(c) PROVE LockInv'
  <2>1. /\ pc[c] = "open" /\ writer = None /\ writer' = c /\ view' = Collapsed(db, Cutoff)
        /\ seen' = [seen EXCEPT ![c] = Cutoff] /\ pc' = [pc EXCEPT ![c] = "collapsed"]
        /\ UNCHANGED <<db, taken, clock, work, jumps, ever>>
    BY <1>10 DEF Collapse, Free, Goto, counters, observers
  <2> DEFINE cut == Cutoff
  <2>2. cut \in Int
    BY CutoffSplitsNoMinute
  <2>3. view' = Collapsed(db, cut) /\ seen' = [seen EXCEPT ![c] = cut]
    BY <2>1
  <2> HIDE DEF cut
  <2>4. IsDb(view') /\ view'.samples = db.samples
    BY <2>3, FoldKeeps
  <2>5. seen'[c] = cut /\ pc'[c] = "collapsed" /\ seen' \in [Clients -> Int]
    BY <2>1, <2>2, <2>3
  <2>6. view' = Collapsed(db', seen'[c])
    BY <2>1, <2>3, <2>5
  <2>7. view' = Collapsed(db, seen[writer])'
    BY <2>1, <2>6 DEF Collapsed, Older
  <2> QED
    BY <1>0, <2>1, <2>4, <2>5, <2>7 DEF Holds
<1>11. ASSUME NEW c \in Clients, Prune(c) PROVE LockInv'
  <2>1. /\ pc[c] = "collapsed" /\ writer = c /\ writer' = None /\ db' = Pruned(view, seen[c])
        /\ pc' = [pc EXCEPT ![c] = "open"] /\ seen' = [seen EXCEPT ![c] = 0]
        /\ UNCHANGED <<taken, clock, work, jumps, ever>>
    BY <1>11 DEF Prune, Goto, Holds, counters, observers
  <2>2. IsDb(db')
    BY <1>0, <2>1, FoldKeeps
  <2> QED
    BY <1>0, <2>1, <2>2 DEF Holds
<1>12. CASE Pass \/ SetClock
  <2>1. clock' \in Nat /\ jumps' \in Nat
    BY <1>12, BoundAssumption DEF Pass, SetClock, counters
  <2>2. UNCHANGED <<db, writer, view, pc, seen, taken, work, ever>>
    BY <1>12 DEF Pass, SetClock, tx, counters, observers
  <2> QED
    BY <2>1, <2>2 DEF Holds, Collapsed, Older
<1>13. CASE UNCHANGED vars
  BY <1>13 DEF vars, Holds, tx, counters, observers, Collapsed, Older
<1> QED
  BY <1>1, <1>2, <1>3, <1>4, <1>5, <1>6, <1>7, <1>8, <1>9, <1>10, <1>11, <1>12, <1>13 DEF Next

-----------------------------------------------------------------------------
(***************************************************************************)
(* The minutes.                                                            *)
(***************************************************************************)
LEMMA CutoffStep == LockInv /\ CutoffInv /\ [Next]_vars => CutoffInv'
<1> SUFFICES ASSUME LockInv, CutoffInv, [Next]_vars,
                    NEW c \in Clients, pc'[c] = "collapsed"
             PROVE  SplitsNoMinute(seen'[c])
  BY DEF CutoffInv, SplitsNoMinute
<1> USE DEF LockInv
<1>1. CASE Collapse(c)
  <2>1. seen'[c] = Cutoff
    BY <1>1 DEF Collapse
  <2> QED
    BY <2>1, CutoffSplitsNoMinute
<1>2. CASE ~Collapse(c)
  <2>1. pc[c] = "collapsed" /\ seen'[c] = seen[c]
    BY <1>2 DEF Next, CheckVersion, BeginMigration, Migrate, CommitMigration, MigrationFails,
                Busy, insert_round, Tick, insert_ping_samples, SampleLost, Collapse, Prune,
                Close, Leave, Goto, Pass, SetClock, vars
  <2> QED
    BY <2>1 DEF CutoffInv
<1> QED
  BY <1>1, <1>2

\* The samples of a minute that a retention folds are all the samples the
\* minute ever had, unless it was folded before.
LEMMA FoldedWhole ==
  ASSUME LockInv, FoldInv, NEW cutoff \in Int, SplitsNoMinute(cutoff),
         NEW s \in Older(db, cutoff), MinuteOf(s) \notin late
  PROVE  /\ MinuteOf(s) \notin DOMAIN db.minutes
         /\ {t \in Older(db, cutoff) : MinuteOf(t) = MinuteOf(s)}
              = {t \in ever : MinuteOf(t) = MinuteOf(s)}
<1> USE DEF LockInv, FoldInv, MinutesAreWhole
<1>1. s \in db.samples /\ s.at < cutoff
  BY DEF Older
<1>2. MinuteOf(s) \notin DOMAIN db.minutes
  BY <1>1
<1>3. ASSUME NEW t \in ever, MinuteOf(t) = MinuteOf(s)
      PROVE  t \in Older(db, cutoff)
  <2>1. t \in db.samples
    BY <1>2, <1>3
  <2>2. t.at \in Nat /\ s.at \in Nat
    BY <1>1, <2>1 DEF IsDb, Sample
  <2>3. t.at \div Minute = s.at \div Minute
    BY <1>3 DEF MinuteOf
  <2>4. t.at < cutoff
    BY <1>1, <2>2, <2>3 DEF SplitsNoMinute
  <2> QED
    BY <2>1, <2>4 DEF Older
<1>4. ASSUME NEW t \in Older(db, cutoff) PROVE t \in ever
  BY <1>4 DEF Older
<1> QED
  BY <1>2, <1>3, <1>4

\* COMMIT of a retention.
LEMMA PruneFolds ==
  ASSUME LockInv, CutoffInv, FoldInv, NEW c \in Clients, Prune(c)
  PROVE  FoldInv'
<1> USE DEF LockInv
<1> DEFINE cutoff == seen[c]
           old == Older(db, cutoff)
           folded == {MinuteOf(s) : s \in old}
<1>1. /\ writer = c /\ pc[c] = "collapsed" /\ c # None /\ db' = Pruned(view, cutoff)
      /\ UNCHANGED <<ever, late>>
  BY ClientAssumption DEF Prune, Holds, observers
<1>2. /\ view = Collapsed(db, cutoff) /\ IsDb(view) /\ view.samples = db.samples
      /\ SplitsNoMinute(cutoff) /\ cutoff \in Int
  BY <1>1 DEF CutoffInv
<1>3. Older(view, cutoff) = old
  BY <1>2 DEF Older
<1>4. db'.samples = db.samples \ old /\ db'.minutes = view.minutes
  BY <1>1, <1>2, <1>3, FoldKeeps
<1>5. view.minutes = [m \in DOMAIN db.minutes \cup folded |->
         IF m \in folded THEN MinuteAggregate({s \in old : MinuteOf(s) = m})
         ELSE db.minutes[m]]
  <2> DEFINE rows == [m \in DOMAIN db.minutes \cup folded |->
         IF m \in folded THEN MinuteAggregate({s \in old : MinuteOf(s) = m})
         ELSE db.minutes[m]]
  <2>1. Collapsed(db, cutoff) = [db EXCEPT !.minutes = rows]
    BY DEF Collapsed
  <2> HIDE DEF rows
  <2>2. [db EXCEPT !.minutes = rows].minutes = rows
    BY DEF IsDb
  <2> QED
    BY <1>2, <2>1, <2>2 DEF rows
<1> HIDE DEF cutoff, old
<1>6. ASSUME NEW m \in DOMAIN db'.minutes \ late
      PROVE  db'.minutes[m] = MinuteAggregate({s \in ever : MinuteOf(s) = m})
  <2>1. CASE m \in folded
    <3>1. PICK s \in old : m = MinuteOf(s)
      BY <2>1
    <3>2. {t \in old : MinuteOf(t) = m} = {t \in ever : MinuteOf(t) = m}
      BY <1>2, <1>6, <3>1, FoldedWhole DEF old
    <3>3. db'.minutes[m] = MinuteAggregate({t \in old : MinuteOf(t) = m})
      BY <1>4, <1>5, <2>1
    <3> QED
      BY <3>2, <3>3
  <2>2. CASE m \notin folded
    <3>1. m \in DOMAIN db.minutes \ late /\ db'.minutes[m] = db.minutes[m]
      BY <1>4, <1>5, <1>6, <2>2
    <3> QED
      BY <3>1 DEF FoldInv, MinutesAreWhole
  <2> QED
    BY <2>1, <2>2
<1>7. DOMAIN db'.minutes = DOMAIN db.minutes \cup folded
  BY <1>4, <1>5
<1>8. \A s \in ever \ db'.samples : MinuteOf(s) \in DOMAIN db'.minutes
  BY <1>4, <1>7 DEF FoldInv, MinutesAreWhole
<1>9. ASSUME NEW s \in db'.samples, MinuteOf(s) \in DOMAIN db'.minutes
      PROVE  MinuteOf(s) \in late
  <2>1. s \in db.samples /\ s \notin old
    BY <1>4
  <2>2. CASE MinuteOf(s) \in folded
    <3>1. PICK t \in old : MinuteOf(s) = MinuteOf(t)
      BY <2>2
    <3>2. s.at \in Nat /\ t.at \in Nat /\ t.at < cutoff
      BY <2>1, <3>1 DEF old, Older, IsDb, Sample
    <3>3. s.at \div Minute = t.at \div Minute
      BY <3>1 DEF MinuteOf
    <3>4. s.at < cutoff
      BY <1>2, <3>2, <3>3 DEF SplitsNoMinute
    <3> QED
      BY <2>1, <3>4 DEF old, Older
  <2>3. CASE MinuteOf(s) \in DOMAIN db.minutes
    BY <2>1, <2>3 DEF FoldInv, MinutesAreWhole
  <2> QED
    BY <1>7, <1>9, <2>2, <2>3
<1>10. db'.samples \subseteq ever'
  BY <1>1, <1>4 DEF FoldInv
<1> QED
  BY <1>1, <1>6, <1>8, <1>9, <1>10 DEF FoldInv, MinutesAreWhole

\* A sample stored for a folded minute is remembered as late; one for an open
\* minute joins the others of the minute.
LEMMA InsertFolds ==
  ASSUME LockInv, FoldInv, NEW c \in Clients, insert_ping_samples(c)
  PROVE  FoldInv'
<1> USE DEF LockInv, FoldInv, MinutesAreWhole
<1>1. PICK sample \in taken[c] :
        /\ db' = [db EXCEPT !.samples = @ \cup {sample}]
        /\ ever' = ever \cup {sample}
        /\ late' = IF MinuteOf(sample) \in DOMAIN db.minutes THEN late \cup {MinuteOf(sample)}
                   ELSE late
  BY DEF insert_ping_samples
<1>2. db'.samples = db.samples \cup {sample} /\ db'.minutes = db.minutes
  BY <1>1 DEF IsDb
<1>3. ASSUME NEW m \in DOMAIN db.minutes \ late'
      PROVE  {s \in ever' : MinuteOf(s) = m} = {s \in ever : MinuteOf(s) = m}
  BY <1>1, <1>3
<1>4. ASSUME NEW m \in DOMAIN db'.minutes \ late'
      PROVE  db'.minutes[m] = MinuteAggregate({s \in ever' : MinuteOf(s) = m})
  <2>1. m \in DOMAIN db.minutes \ late
    BY <1>1, <1>2, <1>4
  <2> QED
    BY <1>2, <1>3, <1>4, <2>1
<1>5. \A s \in ever' \ db'.samples : MinuteOf(s) \in DOMAIN db'.minutes
  BY <1>1, <1>2
<1>6. \A s \in db'.samples : MinuteOf(s) \in DOMAIN db'.minutes => MinuteOf(s) \in late'
  BY <1>1, <1>2
<1> QED
  BY <1>1, <1>2, <1>4, <1>5, <1>6

\* Nothing but the insert of a sample and the COMMIT of a retention changes the
\* samples, the minutes, and what the observers say of them.
LEMMA OthersKeep ==
  ASSUME LockInv, [Next]_vars, ~(\E c \in Clients : insert_ping_samples(c) \/ Prune(c))
  PROVE  /\ db'.samples = db.samples /\ db'.minutes = db.minutes
         /\ ever' = ever /\ late' = late
<1>1. ASSUME NEW c \in Clients, CommitMigration(c)
      PROVE  db'.samples = db.samples /\ db'.minutes = db.minutes
  <2>1. writer = c /\ c # None /\ pc[c] = "migrating"
    BY <1>1, ClientAssumption DEF CommitMigration, LockInv, Holds
  <2>2. db' = [view EXCEPT !.version = SCHEMA_VERSION]
    BY <1>1 DEF CommitMigration
  <2> QED
    BY <2>1, <2>2 DEF LockInv, IsDb
<1>2. ASSUME NEW c \in Clients, insert_round(c)
      PROVE  db'.samples = db.samples /\ db'.minutes = db.minutes
  <2>1. PICK rows : db' = [db EXCEPT !.rounds = rows]
    BY <1>2 DEF insert_round
  <2> QED
    BY <2>1 DEF LockInv, IsDb
<1>3. CASE ~(\E c \in Clients : CommitMigration(c) \/ insert_round(c))
  BY <1>3
     DEF Next, CheckVersion, BeginMigration, Migrate, MigrationFails, Busy, Tick,
         SampleLost, Collapse, Close, Leave, Pass, SetClock, vars, observers
<1>4. ever' = ever /\ late' = late
  BY DEF Next, CheckVersion, BeginMigration, Migrate, CommitMigration, MigrationFails,
         Busy, insert_round, Tick, SampleLost, Collapse, Close, Leave, Pass, SetClock,
         vars, observers
<1> QED
  BY <1>1, <1>2, <1>3, <1>4

LEMMA FoldStep == LockInv /\ CutoffInv /\ FoldInv /\ [Next]_vars => FoldInv'
<1> SUFFICES ASSUME LockInv, CutoffInv, FoldInv, [Next]_vars PROVE FoldInv'
  OBVIOUS
<1>1. ASSUME NEW c \in Clients, insert_ping_samples(c) PROVE FoldInv'
  BY <1>1, InsertFolds
<1>2. ASSUME NEW c \in Clients, Prune(c) PROVE FoldInv'
  BY <1>2, PruneFolds
<1>3. CASE ~(\E c \in Clients : insert_ping_samples(c) \/ Prune(c))
  BY <1>3, OthersKeep DEF FoldInv, MinutesAreWhole
<1> QED
  BY <1>1, <1>2, <1>3

\* No sample has been stored and none is folded.
LEMMA FoldInit == Init => CutoffInv /\ FoldInv /\ DOMAIN db.minutes = {}
<1> SUFFICES ASSUME Init PROVE CutoffInv /\ FoldInv /\ DOMAIN db.minutes = {}
  OBVIOUS
<1>1. CutoffInv
  BY DEF Init, CutoffInv
<1>2. db.samples = {} /\ DOMAIN db.minutes = {}
  <2> DEFINE empty(version) ==
        [version |-> version, columns |-> {}, samples |-> {}, rounds |-> <<>>,
         minutes |-> [m \in {} |-> None]]
             Bare(d) == IsDb(d) /\ d.samples = {} /\ DOMAIN d.minutes = {}
  <2>1. PICK version \in 0 .. SCHEMA_VERSION + 1, old \in OldRounds :
          LET made == Migrated(empty(version), 1)
              first == [made EXCEPT !.rounds = <<Restrict(RoundRow(old, 0), V1Columns)>>]
          IN  db = CASE version = 0 -> [made EXCEPT !.columns = {}]
                     [] version = 1 -> first
                     [] version = 2 -> V2(first)
                     [] version > 2 -> V3(V2(first))
    BY DEF Init
  <2> DEFINE made == Migrated(empty(version), 1)
             row == <<Restrict(RoundRow(old, 0), V1Columns)>>
             first == [made EXCEPT !.rounds = row]
  <2>2. Bare(empty(version))
    BY DEF IsDb
  <2>3. Bare(made)
    <3> HIDE DEF empty
    <3>1. 1 \in 1 .. SCHEMA_VERSION
      BY DEF SCHEMA_VERSION
    <3> QED
      BY <2>2, <3>1, MigratedKeeps
  <2>4. \/ db = [made EXCEPT !.columns = {}] \/ db = first \/ db = V2(first)
        \/ db = V3(V2(first))
    <3>1. db = CASE version = 0 -> [made EXCEPT !.columns = {}]
                 [] version = 1 -> first
                 [] version = 2 -> V2(first)
                 [] version > 2 -> V3(V2(first))
      BY <2>1 DEF made, first, row
    <3>2. version = 0 \/ version = 1 \/ version = 2 \/ version > 2
      BY DEF SCHEMA_VERSION
    <3> QED
      BY <3>1, <3>2
  <2> HIDE DEF made, row
  <2>5. Bare(first) /\ Bare([made EXCEPT !.columns = {}])
    <3> DEFINE none == [made EXCEPT !.columns = {}]
    <3>1. IsDb(made)
      BY <2>3
    <3>2. IsDb(first)
      BY <3>1 DEF IsDb
    <3>3. IsDb(none)
      BY <3>1 DEF IsDb
    <3>4. first.samples = made.samples /\ none.samples = made.samples
      BY <3>1 DEF IsDb
    <3>5. first.minutes = made.minutes /\ none.minutes = made.minutes
      BY <3>1 DEF IsDb
    <3> HIDE DEF none
    <3> QED
      BY <2>3, <3>2, <3>3, <3>4, <3>5 DEF none
  <2> HIDE DEF first
  <2>6. Bare(V2(first)) /\ Bare(V3(V2(first)))
    <3>1. V2(first) = Migrated(first, 2) /\ V3(V2(first)) = Migrated(V2(first), 3)
      BY DEF Migrated
    <3>2. 2 \in 1 .. SCHEMA_VERSION /\ 3 \in 1 .. SCHEMA_VERSION
      BY DEF SCHEMA_VERSION
    <3>3. Bare(V2(first))
      BY <2>5, <3>1, <3>2, MigratedKeeps
    <3> QED
      BY <3>1, <3>2, <3>3, MigratedKeeps
  <2> QED
    BY <2>4, <2>5, <2>6
<1> QED
  BY <1>1, <1>2 DEF Init, FoldInv, MinutesAreWhole

\* A minute in the past stays in the past; a sample on its way belongs to no
\* minute that a retention has folded.
LEMMA OnTimeStep ==
  ASSUME Lag <= RetentionDays * Day
  PROVE  LockInv /\ CutoffInv /\ OnTimeInv /\ [Next]_vars => OnTimeInv'
<1> SUFFICES ASSUME LockInv, CutoffInv, OnTimeInv, [Next]_vars, jumps' = 0
             PROVE  (/\ late = {}
                     /\ OldMinutes(db)
                     /\ \A c \in Clients : pc[c] = "collapsed" => seen[c] <= clock - RetentionDays * Day
                     /\ \A c \in Clients : \A s \in taken[c] : clock - s.at <= Lag)'
  BY DEF OnTimeInv
<1> DEFINE kept_for == RetentionDays * Day
<1>1. /\ kept_for \in Nat /\ Lag \in Nat /\ Lag <= kept_for
      /\ clock \in Nat /\ clock' \in Nat /\ jumps \in Nat
  BY TimeAssumption, LockStep DEF LockInv
<1>2. clock <= clock' /\ jumps = 0
  <2>1. clock' = clock \/ clock' = clock + 1
    BY <1>1 DEF Next, CheckVersion, BeginMigration, Migrate, CommitMigration, MigrationFails,
           Busy, insert_round, Tick, insert_ping_samples, SampleLost, Collapse, Prune, Close,
           Leave, Pass, SetClock, vars
  <2>2. jumps' = jumps
    BY <1>1 DEF Next, CheckVersion, BeginMigration, Migrate, CommitMigration, MigrationFails,
           Busy, insert_round, Tick, insert_ping_samples, SampleLost, Collapse, Prune, Close,
           Leave, Pass, SetClock, vars, counters
  <2> QED
    BY <1>1, <2>1, <2>2
<1>3. /\ late = {} /\ OldMinutes(db)
      /\ \A c \in Clients : pc[c] = "collapsed" => seen[c] <= clock - kept_for
      /\ \A c \in Clients : \A s \in taken[c] : clock - s.at <= Lag
  BY <1>2 DEF OnTimeInv
<1> HIDE DEF kept_for
<1>4. ASSUME NEW c \in Clients, pc'[c] = "collapsed"
      PROVE  seen'[c] <= clock' - kept_for
  <2>1. CASE Collapse(c)
    <3>1. seen'[c] = Cutoff /\ clock' = clock
      BY <2>1 DEF Collapse, LockInv
    <3> QED
      BY <1>1, <3>1, CutoffSplitsNoMinute DEF kept_for
  <2>2. CASE ~Collapse(c)
    <3>1. pc[c] = "collapsed" /\ seen'[c] = seen[c]
      BY <1>4, <2>2
         DEF Next, CheckVersion, BeginMigration, Migrate, CommitMigration, MigrationFails,
             Busy, insert_round, Tick, insert_ping_samples, SampleLost, Collapse, Prune,
             Close, Leave, Goto, Pass, SetClock, vars, LockInv
    <3>2. seen[c] \in Int
      BY DEF LockInv
    <3> QED
      BY <1>1, <1>2, <1>3, <3>1, <3>2
  <2> QED
    BY <2>1, <2>2
<1>5. ASSUME NEW c \in Clients, NEW s \in taken'[c]
      PROVE  clock' - s.at <= Lag
  <2>0. s.at \in Nat
    BY <1>5, LockStep DEF LockInv, Sample
  <2>1. CASE Tick(c)
    <3>1. PICK rtts : taken' = [taken EXCEPT ![c] = {[id |-> work, target |-> target, at |-> clock,
                                     rtt |-> rtts[target]] : target \in Targets}]
      BY <2>1 DEF Tick
    <3>2. s.at = clock /\ clock' = clock
      BY <1>5, <2>1, <3>1 DEF Tick, LockInv
    <3> QED
      BY <1>1, <3>2
  <2>2. CASE Pass
    <3>1. clock' = clock + 1 /\ s \in taken[c] /\ clock - s.at < Lag
      BY <1>5, <2>2 DEF Pass
    <3> QED
      BY <1>1, <2>0, <3>1
  <2>3. CASE ~Tick(c) /\ ~Pass
    <3>1. s \in taken[c]
      BY <1>5, <2>3
         DEF Next, CheckVersion, BeginMigration, Migrate, CommitMigration, MigrationFails,
             Busy, insert_round, Tick, insert_ping_samples, SampleLost, Collapse, Prune,
             Close, Leave, Goto, SetClock, vars, LockInv
    <3>2. clock' = clock
      BY <1>1, <1>2, <2>3
         DEF Next, CheckVersion, BeginMigration, Migrate, CommitMigration, MigrationFails,
             Busy, insert_round, Tick, insert_ping_samples, SampleLost, Collapse, Prune,
             Close, Leave, SetClock, vars
    <3> QED
      BY <1>3, <3>1, <3>2
  <2> QED
    BY <2>1, <2>2, <2>3
<1>6. ASSUME NEW m \in DOMAIN db'.minutes, NEW a \in Nat, a \div Minute = m[2]
      PROVE  a < clock' - kept_for
  <2>1. CASE m \in DOMAIN db.minutes
    <3>1. a < clock - kept_for
      BY <1>3, <1>6, <2>1 DEF OldMinutes, kept_for
    <3> QED
      <4>1. \A now \in Nat, later \in Nat, k \in Nat :
              a < now - k /\ now <= later => a < later - k
        OBVIOUS
      <4> QED
        BY ONLY <1>1, <1>2, <3>1, <4>1
  <2>2. CASE m \notin DOMAIN db.minutes
    <3>1. PICK c \in Clients : Prune(c)
      <4>1. ASSUME NEW c \in Clients, insert_ping_samples(c)
            PROVE  db'.minutes = db.minutes
        BY <4>1 DEF insert_ping_samples, LockInv, IsDb
      <4> QED
        BY <1>6, <2>2, <4>1, OthersKeep
    <3>2. /\ c # None /\ writer = c /\ pc[c] = "collapsed" /\ db' = Pruned(view, seen[c])
          /\ clock' = clock
      BY <3>1, ClientAssumption DEF Prune, Holds, LockInv
    <3>3. view = Collapsed(db, seen[c]) /\ IsDb(view) /\ IsDb(db) /\ seen[c] \in Int
      BY <3>2 DEF LockInv
    <3>4. m \in DOMAIN view.minutes
      BY <1>6, <3>2, <3>3, FoldKeeps
    <3>5. PICK s \in Older(db, seen[c]) : m = MinuteOf(s)
      <4> DEFINE folded == {MinuteOf(s) : s \in Older(db, seen[c])}
                 rows == [k \in DOMAIN db.minutes \cup folded |->
                            IF k \in folded
                              THEN MinuteAggregate({s \in Older(db, seen[c]) : MinuteOf(s) = k})
                              ELSE db.minutes[k]]
      <4>1. view = [db EXCEPT !.minutes = rows]
        BY <3>3 DEF Collapsed
      <4>2. DOMAIN rows = DOMAIN db.minutes \cup folded
        OBVIOUS
      <4> HIDE DEF rows
      <4>3. view.minutes = rows
        BY <3>3, <4>1 DEF IsDb
      <4> QED
        BY <2>2, <3>4, <4>2, <4>3
    <3>6. s.at \in Nat /\ s.at < seen[c] /\ s.at \div Minute = a \div Minute
      BY <1>6, <3>3, <3>5 DEF Older, IsDb, Sample, MinuteOf
    <3>7. SplitsNoMinute(seen[c])
      BY <3>2 DEF CutoffInv
    <3>8. a < seen[c]
      BY <3>6, <3>7 DEF SplitsNoMinute
    <3>9. seen[c] <= clock - kept_for
      BY <1>3, <3>2
    <3> QED
      BY <1>1, <3>2, <3>3, <3>8, <3>9
  <2> QED
    BY <2>1, <2>2
<1>7. late' = {}
  <2>1. ASSUME NEW c \in Clients, insert_ping_samples(c) PROVE late' = {}
    <3>1. PICK s \in taken[c] :
            late' = IF MinuteOf(s) \in DOMAIN db.minutes THEN late \cup {MinuteOf(s)} ELSE late
      BY <2>1 DEF insert_ping_samples
    <3>2. clock - s.at <= Lag /\ s.at \in Nat
      BY <1>3 DEF LockInv, Sample
    <3>3. ~(s.at < clock - kept_for)
      BY <1>1, <3>2
    <3>4. MinuteOf(s) \notin DOMAIN db.minutes
      BY <1>3, <3>2, <3>3 DEF OldMinutes, MinuteOf, kept_for
    <3> QED
      BY <1>3, <3>1, <3>4
  <2>2. ASSUME NEW c \in Clients, Prune(c) PROVE late' = {}
    BY <1>3, <2>2 DEF Prune, observers
  <2> QED
    BY <1>3, <2>1, <2>2, OthersKeep
<1>8. OldMinutes(db)'
  BY <1>6 DEF OldMinutes, kept_for
<1> QED
  BY <1>4, <1>5, <1>7, <1>8 DEF kept_for

\* The samples of a minute are folded together, and each of them once.
THEOREM MinutesStayWhole == Spec => []MinutesAreWhole
<1>1. Init => LockInv /\ CutoffInv /\ FoldInv
  BY LockInit, FoldInit
<1>2. LockInv /\ CutoffInv /\ FoldInv /\ [Next]_vars => (LockInv /\ CutoffInv /\ FoldInv)'
  BY LockStep, CutoffStep, FoldStep
<1>3. FoldInv => MinutesAreWhole
  BY DEF FoldInv
<1> QED
  BY <1>1, <1>2, <1>3, PTL DEF Spec

\* As long as raw samples are kept for longer than it takes to store one, none
\* comes after its minute was folded while the clock is left alone.
THEOREM SamplesComeInTime ==
  ASSUME Lag <= RetentionDays * Day
  PROVE  Spec => []OnTimeUnlessClockSet
<1>1. Init => LockInv /\ CutoffInv /\ OnTimeInv
  BY LockInit, FoldInit DEF Init, OnTimeInv, OldMinutes
<1>2. LockInv /\ CutoffInv /\ OnTimeInv /\ [Next]_vars => (LockInv /\ CutoffInv /\ OnTimeInv)'
  BY LockStep, CutoffStep, OnTimeStep
<1>3. OnTimeInv => OnTimeUnlessClockSet
  BY DEF OnTimeInv, OnTimeUnlessClockSet
<1> QED
  BY <1>1, <1>2, <1>3, PTL DEF Spec

-----------------------------------------------------------------------------
(***************************************************************************)
(* The rounds.                                                             *)
(***************************************************************************)
\* ALTER TABLE ADD COLUMN leaves every cell that is there.
LEMMA WithColumnsKeeps ==
  ASSUME NEW d, IsDb(d), NEW ids, d.rounds = [id \in ids |-> d.rounds[id]],
         \A id \in ids : DOMAIN d.rounds[id] = d.columns,
         NEW default, NEW added, DOMAIN default = added,
         NEW wider, wider = WithColumns(d, default)
  PROVE  /\ wider.columns = d.columns \cup added /\ IsDb(wider)
         /\ wider.rounds = [id \in ids |-> wider.rounds[id]]
         /\ \A id \in ids :
              /\ DOMAIN wider.rounds[id] = d.columns \cup added
              /\ \A column \in added : wider.rounds[id][column] = default[column]
              /\ \A column \in d.columns \ added :
                   wider.rounds[id][column] = d.rounds[id][column]
<1> DEFINE columns == d.columns \cup added
           rows == [i \in DOMAIN d.rounds |->
                     [column \in DOMAIN d.rounds[i] \cup DOMAIN default |->
                        IF column \in DOMAIN default THEN default[column]
                                                     ELSE d.rounds[i][column]]]
<1>0. DOMAIN d.rounds = ids
  OBVIOUS
<1>1. wider = [d EXCEPT !.columns = columns, !.rounds = rows]
  BY DEF WithColumns
<1>2. rows = [id \in ids |-> rows[id]] /\ DOMAIN rows = ids
  BY <1>0
<1>3. \A id \in ids : rows[id] = [column \in columns |->
                IF column \in added THEN default[column] ELSE d.rounds[id][column]]
  BY <1>0
<1>4. \A id \in ids :
        /\ DOMAIN rows[id] = columns
        /\ \A column \in added : rows[id][column] = default[column]
        /\ \A column \in d.columns \ added : rows[id][column] = d.rounds[id][column]
  <2>1. added \subseteq columns /\ d.columns \ added \subseteq columns
    OBVIOUS
  <2> HIDE DEF rows, columns
  <2> QED
    BY <1>3, <2>1
<1> HIDE DEF columns, rows
<1>5. wider.columns = columns /\ wider.rounds = rows /\ IsDb(wider)
  BY <1>1 DEF IsDb
<1> QED
  BY <1>2, <1>4, <1>5 DEF columns

\* Each step of a migration makes the tables of the next version of those of the
\* one before.
LEMMA MigratedTells ==
  ASSUME NEW d, IsDb(d), NEW version \in 0 .. SCHEMA_VERSION - 1, Tells(d, version),
         kept \in Seq([result : Results \cup OldRounds, at : Nat]),
         \A id \in 1 .. Len(kept) : kept[id].result \in OldRounds
  PROVE  Tells(Migrated(d, version + 1), version + 1)
<1> DEFINE ids == 1 .. Len(kept)
<1> USE DEF Tells
<1>0. DOMAIN d.rounds = ids
  OBVIOUS
<1>2. CASE version = 0
  <2>1. d.columns = {} /\ Len(kept) = 0
    BY <1>2 DEF ColumnsOf
  <2>2. Migrated(d, version + 1) = [d EXCEPT !.columns = V1Columns]
    BY <1>2, <2>1 DEF Migrated, V1
  <2>3. /\ Migrated(d, version + 1).columns = V1Columns
        /\ Migrated(d, version + 1).rounds = d.rounds
    BY <2>2 DEF IsDb
  <2>4. ColumnsOf(version + 1) = V1Columns
    BY <1>2 DEF ColumnsOf
  <2> QED
    BY <1>2, <2>1, <2>3, <2>4
<1>3. CASE version = 1
  <2> DEFINE default == [column \in V2Columns |-> None]
             wider == WithColumns(d, default)
             copied == [id \in ids |-> [wider.rounds[id] EXCEPT !["loss_idle_pct"] =
                                         wider.rounds[id]["loss_pct"]]]
  <2>1. d.columns = V1Columns /\ ColumnsOf(version + 1) = V1Columns \cup V2Columns
    BY <1>3 DEF ColumnsOf
  <2>2. /\ wider.columns = V1Columns \cup V2Columns /\ IsDb(wider)
        /\ wider.rounds = [id \in ids |-> wider.rounds[id]]
        /\ \A id \in ids :
             /\ DOMAIN wider.rounds[id] = V1Columns \cup V2Columns
             /\ \A column \in V1Columns : wider.rounds[id][column] = d.rounds[id][column]
    <3>1. DOMAIN default = V2Columns
      OBVIOUS
    <3>2. V1Columns \ V2Columns = V1Columns
      BY DEF V1Columns, V2Columns
    <3>3. /\ d.rounds = [id \in ids |-> d.rounds[id]]
          /\ \A id \in ids : DOMAIN d.rounds[id] = d.columns
      OBVIOUS
    <3>4. wider = WithColumns(d, default)
      OBVIOUS
    <3> HIDE DEF default, ids, wider
    <3> QED
      BY ONLY IsDb(d), <2>1, <3>1, <3>2, <3>3, <3>4, WithColumnsKeeps
  <2>3. Migrated(d, version + 1) = [wider EXCEPT !.rounds = copied]
    <3>1. Migrated(d, version + 1) = V2(d)
      BY <1>3 DEF Migrated
    <3>2. DOMAIN wider.rounds = ids
      BY <2>2
    <3> HIDE DEF wider
    <3>3. [wider EXCEPT !.rounds = [i \in DOMAIN @ |->
             [@[i] EXCEPT !["loss_idle_pct"] = wider.rounds[i]["loss_pct"]]]]
            = [wider EXCEPT !.rounds = copied]
      BY <3>2
    <3> QED
      BY <3>1, <3>3 DEF V2, wider, default
  <2> HIDE DEF wider, default
  <2>4. ASSUME NEW id \in ids
        PROVE  /\ DOMAIN copied[id] = V1Columns \cup V2Columns
               /\ copied[id]["loss_idle_pct"] = d.rounds[id]["loss_pct"]
               /\ \A column \in V1Columns : copied[id][column] = d.rounds[id][column]
    <3>1. "loss_pct" \in V1Columns /\ V2Columns = {"loss_idle_pct"} /\ "loss_idle_pct" \notin V1Columns
      BY DEF V1Columns, V2Columns
    <3> QED
      BY <2>2, <3>1
  <2>5. \A id \in ids : \A column \in (V1Columns \cup V2Columns) \cap Told :
          copied[id][column] = RoundRow(kept[id].result, kept[id].at)[column]
    <3> SUFFICES ASSUME NEW id \in ids, NEW column \in (V1Columns \cup V2Columns) \cap Told
                 PROVE  copied[id][column] = RoundRow(kept[id].result, kept[id].at)[column]
      OBVIOUS
    <3> DEFINE row == RoundRow(kept[id].result, kept[id].at)
    <3>1. row["loss_idle_pct"] = row["loss_pct"]
      BY DEF RoundRow, Columns, V1Columns, V2Columns
    <3>2. V1Columns \subseteq Told /\ "loss_pct" \in V1Columns /\ V2Columns = {"loss_idle_pct"}
      BY DEF V1Columns, V2Columns, V3Columns, Columns, Told
    <3> HIDE DEF row
    <3>3. \A name \in V1Columns : d.rounds[id][name] = row[name]
      BY <2>1, <3>2 DEF row
    <3>4. copied[id][column] = row[column]
      <4> HIDE DEF copied
      <4> QED
        BY <2>4, <3>1, <3>2, <3>3
    <3> QED
      BY <3>4 DEF row
  <2>6. DOMAIN copied = ids
    OBVIOUS
  <2> HIDE DEF copied
  <2>7. Migrated(d, version + 1).columns = V1Columns \cup V2Columns
        /\ Migrated(d, version + 1).rounds = copied
    BY <2>2, <2>3 DEF IsDb
  <2>8. copied = [id \in ids |-> copied[id]]
    BY DEF copied
  <2>9. /\ Migrated(d, version + 1).columns = ColumnsOf(version + 1) /\ version + 1 # 0
        /\ \A id \in ids : DOMAIN copied[id] = ColumnsOf(version + 1)
    <3>1. \A id \in ids : DOMAIN copied[id] = V1Columns \cup V2Columns
      BY <2>4
    <3>2. version + 1 # 0
      BY <1>3
    <3> HIDE DEF Tells, ids
    <3> QED
      BY ONLY <2>1, <2>7, <3>1, <3>2, Zenon
  <2> HIDE DEF Tells
  <2> QED
    BY <2>1, <2>5, <2>7, <2>8, <2>9 DEF Tells
<1>4. CASE version = 2
  <2>0. Migrated(d, version + 1) = V3(d)
    BY <1>4 DEF Migrated
  <2> DEFINE default == [column \in V3Columns |->
                CASE column = "mode" -> "full" [] column = "capped" -> FALSE
                  [] column = "load_down_ms" -> None]
             wider == WithColumns(d, default)
  <2>1. d.columns = V1Columns \cup V2Columns /\ ColumnsOf(version + 1) = Columns
    BY <1>4 DEF ColumnsOf
  <2>2. Migrated(d, version + 1) = wider
    BY <2>0 DEF V3
  <2>3. DOMAIN default = V3Columns /\ default["mode"] = "full"
    BY DEF V3Columns
  <2> HIDE DEF default, wider, Tells
  <2>4. /\ wider.columns = Columns
        /\ wider.rounds = [id \in ids |-> wider.rounds[id]]
        /\ \A id \in ids :
             /\ DOMAIN wider.rounds[id] = Columns
             /\ \A column \in V3Columns : wider.rounds[id][column] = default[column]
             /\ \A column \in d.columns \ V3Columns :
                  wider.rounds[id][column] = d.rounds[id][column]
    <3>1. Columns = d.columns \cup V3Columns
      BY <2>1 DEF Columns
    <3>2. /\ d.rounds = [id \in ids |-> d.rounds[id]]
          /\ \A id \in ids : DOMAIN d.rounds[id] = d.columns
      BY DEF Tells
    <3>3. wider = WithColumns(d, default)
      BY DEF wider
    <3> HIDE DEF ids
    <3> QED
      BY ONLY IsDb(d), <2>3, <3>1, <3>2, <3>3, WithColumnsKeeps
  <2>5. ASSUME NEW id \in ids, NEW column \in Columns \cap Told
        PROVE  wider.rounds[id][column] = RoundRow(kept[id].result, kept[id].at)[column]
    <3> DEFINE row == RoundRow(kept[id].result, kept[id].at)
    <3>1. CASE column = "mode"
      <4>1. "mode" \in V3Columns /\ "mode" \in Columns
        BY DEF V3Columns, Columns
      <4>2. row["mode"] = kept[id].result.kind
        BY DEF RoundRow, Columns, V3Columns
      <4>3. kept[id].result.kind = "full"
        BY RoundAssumption
      <4> QED
        BY <2>3, <2>4, <3>1, <4>1, <4>2, <4>3
    <3>2. CASE column # "mode"
      <4>1. column \notin V3Columns /\ column \in d.columns \cap Told
        BY <2>1, <3>2 DEF V3Columns, Told, Columns
      <4>2. d.rounds[id][column] = row[column]
        BY <4>1 DEF Tells
      <4> QED
        BY <2>4, <4>1, <4>2
    <3> QED
      BY <3>1, <3>2
  <2>6. \A id \in ids : DOMAIN wider.rounds[id] = Columns
    BY <2>4
  <2> QED
    BY <1>4, <2>1, <2>2, <2>4, <2>5, <2>6 DEF Tells
<1> QED
  BY <1>2, <1>3, <1>4 DEF SCHEMA_VERSION

\* A step that finds its columns there already changes nothing, or fails.
LEMMA MigratedTwice ==
  ASSUME NEW d, Tells(d, SCHEMA_VERSION), NEW step \in 1 .. SCHEMA_VERSION, Fits(d, step)
  PROVE  step = 1 /\ Migrated(d, step) = d
<1>1. d.columns = Columns
  BY DEF Tells, ColumnsOf, SCHEMA_VERSION
<1>2. step = 1
  <2>1. "loss_idle_pct" \in d.columns \cap V2Columns /\ "mode" \in d.columns \cap V3Columns
    BY <1>1 DEF Columns, V2Columns, V3Columns
  <2>2. step = 2 => d.columns \cap V2Columns = {}
    BY DEF Fits
  <2>3. step = 3 => d.columns \cap V3Columns = {}
    BY DEF Fits
  <2> QED
    BY <2>1, <2>2, <2>3 DEF SCHEMA_VERSION
<1>3. d.columns # {}
  BY <1>1 DEF Columns, V1Columns
<1> QED
  BY <1>2, <1>3 DEF Migrated, V1

\* The tables that retention leaves behind hold the same rounds.
LEMMA FoldTells ==
  ASSUME NEW d, IsDb(d), NEW cutoff
  PROVE  /\ Collapsed(d, cutoff).rounds = d.rounds /\ Collapsed(d, cutoff).columns = d.columns
         /\ Pruned(d, cutoff).rounds = d.rounds /\ Pruned(d, cutoff).columns = d.columns
<1>1. ASSUME NEW minutes
      PROVE  [d EXCEPT !.minutes = minutes].rounds = d.rounds
             /\ [d EXCEPT !.minutes = minutes].columns = d.columns
  BY DEF IsDb
<1>2. ASSUME NEW samples
      PROVE  [d EXCEPT !.samples = samples].rounds = d.rounds
             /\ [d EXCEPT !.samples = samples].columns = d.columns
  BY DEF IsDb
<1> QED
  BY <1>1, <1>2 DEF Collapsed, Pruned

LEMMA SchemaInit == Init => SchemaInv
<1> SUFFICES ASSUME Init PROVE SchemaInv
  OBVIOUS
<1> DEFINE empty(version) ==
      [version |-> version, columns |-> {}, samples |-> {}, rounds |-> <<>>,
       minutes |-> [m \in {} |-> None]]
<1>1. PICK version \in 0 .. SCHEMA_VERSION + 1, old \in OldRounds :
        LET made == Migrated(empty(version), 1)
            first == [made EXCEPT !.rounds = <<Restrict(RoundRow(old, 0), V1Columns)>>]
        IN  /\ db = CASE version = 0 -> [made EXCEPT !.columns = {}]
                     [] version = 1 -> first
                     [] version = 2 -> V2(first)
                     [] version > 2 -> V3(V2(first))
            /\ kept = IF version = 0 THEN <<>> ELSE <<[result |-> old, at |-> 0]>>
  BY DEF Init
<1> DEFINE made == Migrated(empty(version), 1)
           rows == <<Restrict(RoundRow(old, 0), V1Columns)>>
           first == [made EXCEPT !.rounds = rows]
<1>2. /\ db = CASE version = 0 -> [made EXCEPT !.columns = {}]
                [] version = 1 -> first
                [] version = 2 -> V2(first)
                [] version > 2 -> V3(V2(first))
      /\ kept = IF version = 0 THEN <<>> ELSE <<[result |-> old, at |-> 0]>>
  BY <1>1 DEF made, first, rows
<1>3. kept \in Seq([result : Results \cup OldRounds, at : Nat])
      /\ \A id \in 1 .. Len(kept) : kept[id].result \in OldRounds
  <2>1. CASE version = 0
    BY <1>2, <2>1
  <2>2. CASE version # 0
    <3> DEFINE round == [result |-> old, at |-> 0]
    <3>1. kept = <<round>> /\ round \in [result : Results \cup OldRounds, at : Nat]
      BY <1>2, <2>2
    <3>2. round.result = old
      OBVIOUS
    <3> HIDE DEF round
    <3> QED
      BY <3>1, <3>2
  <2> QED
    BY <2>1, <2>2
<1>4. made = [empty(version) EXCEPT !.columns = V1Columns]
  BY DEF Migrated, V1
<1>5. IsDb(made) /\ made.version = version /\ made.columns = V1Columns /\ made.rounds = <<>>
  BY <1>4 DEF IsDb
<1> HIDE DEF made
<1>6. \A c \in Clients : pc[c] = "closed"
  BY DEF Init
<1>7. CASE version = 0
  <2> DEFINE none == [made EXCEPT !.columns = {}]
  <2>1. db = none /\ Len(kept) = 0
    BY <1>2, <1>7
  <2>2. none.version = version /\ none.columns = {} /\ none.rounds = <<>>
    BY <1>5 DEF IsDb
  <2>3. db.version = version /\ Tells(db, version)
    BY <1>7, <2>1, <2>2 DEF Tells, ColumnsOf
  <2> QED
    BY <1>3, <1>6, <2>3 DEF SchemaInv
<1>8. CASE version # 0
  <2> DEFINE row == Restrict(RoundRow(old, 0), V1Columns)
             round == [result |-> old, at |-> 0]
  <2>1. kept = <<round>> /\ round.result = old /\ round.at = 0
    BY <1>2, <1>8
  <2>2. first.version = version /\ first.columns = V1Columns /\ first.rounds = <<row>>
    <3> HIDE DEF row
    <3> QED
      BY <1>5 DEF IsDb, row
  <2>3. IsDb(first)
    <3> HIDE DEF rows
    <3> QED
      BY <1>5 DEF IsDb
  <2>4. DOMAIN row = V1Columns /\ \A column \in V1Columns : row[column] = RoundRow(old, 0)[column]
    BY DEF Restrict
  <2>5. Tells(first, 1)
    <3> HIDE DEF first, row, round
    <3>1. Len(kept) = 1 /\ kept[1] = round
      BY <2>1
    <3>2. first.rounds = [id \in 1 .. 1 |-> first.rounds[id]] /\ first.rounds[1] = row
      BY <2>2
    <3>3. ColumnsOf(1) = V1Columns
      BY DEF ColumnsOf
    <3>4. \A id \in 1 .. 1 : first.rounds[id] = row /\ kept[id] = round
      BY <3>1, <3>2
    <3>5. \A column \in V1Columns \cap Told :
            row[column] = RoundRow(round.result, round.at)[column]
      BY <2>1, <2>4
    <3> QED
      BY <2>2, <2>4, <3>1, <3>2, <3>3, <3>4, <3>5 DEF Tells
  <2> HIDE DEF first
  <2>6. /\ V2(first) = Migrated(first, 2) /\ V3(V2(first)) = Migrated(V2(first), 3)
        /\ {1, 2} \subseteq 0 .. SCHEMA_VERSION - 1 /\ {2, 3} \subseteq 1 .. SCHEMA_VERSION
        /\ 1 + 1 = 2 /\ 2 + 1 = 3
    BY DEF Migrated, SCHEMA_VERSION
  <2>7. IsDb(V2(first)) /\ V2(first).version = version
    BY <2>2, <2>3, <2>6, MigratedKeeps
  <2>8. IsDb(V3(V2(first))) /\ V3(V2(first)).version = version
    BY <2>6, <2>7, MigratedKeeps
  <2>9. Tells(V2(first), 2)
    BY <1>3, <2>3, <2>5, <2>6, MigratedTells
  <2>10. Tells(V3(V2(first)), 3)
    BY <1>3, <2>6, <2>7, <2>9, MigratedTells
  <2>11. version \in 1 .. 4
    BY <1>8 DEF SCHEMA_VERSION
  <2>12. \/ version = 1 /\ db = first
         \/ version = 2 /\ db = V2(first)
         \/ version \in 3 .. 4 /\ db = V3(V2(first))
    <3>1. version = 1 => db = first
      BY <1>2
    <3>2. version = 2 => db = V2(first)
      BY <1>2
    <3>3. version > 2 => db = V3(V2(first))
      BY <1>2, <2>11
    <3> QED
      BY <2>11, <3>1, <3>2, <3>3
  <2>13. db.version = version /\ Tells(db, version)
    <3>1. version \in 3 .. 4 => ColumnsOf(version) = ColumnsOf(3)
      BY DEF ColumnsOf
    <3>2. version \in 3 .. 4 /\ db = V3(V2(first)) => Tells(db, version)
      BY <2>10, <3>1 DEF Tells
    <3> QED
      BY <2>2, <2>5, <2>7, <2>8, <2>9, <2>12, <3>2
  <2> QED
    BY <1>3, <1>6, <2>13 DEF SchemaInv
<1> QED
  BY <1>7, <1>8

\* A connection that does not begin, carry on or commit a migration, nor stores a
\* round, leaves the versions and the rounds alone.
LEMMA SchemaKept ==
  ASSUME LockInv, SchemaInv, LockInv', kept' = kept,
         db'.version = db.version, db'.columns = db.columns, db'.rounds = db.rounds,
         \A c \in Clients :
           \/ pc'[c] = "closed"
           \/ pc'[c] = pc[c] /\ seen'[c] = seen[c] /\ (pc[c] = "migrating" => view' = view)
           \/ pc'[c] = "behind" /\ seen'[c] = db.version /\ db.version < SCHEMA_VERSION
           \/ pc'[c] \in {"open", "collapsed"} /\ db.version = SCHEMA_VERSION
  PROVE  SchemaInv'
<1>1. Tells(db, db.version)'
  BY DEF SchemaInv, Tells
<1>2. /\ (kept \in Seq([result : Results \cup OldRounds, at : Nat]))'
      /\ (db.version < SCHEMA_VERSION => \A id \in 1 .. Len(kept) : kept[id].result \in OldRounds)'
  BY DEF SchemaInv
<1>3. ASSUME NEW c \in Clients
      PROVE  /\ pc'[c] # "closed" => db'.version <= SCHEMA_VERSION
             /\ pc'[c] = "behind" => seen'[c] < SCHEMA_VERSION /\ db'.version \in {seen'[c], SCHEMA_VERSION}
             /\ pc'[c] \in {"open", "collapsed"} => db'.version = SCHEMA_VERSION
  <2>1. db.version \in 0 .. 4 /\ SCHEMA_VERSION = 3
    BY DEF LockInv, IsDb, SCHEMA_VERSION
  <2>2. /\ pc[c] # "closed" => db.version <= SCHEMA_VERSION
        /\ pc[c] = "behind" => seen[c] < SCHEMA_VERSION /\ db.version \in {seen[c], SCHEMA_VERSION}
        /\ pc[c] \in {"open", "collapsed"} => db.version = SCHEMA_VERSION
    BY DEF SchemaInv
  <2> QED
    BY <2>1, <2>2
<1>4. ASSUME NEW c \in Clients, pc'[c] = "migrating"
      PROVE  (IF db.version = SCHEMA_VERSION
                THEN seen[c] < SCHEMA_VERSION /\ Tells(view, SCHEMA_VERSION)
                ELSE Tells(view, seen[c]))'
  <2>1. pc[c] = "migrating" /\ seen'[c] = seen[c] /\ view' = view
    BY <1>4
  <2> QED
    BY <1>4, <2>1 DEF SchemaInv, Tells
<1> QED
  BY <1>1, <1>2, <1>3, <1>4 DEF SchemaInv

LEMMA SchemaStep == LockInv /\ SchemaInv /\ [Next]_vars => SchemaInv'
<1> SUFFICES ASSUME LockInv, SchemaInv, [Next]_vars PROVE SchemaInv'
  OBVIOUS
<1>0. LockInv' /\ None \notin Clients
  BY LockStep, ClientAssumption
<1>1. ASSUME NEW c \in Clients, CheckVersion(c) PROVE SchemaInv'
  <2>1. /\ pc' = [pc EXCEPT ![c] = IF db.version = SCHEMA_VERSION THEN "open" ELSE "behind"]
        /\ seen' = [seen EXCEPT ![c] = IF db.version = SCHEMA_VERSION THEN 0 ELSE db.version]
        /\ db' = db /\ kept' = kept /\ view' = view
        /\ db.version <= SCHEMA_VERSION /\ db.version \in Int
    BY <1>1 DEF CheckVersion, Goto, tx, observers, LockInv, IsDb
  <2>2. \A d \in Clients :
          \/ pc'[d] = pc[d] /\ seen'[d] = seen[d] /\ (pc[d] = "migrating" => view' = view)
          \/ pc'[d] = "behind" /\ seen'[d] = db.version /\ db.version < SCHEMA_VERSION
          \/ pc'[d] \in {"open", "collapsed"} /\ db.version = SCHEMA_VERSION
    BY <2>1 DEF LockInv, SCHEMA_VERSION
  <2> QED
    BY <1>0, <2>1, <2>2, SchemaKept
<1>2. ASSUME NEW c \in Clients, BeginMigration(c) PROVE SchemaInv'
  <2>1. /\ pc' = [pc EXCEPT ![c] = "migrating"] /\ pc[c] = "behind"
        /\ writer = None /\ view' = db /\ db' = db /\ kept' = kept /\ seen' = seen
    BY <1>2 DEF BeginMigration, Free, Goto, observers
  <2>2. ASSUME NEW d \in Clients
        PROVE  pc[d] # "migrating" /\ (pc'[d] = pc[d] \/ d = c)
    BY <1>0, <2>1 DEF LockInv, Holds
  <2>3. Tells(db, db.version)' /\ Tells(view, db.version)'
    BY <2>1 DEF SchemaInv, Tells
  <2>4. seen[c] < SCHEMA_VERSION /\ db.version \in {seen[c], SCHEMA_VERSION}
    BY <2>1 DEF SchemaInv
  <2>5. IF db'.version = SCHEMA_VERSION
          THEN seen'[c] < SCHEMA_VERSION /\ Tells(view, SCHEMA_VERSION)'
          ELSE Tells(view, seen[c])'
    BY <2>1, <2>3, <2>4
  <2>6. db.version <= SCHEMA_VERSION
    BY <2>1 DEF SchemaInv
  <2>7. ASSUME NEW d \in Clients
        PROVE  /\ pc'[d] # "closed" => db'.version <= SCHEMA_VERSION
               /\ pc'[d] = "behind" => /\ seen'[d] < SCHEMA_VERSION
                                       /\ db'.version \in {seen'[d], SCHEMA_VERSION}
               /\ pc'[d] = "migrating" => IF db'.version = SCHEMA_VERSION
                    THEN seen'[d] < SCHEMA_VERSION /\ Tells(view, SCHEMA_VERSION)'
                    ELSE Tells(view, seen[d])'
               /\ pc'[d] \in {"open", "collapsed"} => db'.version = SCHEMA_VERSION
    <3>1. CASE d = c
      <4>1. pc'[d] = "migrating"
        BY <2>1, <3>1 DEF LockInv
      <4> QED
        BY <2>1, <2>5, <2>6, <3>1, <4>1
    <3>2. CASE d # c
      BY <2>1, <2>2, <3>2 DEF SchemaInv
    <3> QED
      BY <3>1, <3>2
  <2>8. /\ (kept \in Seq([result : Results \cup OldRounds, at : Nat]))'
        /\ (db.version < SCHEMA_VERSION => \A id \in 1 .. Len(kept) : kept[id].result \in OldRounds)'
    BY <2>1 DEF SchemaInv
  <2> QED
    BY <2>3, <2>7, <2>8 DEF SchemaInv
<1>3. ASSUME NEW c \in Clients, Migrate(c) PROVE SchemaInv'
  <2>1. /\ pc[c] = "migrating" /\ pc' = pc /\ writer = c /\ view' = Migrated(view, seen[c] + 1)
        /\ seen' = [seen EXCEPT ![c] = @ + 1] /\ Fits(view, seen[c] + 1)
        /\ seen[c] \in 0 .. SCHEMA_VERSION - 1 /\ db' = db /\ kept' = kept
    BY <1>3 DEF Migrate, Holds, observers, LockInv, SCHEMA_VERSION
  <2>2. IsDb(view)
    BY <1>0, <2>1 DEF LockInv
  <2>3. IF db.version = SCHEMA_VERSION
          THEN seen'[c] < SCHEMA_VERSION /\ Tells(view', SCHEMA_VERSION)
          ELSE Tells(view', seen'[c])
    <3>1. seen'[c] = seen[c] + 1 /\ seen'[c] \in 1 .. SCHEMA_VERSION
      BY <2>1 DEF LockInv, SCHEMA_VERSION
    <3>2. CASE db.version = SCHEMA_VERSION
      <4>1. Tells(view, SCHEMA_VERSION)
        BY <2>1, <3>2 DEF SchemaInv
      <4>2. seen'[c] = 1 /\ view' = view
        BY <2>1, <3>1, <4>1, MigratedTwice
      <4> QED
        BY <3>2, <4>1, <4>2 DEF SCHEMA_VERSION
    <3>3. CASE db.version # SCHEMA_VERSION
      <4>1. Tells(view, seen[c])
        BY <2>1, <3>3 DEF SchemaInv
      <4>2. \A id \in 1 .. Len(kept) : kept[id].result \in OldRounds
        <5>1. db.version \in 0 .. 4 /\ db.version <= SCHEMA_VERSION
          BY <2>1 DEF LockInv, SchemaInv, IsDb, SCHEMA_VERSION
        <5>2. db.version < SCHEMA_VERSION
          BY <3>3, <5>1 DEF SCHEMA_VERSION
        <5> QED
          BY <5>2 DEF SchemaInv
      <4>3. kept \in Seq([result : Results \cup OldRounds, at : Nat])
        BY DEF SchemaInv
      <4> QED
        BY <2>1, <2>2, <3>1, <3>3, <4>1, <4>2, <4>3, MigratedTells
    <3> QED
      BY <3>2, <3>3
  <2>4. IF db'.version = SCHEMA_VERSION
          THEN seen'[c] < SCHEMA_VERSION /\ Tells(view, SCHEMA_VERSION)'
          ELSE Tells(view, seen[c])'
    BY <2>1, <2>3 DEF Tells
  <2>5. ASSUME NEW d \in Clients
        PROVE  /\ pc'[d] # "closed" => db'.version <= SCHEMA_VERSION
               /\ pc'[d] = "behind" => /\ seen'[d] < SCHEMA_VERSION
                                       /\ db'.version \in {seen'[d], SCHEMA_VERSION}
               /\ pc'[d] = "migrating" => IF db'.version = SCHEMA_VERSION
                    THEN seen'[d] < SCHEMA_VERSION /\ Tells(view, SCHEMA_VERSION)'
                    ELSE Tells(view, seen[d])'
               /\ pc'[d] \in {"open", "collapsed"} => db'.version = SCHEMA_VERSION
    <3>1. pc'[d] = "migrating" => d = c
      BY <2>1 DEF LockInv, Holds
    <3>2. pc'[d] = "behind" => seen'[d] = seen[d]
      BY <2>1 DEF LockInv
    <3> QED
      BY <2>1, <2>4, <3>1, <3>2 DEF SchemaInv
  <2>6. /\ (kept \in Seq([result : Results \cup OldRounds, at : Nat]))'
        /\ (db.version < SCHEMA_VERSION => \A id \in 1 .. Len(kept) : kept[id].result \in OldRounds)'
        /\ Tells(db, db.version)'
    BY <2>1 DEF SchemaInv, Tells
  <2> QED
    BY <2>5, <2>6 DEF SchemaInv
<1>4. ASSUME NEW c \in Clients, CommitMigration(c) PROVE SchemaInv'
  <2>1. /\ pc[c] = "migrating" /\ pc' = [pc EXCEPT ![c] = "open"] /\ writer = c
        /\ seen[c] = SCHEMA_VERSION /\ seen' = [seen EXCEPT ![c] = 0]
        /\ db' = [view EXCEPT !.version = SCHEMA_VERSION] /\ kept' = kept
    BY <1>4 DEF CommitMigration, Goto, Holds, observers, LockInv
  <2>2. IsDb(view)
    BY <1>0, <2>1 DEF LockInv
  <2>3. db'.version = SCHEMA_VERSION /\ db'.columns = view.columns /\ db'.rounds = view.rounds
    BY <2>1, <2>2 DEF IsDb
  <2>4. Tells(view, SCHEMA_VERSION)
    BY <2>1 DEF SchemaInv
  <2>5. Tells(db, db.version)'
    BY <2>1, <2>3, <2>4 DEF Tells
  <2>6. ASSUME NEW d \in Clients
        PROVE  /\ pc'[d] # "migrating"
               /\ pc'[d] = "behind" => seen'[d] < SCHEMA_VERSION
    BY <2>1 DEF LockInv, SchemaInv, Holds
  <2> QED
    BY <2>1, <2>3, <2>5, <2>6 DEF SchemaInv, SCHEMA_VERSION
<1>5. ASSUME NEW c \in Clients, insert_round(c) PROVE SchemaInv'
  <2>1. PICK r \in Results :
          /\ db' = [db EXCEPT !.rounds = Append(@, RoundRow(r, clock))]
          /\ kept' = Append(kept, [result |-> r, at |-> clock])
    BY <1>5 DEF insert_round
  <2>2. pc[c] = "open" /\ writer = None /\ pc' = pc /\ seen' = seen
    BY <1>5 DEF insert_round, Free
  <2>3. db.version = SCHEMA_VERSION /\ db.columns = Columns
    <3>1. db.version = SCHEMA_VERSION
      BY <2>2 DEF SchemaInv
    <3>2. ColumnsOf(SCHEMA_VERSION) = Columns
      BY DEF ColumnsOf, SCHEMA_VERSION
    <3> QED
      BY <3>1, <3>2 DEF SchemaInv, Tells
  <2> DEFINE row == RoundRow(r, clock)
             round == [result |-> r, at |-> clock]
             rows == Append(db.rounds, row)
             n == Len(kept)
  <2>4. DOMAIN row = Columns /\ round \in [result : Results \cup OldRounds, at : Nat]
    BY DEF RoundRow, LockInv
  <2>5. row = RoundRow(round.result, round.at)
    OBVIOUS
  <2>6. /\ db'.version = SCHEMA_VERSION /\ db'.columns = Columns /\ db'.rounds = rows
        /\ kept' = Append(kept, round)
    <3> HIDE DEF row, rows
    <3>1. db' = [db EXCEPT !.rounds = rows]
      BY <2>1 DEF row, rows
    <3> QED
      BY <2>1, <2>3, <3>1 DEF LockInv, IsDb
  <2> HIDE DEF row, round
  <2>7. /\ n \in Nat /\ Len(kept') = n + 1 /\ kept'[n + 1] = round
        /\ \A id \in 1 .. n : kept'[id] = kept[id]
        /\ kept' \in Seq([result : Results \cup OldRounds, at : Nat])
    BY <2>4, <2>6 DEF SchemaInv
  <2>8. db.rounds \in Seq({db.rounds[id] : id \in 1 .. n}) /\ Len(db.rounds) = n
    <3> DEFINE stored == {db.rounds[id] : id \in 1 .. n}
    <3>1. db.rounds \in [1 .. n -> stored]
      BY DEF SchemaInv, Tells
    <3>4. n \in Nat
      BY <2>7
    <3> HIDE DEF stored, n
    <3>2. db.rounds \in Seq(stored)
      BY ONLY <3>1, <3>4, SeqDef
    <3>3. Len(db.rounds) = n
      BY <2>7, <3>1, <3>2, LenProperties
    <3> QED
      BY <3>2, <3>3 DEF stored, n
  <2>9. /\ rows = [id \in 1 .. n + 1 |-> rows[id]] /\ rows[n + 1] = row
        /\ \A id \in 1 .. n : rows[id] = db.rounds[id]
    BY <2>7, <2>8
  <2>10. \A id \in 1 .. n + 1 :
           /\ DOMAIN rows[id] = Columns
           /\ \A column \in Columns \cap Told :
                rows[id][column] = RoundRow(kept'[id].result, kept'[id].at)[column]
    <3> SUFFICES ASSUME NEW id \in 1 .. n + 1
                 PROVE  /\ DOMAIN rows[id] = Columns
                        /\ \A column \in Columns \cap Told :
                             rows[id][column] = RoundRow(kept'[id].result, kept'[id].at)[column]
      OBVIOUS
    <3>1. CASE id = n + 1
      BY <2>4, <2>5, <2>7, <2>9, <3>1
    <3>2. CASE id # n + 1
      <4>1. id \in 1 .. n
        BY <2>7, <3>2
      <4>2. rows[id] = db.rounds[id] /\ kept'[id] = kept[id]
        BY <2>7, <2>9, <4>1
      <4> QED
        BY <2>3, <4>1, <4>2 DEF SchemaInv, Tells
    <3> QED
      BY <3>1, <3>2
  <2> HIDE DEF rows, n
  <2>11. Tells(db, db.version)'
    <3>1. ColumnsOf(SCHEMA_VERSION) = Columns /\ SCHEMA_VERSION # 0
      BY DEF ColumnsOf, SCHEMA_VERSION
    <3> QED
      BY <2>6, <2>7, <2>9, <2>10, <3>1 DEF Tells
  <2>12. ASSUME NEW d \in Clients
         PROVE  /\ pc'[d] # "migrating"
                /\ pc'[d] = "behind" => seen'[d] < SCHEMA_VERSION
    BY <1>0, <2>2 DEF LockInv, SchemaInv, Holds
  <2> QED
    BY <2>6, <2>7, <2>11, <2>12 DEF SchemaInv, SCHEMA_VERSION
<1>6. ASSUME NEW c \in Clients, MigrationFails(c) \/ Busy(c) \/ Close(c) PROVE SchemaInv'
  <2>1. /\ pc' = [pc EXCEPT ![c] = "closed"] /\ seen' = [seen EXCEPT ![c] = 0]
        /\ db' = db /\ kept' = kept /\ IF Holds(c) THEN view' = None ELSE view' = view
    BY <1>6 DEF MigrationFails, Busy, Close, Leave, Goto, tx, observers
  <2>2. \A d \in Clients :
          \/ pc'[d] = "closed"
          \/ pc'[d] = pc[d] /\ seen'[d] = seen[d] /\ (pc[d] = "migrating" => view' = view)
    BY <2>1 DEF LockInv, Holds
  <2> QED
    BY <1>0, <2>1, <2>2, SchemaKept
<1>7. ASSUME NEW c \in Clients, Collapse(c) PROVE SchemaInv'
  <2>1. /\ pc[c] = "open" /\ pc' = [pc EXCEPT ![c] = "collapsed"] /\ writer = None
        /\ db' = db /\ kept' = kept /\ \A d \in Clients : d # c => seen'[d] = seen[d]
    BY <1>7 DEF Collapse, Goto, Free, observers, LockInv
  <2>2. db.version = SCHEMA_VERSION
    BY <2>1 DEF SchemaInv
  <2>3. \A d \in Clients :
          \/ pc'[d] = pc[d] /\ seen'[d] = seen[d] /\ (pc[d] = "migrating" => view' = view)
          \/ pc'[d] \in {"open", "collapsed"} /\ db.version = SCHEMA_VERSION
    BY <1>0, <2>1, <2>2 DEF LockInv, Holds
  <2> QED
    BY <1>0, <2>1, <2>3, SchemaKept
<1>8. ASSUME NEW c \in Clients, Prune(c) PROVE SchemaInv'
  <2>1. /\ pc[c] = "collapsed" /\ pc' = [pc EXCEPT ![c] = "open"] /\ writer = c
        /\ db' = Pruned(view, seen[c]) /\ kept' = kept
        /\ \A d \in Clients : d # c => seen'[d] = seen[d]
    BY <1>8 DEF Prune, Goto, Holds, observers, LockInv
  <2>2. view = Collapsed(db, seen[c]) /\ IsDb(view) /\ IsDb(db) /\ db.version = SCHEMA_VERSION
    BY <1>0, <2>1 DEF LockInv, SchemaInv
  <2>3. db'.version = db.version /\ db'.columns = db.columns /\ db'.rounds = db.rounds
    BY <2>1, <2>2, FoldKeeps, FoldTells
  <2>4. \A d \in Clients :
          \/ pc'[d] = pc[d] /\ seen'[d] = seen[d] /\ (pc[d] = "migrating" => view' = view)
          \/ pc'[d] \in {"open", "collapsed"} /\ db.version = SCHEMA_VERSION
    BY <1>0, <2>1, <2>2 DEF LockInv, Holds
  <2> QED
    BY <1>0, <2>1, <2>3, <2>4, SchemaKept
<1>9. CASE ~(\E c \in Clients :
               \/ CheckVersion(c) \/ BeginMigration(c) \/ Migrate(c) \/ CommitMigration(c)
               \/ MigrationFails(c) \/ Busy(c) \/ Close(c) \/ insert_round(c)
               \/ Collapse(c) \/ Prune(c))
  <2>1. ASSUME NEW c \in Clients, insert_ping_samples(c)
        PROVE  db'.version = db.version /\ db'.columns = db.columns /\ db'.rounds = db.rounds
    <3>1. PICK samples : db' = [db EXCEPT !.samples = samples]
      BY <2>1 DEF insert_ping_samples
    <3> QED
      BY <3>1 DEF LockInv, IsDb
  <2>2. /\ (\E c \in Clients : insert_ping_samples(c)) \/ db' = db
        /\ kept' = kept /\ pc' = pc /\ seen' = seen /\ view' = view
    BY <1>9 DEF Next, Tick, insert_ping_samples, SampleLost, Pass, SetClock, vars, tx, observers
  <2> QED
    BY <1>0, <2>1, <2>2, SchemaKept
<1> QED
  BY <1>1, <1>2, <1>3, <1>4, <1>5, <1>6, <1>7, <1>8, <1>9 DEF Next

\* The connections follow the protocol of the lock and of the schema.
THEOREM TypeCorrect == Spec => []TypeOK
<1>1. LockInv /\ SchemaInv => TypeOK
  <2> SUFFICES ASSUME LockInv, SchemaInv PROVE TypeOK
    OBVIOUS
  <2> DEFINE of(n) == CASE n = 1 -> V1Columns [] n = 2 -> V2Columns [] n = 3 -> V3Columns
  <2>1. db.version \in 0 .. 4
    BY DEF LockInv, IsDb, SCHEMA_VERSION
  <2>2. \A n \in 0 .. 3 : Min({n, SCHEMA_VERSION}) = n
    <3> SUFFICES ASSUME NEW n \in 0 .. 3 PROVE Min({n, SCHEMA_VERSION}) = n
      OBVIOUS
    <3>1. n \in {n, 3} /\ \A y \in {n, 3} : n <= y
      OBVIOUS
    <3>2. \A x \in {n, 3} : (\A y \in {n, 3} : x <= y) => x = n
      OBVIOUS
    <3> QED
      BY <3>1, <3>2 DEF Min, SCHEMA_VERSION
  <2>3. Min({4, SCHEMA_VERSION}) = 3
    <3>1. 3 \in {4, 3} /\ \A y \in {4, 3} : 3 <= y
      OBVIOUS
    <3>2. \A x \in {4, 3} : (\A y \in {4, 3} : x <= y) => x = 3
      OBVIOUS
    <3> QED
      BY <3>1, <3>2 DEF Min, SCHEMA_VERSION
  <2>4. db.columns = UNION {of(n) : n \in 1 .. Min({db.version, SCHEMA_VERSION})}
    <3>1. db.columns = ColumnsOf(db.version)
      BY DEF SchemaInv, Tells
    <3>2. of(1) = V1Columns /\ of(2) = V2Columns /\ of(3) = V3Columns
      OBVIOUS
    <3> HIDE DEF of
    <3>3. CASE db.version = 0
      <4>1. 1 .. Min({db.version, SCHEMA_VERSION}) = {}
        BY <2>2, <3>3
      <4> QED
        BY <3>1, <3>3, <4>1 DEF ColumnsOf
    <3>4. CASE db.version = 1
      <4>1. 1 .. Min({db.version, SCHEMA_VERSION}) = {1}
        BY <2>2, <3>4
      <4> QED
        BY <3>1, <3>2, <3>4, <4>1 DEF ColumnsOf
    <3>5. CASE db.version = 2
      <4>1. 1 .. Min({db.version, SCHEMA_VERSION}) = {1, 2}
        BY <2>2, <3>5
      <4> QED
        BY <3>1, <3>2, <3>5, <4>1 DEF ColumnsOf
    <3>6. CASE db.version \in {3, 4}
      <4>1. 1 .. Min({db.version, SCHEMA_VERSION}) = {1, 2, 3}
        BY <2>2, <2>3, <3>6
      <4> QED
        BY <3>1, <3>2, <3>6, <4>1 DEF ColumnsOf, Columns
    <3> QED
      <4>1. \/ db.version = 0 \/ db.version = 1 \/ db.version = 2 \/ db.version \in {3, 4}
        BY <2>1
      <4> QED
        BY ONLY <3>3, <3>4, <3>5, <3>6, <4>1, Zenon
  <2>5. \A id \in DOMAIN db.rounds : DOMAIN db.rounds[id] = db.columns
    BY DEF SchemaInv, Tells
  <2> QED
    BY <2>4, <2>5 DEF LockInv, SchemaInv, IsDb, TypeOK
<1>2. Init => LockInv /\ SchemaInv
  BY LockInit, SchemaInit
<1>3. LockInv /\ SchemaInv /\ [Next]_vars => (LockInv /\ SchemaInv)'
  BY LockStep, SchemaStep
<1> QED
  BY <1>1, <1>2, <1>3, PTL DEF Spec

\* MIN of no value is NULL, and of some numbers one of them.
LEMMA MetricAggOf ==
  ASSUME NEW values
  PROVE  /\ MetricAgg(values).count = Cardinality(values)
         /\ MetricAgg(values).min = IF values = {} THEN None ELSE Min({v[2] : v \in values})
BY DEF MetricAgg

\* The place of a row among rows sorted by time and id.
PlaceOf(ids, at, i) ==
  1 + Cardinality({j \in ids : at[j] < at[i] \/ (at[j] = at[i] /\ j < i)})

\* Rows sorted by time and id: every row has a place of its own, and every place
\* a row.
LEMMA Places ==
  ASSUME NEW ids \in SUBSET Nat, IsFiniteSet(ids), NEW at \in [ids -> Int],
         NEW place, place = [i \in ids |-> PlaceOf(ids, at, i)]
  PROVE  /\ \A i \in ids : place[i] \in 1 .. Cardinality(ids)
         /\ \A i, j \in ids : place[i] < place[j] => at[i] <= at[j]
         /\ \A i, j \in ids : place[i] = place[j] => i = j
         /\ \A k \in 1 .. Cardinality(ids) : \E i \in ids : place[i] = k
<1> DEFINE Before(i, j) == at[i] < at[j] \/ (at[i] = at[j] /\ i < j)
           below(i) == {j \in ids : Before(j, i)}
           n == Cardinality(ids)
<1>1. n \in Nat
  BY FS_CardinalityType
<1>2. ASSUME NEW i \in ids
      PROVE  /\ IsFiniteSet(below(i)) /\ Cardinality(below(i)) \in Nat
             /\ place[i] = 1 + Cardinality(below(i)) /\ Cardinality(below(i)) < n
  <2>1. below(i) \in SUBSET ids /\ i \notin below(i)
    OBVIOUS
  <2>2. place[i] = 1 + Cardinality(below(i))
    BY DEF PlaceOf
  <2> HIDE DEF below
  <2>3. IsFiniteSet(below(i)) /\ Cardinality(below(i)) <= n /\ Cardinality(below(i)) # n
    BY <2>1, FS_Subset
  <2>4. Cardinality(below(i)) \in Nat
    BY <2>3, FS_CardinalityType
  <2> HIDE DEF n
  <2> QED
    BY <1>1, <2>2, <2>3, <2>4
<1>3. ASSUME NEW i \in ids, NEW j \in ids, Before(i, j)
      PROVE  place[i] < place[j]
  <2>1. below(i) \in SUBSET below(j) /\ i \in below(j) /\ i \notin below(i)
    <3>1. ASSUME NEW k \in ids, Before(k, i) PROVE Before(k, j)
      <4>1. i \in Int /\ j \in Int /\ k \in Int /\ at[i] \in Int /\ at[j] \in Int /\ at[k] \in Int
        OBVIOUS
      <4> QED
        BY <1>3, <3>1, <4>1
    <3>2. ~Before(i, i)
      OBVIOUS
    <3> HIDE DEF Before
    <3> QED
      BY <1>3, <3>1, <3>2
  <2>2. IsFiniteSet(below(j)) /\ Cardinality(below(i)) \in Nat /\ Cardinality(below(j)) \in Nat
        /\ place[i] = 1 + Cardinality(below(i)) /\ place[j] = 1 + Cardinality(below(j))
    BY <1>2
  <2> HIDE DEF below
  <2>3. Cardinality(below(i)) <= Cardinality(below(j)) /\ Cardinality(below(j)) # Cardinality(below(i))
    BY <2>1, <2>2, FS_Subset
  <2> QED
    BY <2>2, <2>3
<1>4. \A i, j \in ids : i = j \/ Before(i, j) \/ Before(j, i)
  OBVIOUS
<1>5. ASSUME NEW i \in ids PROVE place[i] \in 1 .. n
  <2> HIDE DEF below, n
  <2> QED
    BY <1>1, <1>2
<1>6. ASSUME NEW i \in ids, NEW j \in ids, place[i] = place[j] PROVE i = j
  <2> HIDE DEF Before, n
  <2> QED
    BY <1>3, <1>4, <1>5, <1>6
<1>7. ASSUME NEW i \in ids, NEW j \in ids, place[i] < place[j] PROVE at[i] <= at[j]
  <2>1. Before(i, j)
    <3>1. place[i] \in Int /\ place[j] \in Int
      BY <1>5
    <3> HIDE DEF Before, n
    <3> QED
      BY <1>3, <1>4, <1>7, <3>1
  <2> QED
    BY <2>1
<1>8. \A k \in 1 .. n : \E i \in ids : place[i] = k
  <2>1. IsFiniteSet(1 .. n) /\ Cardinality(1 .. n) = n
    BY <1>1, FS_Interval
  <2> HIDE DEF n
  <2>2. place \in Injection(ids, 1 .. n)
    BY <1>5, <1>6 DEF Injection, IsInjective
  <2>3. place \in Surjection(ids, 1 .. n)
    BY <2>1, <2>2, FS_Injection DEF n
  <2> QED
    BY <2>3 DEF Surjection
<1> QED
  BY <1>5, <1>6, <1>7, <1>8

\* The rounds of a range.
KeptIn(from, to) == {id \in DOMAIN kept : kept[id].at \in from .. to}

\* Rows that are these rounds, each once, oldest first.
AreRowsOf(rows, ids) ==
  /\ ids \in SUBSET (1 .. Len(kept)) /\ IsFiniteSet(ids) /\ Cardinality(ids) \in Nat
  /\ DOMAIN rows = 1 .. Cardinality(ids) /\ Len(rows) = Cardinality(ids)
  /\ {rows[i].id : i \in DOMAIN rows} = ids
  /\ \A i \in DOMAIN rows : rows[i].row = db.rounds[rows[i].id]
  /\ \A i, j \in DOMAIN rows : i < j => kept[rows[i].id].at <= kept[rows[j].id].at

\* The rows of a range are the rounds of the range.
LEMMA RowsOfRange ==
  ASSUME LockInv, SchemaInv, db.version = SCHEMA_VERSION, NEW from \in Int, NEW to \in Int
  PROVE  /\ Between(db, from, to) = KeptIn(from, to)
         /\ AreRowsOf(rounds_between(db, from, to), KeptIn(from, to))
<1> DEFINE ids == KeptIn(from, to)
           rows == rounds_between(db, from, to)
           n == Cardinality(ids)
<1>1. /\ DOMAIN kept = 1 .. Len(kept) /\ Len(kept) \in Nat
      /\ \A id \in DOMAIN kept : kept[id].at \in Nat
  <2> DEFINE Kept == [result : Results \cup OldRounds, at : Nat]
  <2>1. kept \in Seq(Kept) /\ \A k \in Kept : k.at \in Nat
    BY DEF SchemaInv
  <2> HIDE DEF Kept
  <2>2. DOMAIN kept = 1 .. Len(kept) /\ Len(kept) \in Nat
    BY <2>1, LenProperties
  <2>3. \A id \in 1 .. Len(kept) : kept[id] \in Kept
    BY <2>1, ElementOfSeq
  <2> QED
    BY <2>1, <2>2, <2>3
<1>2. /\ DOMAIN db.rounds = 1 .. Len(kept)
      /\ \A id \in 1 .. Len(kept) : db.rounds[id]["started_at"] = kept[id].at
  <2>1. "started_at" \in db.columns \cap Told
    <3>1. db.columns = Columns
      BY DEF SchemaInv, Tells, ColumnsOf, SCHEMA_VERSION
    <3> QED
      BY <3>1 DEF Columns, V1Columns, Told
  <2>2. \A r, at : RoundRow(r, at)["started_at"] = at
    BY DEF RoundRow, Columns, V1Columns
  <2> QED
    BY <2>1, <2>2 DEF SchemaInv, Tells
<1>3. Between(db, from, to) = ids
  BY <1>1, <1>2 DEF Between, KeptIn
<1>4. ids \in SUBSET (1 .. Len(kept)) /\ IsFiniteSet(ids) /\ n \in Nat
  <2>1. IsFiniteSet(1 .. Len(kept))
    BY <1>1, FS_Interval
  <2>2. ids \in SUBSET (1 .. Len(kept))
    BY <1>1 DEF KeptIn
  <2> QED
    BY <2>1, <2>2, FS_Subset, FS_CardinalityType
<1> DEFINE at == [i \in ids |-> kept[i].at]
           place == [i \in ids |-> PlaceOf(ids, at, i)]
<1>5. /\ \A i \in ids : place[i] \in 1 .. n
      /\ \A i, j \in ids : place[i] < place[j] => at[i] <= at[j]
      /\ \A i, j \in ids : place[i] = place[j] => i = j
      /\ \A k \in 1 .. n : \E i \in ids : place[i] = k
  <2>1. ids \in SUBSET Nat /\ at \in [ids -> Int]
    BY <1>1, <1>4
  <2>2. place = [i \in ids |-> PlaceOf(ids, at, i)]
    OBVIOUS
  <2>3. IsFiniteSet(ids)
    BY <1>4
  <2> HIDE DEF at, place
  <2> QED
    BY ONLY <2>1, <2>2, <2>3, Places
<1> DEFINE Before(i, j) ==
             \/ db.rounds[i]["started_at"] < db.rounds[j]["started_at"]
             \/ db.rounds[i]["started_at"] = db.rounds[j]["started_at"] /\ i < j
           Place(i) == 1 + Cardinality({j \in Between(db, from, to) : Before(j, i)})
           id_at(k) == CHOOSE i \in Between(db, from, to) : Place(i) = k
<1>6. \A i \in ids : Place(i) = place[i]
  <2> SUFFICES ASSUME NEW i \in ids PROVE Place(i) = place[i]
    OBVIOUS
  <2>1. ASSUME NEW j \in ids
        PROVE  Before(j, i) <=> (at[j] < at[i] \/ (at[j] = at[i] /\ j < i))
    BY <1>2, <1>4
  <2>2. place[i] = 1 + Cardinality({j \in ids : at[j] < at[i] \/ (at[j] = at[i] /\ j < i)})
    BY DEF PlaceOf
  <2> HIDE DEF Before, at, place
  <2>3. {j \in Between(db, from, to) : Before(j, i)}
          = {j \in ids : at[j] < at[i] \/ (at[j] = at[i] /\ j < i)}
    BY <1>3, <2>1
  <2> QED
    BY <2>2, <2>3
<1>7. rows = [k \in 1 .. n |-> [id |-> id_at(k), row |-> db.rounds[id_at(k)]]]
  <2>1. rows = [k \in 1 .. Cardinality(Between(db, from, to)) |->
                  [id |-> id_at(k), row |-> db.rounds[id_at(k)]]]
    BY DEF rounds_between
  <2> HIDE DEF id_at
  <2> QED
    BY <1>3, <2>1
<1>8. ASSUME NEW k \in 1 .. n
      PROVE  id_at(k) \in ids /\ place[id_at(k)] = k
  <2>1. \E i \in Between(db, from, to) : Place(i) = k
    <3> HIDE DEF Place, place
    <3> QED
      BY <1>3, <1>5, <1>6
  <2> HIDE DEF Place, place
  <2>2. id_at(k) \in Between(db, from, to) /\ Place(id_at(k)) = k
    BY <2>1
  <2> QED
    BY <1>3, <1>6, <2>2
<1>9. ASSUME NEW i \in ids
      PROVE  place[i] \in 1 .. n /\ id_at(place[i]) = i
  <2> HIDE DEF place, id_at
  <2> QED
    BY <1>5, <1>8
<1>10. \A i \in ids : at[i] = kept[i].at
  OBVIOUS
<1> HIDE DEF id_at, Place, Before, place, n, at, rows, ids
<1>11. /\ DOMAIN rows = 1 .. n /\ Len(rows) = n
       /\ \A k \in 1 .. n : rows[k].id = id_at(k) /\ rows[k].row = db.rounds[id_at(k)]
  BY <1>4, <1>7
<1>12. {rows[i].id : i \in DOMAIN rows} = ids
  BY <1>5, <1>8, <1>9, <1>11
<1>13. ASSUME NEW i \in 1 .. n, NEW j \in 1 .. n, i < j
       PROVE  kept[id_at(i)].at <= kept[id_at(j)].at
  BY <1>5, <1>8, <1>10, <1>13
<1>14. /\ DOMAIN rows = 1 .. Cardinality(ids) /\ Len(rows) = Cardinality(ids)
       /\ Cardinality(ids) \in Nat
  BY <1>4, <1>11 DEF n
<1>15. \A i \in DOMAIN rows : rows[i].row = db.rounds[rows[i].id]
  BY <1>11
<1>16. \A i, j \in DOMAIN rows : i < j => kept[rows[i].id].at <= kept[rows[j].id].at
  BY <1>11, <1>13
<1> QED
  BY ONLY <1>3, <1>4, <1>12, <1>14, <1>15, <1>16, Zenon DEF AreRowsOf, rows, ids

\* Some value of a set of numbers is the least of them.
LEMMA MinOfNumbers ==
  ASSUME NEW numbers \in SUBSET Nat, numbers # {}
  PROVE  Min(numbers) \in numbers
<1> DEFINE Less == OpToRel(<, Nat)
<1>1. \A x, y \in Nat : <<y, x>> \in Less <=> y < x
  BY DEF OpToRel
<1>2. IsWellFoundedOn(Less, Nat)
  BY NatLessThanWellFounded
<1> HIDE DEF Less
<1>3. PICK x \in numbers : \A y \in numbers : ~(<<y, x>> \in Less)
  BY <1>2, WFMin
<1>4. ASSUME NEW y \in numbers PROVE x <= y
  <2>1. x \in Nat /\ y \in Nat
    OBVIOUS
  <2>2. ~(y < x)
    BY ONLY <1>1, <1>3, <2>1, y \in numbers, Zenon
  <2> QED
    BY <2>1, <2>2
<1> QED
  BY <1>4 DEF Min

\* What an export says of a stored round is what the round was.
LEMMA CellsAreTrue ==
  ASSUME SchemaInv, db.version = SCHEMA_VERSION, NEW id \in 1 .. Len(kept),
         NEW row, row = db.rounds[id], NEW r, r = kept[id].result
  PROVE  /\ row["started_at"] = kept[id].at /\ row["mode"] = r.kind
         /\ row["down_bps"] = r.down /\ row["skipped_reason"] = r.reason
         /\ row["ping_idle_ms"] = IF r.ping = None THEN None ELSE r.ping.avg_ms
         /\ r.ping # None => row["loss_idle_pct"] = r.ping.loss_pct
         /\ row["bytes_down"] = IF r.window = None THEN 0 ELSE r.window.bytes
<1>1. db.columns \cap Told = Told
  <2>1. db.columns = Columns
    BY DEF SchemaInv, Tells, ColumnsOf, SCHEMA_VERSION
  <2> QED
    BY <2>1 DEF Told
<1>2. \A column \in Told : row[column] = RoundRow(r, kept[id].at)[column]
  BY <1>1 DEF SchemaInv, Tells
<1>3. {"started_at", "mode", "down_bps", "skipped_reason", "ping_idle_ms", "loss_idle_pct",
       "bytes_down"} \subseteq Told
  BY DEF Told, Columns, V1Columns, V2Columns, V3Columns
<1> DEFINE told == RoundRow(r, kept[id].at)
<1>4. /\ told["started_at"] = kept[id].at /\ told["mode"] = r.kind
      /\ told["down_bps"] = r.down /\ told["skipped_reason"] = r.reason
      /\ told["ping_idle_ms"] = IF r.ping = None THEN None ELSE r.ping.avg_ms
      /\ r.ping # None => told["loss_idle_pct"] = r.ping.loss_pct
      /\ told["bytes_down"] = IF r.window = None THEN 0 ELSE r.window.bytes
  BY DEF RoundRow, bytes_moved, Columns, V1Columns, V2Columns, V3Columns
<1> HIDE DEF told
<1> QED
  BY <1>2, <1>3, <1>4 DEF told

\* What is stored says what happened, whatever version stored it and whatever
\* range is asked for.
THEOREM EvidenceHolds == Spec => []EvidenceIsTrue
<1>1. LockInv /\ SchemaInv => EvidenceIsTrue
  <2> SUFFICES ASSUME LockInv, SchemaInv, db.version = SCHEMA_VERSION,
                      NEW from \in {0} \cup {kept[id].at : id \in DOMAIN kept},
                      NEW to \in {0} \cup {kept[id].at : id \in DOMAIN kept}
               PROVE  LET lines == export_rounds_csv(db, from, to)
                          rows == rounds_between(db, from, to)
                          down == round_aggregates(db, from, to, "down_bps")
                          Ids == {id \in DOMAIN kept : kept[id].at \in from .. to}
                      IN  /\ {rows[i].id : i \in DOMAIN rows} = Ids /\ Len(rows) = Cardinality(Ids)
                          /\ \A i, j \in DOMAIN lines :
                               i < j => lines[i]["started_at"] <= lines[j]["started_at"]
                          /\ \A i \in DOMAIN lines :
                               LET r == kept[rows[i].id].result
                               IN  /\ lines[i]["mode"] = r.kind
                                   /\ lines[i]["down_bps"] = r.down
                                   /\ (lines[i]["ping_idle_ms"] = None)
                                        <=> (r.ping = None \/ r.ping.avg_ms = None)
                                   /\ r.ping # None => rows[i].row["loss_idle_pct"] = r.ping.loss_pct
                                   /\ lines[i]["skipped_reason"] = r.reason
                                   /\ rows[i].row["bytes_down"] =
                                        (IF r.window = None THEN 0 ELSE r.window.bytes)
                          /\ down.count = Cardinality({id \in Ids : kept[id].result.down # None})
                          /\ (down.min = None) <=> (down.count = 0)
    BY DEF EvidenceIsTrue
  <2> DEFINE rows == rounds_between(db, from, to)
             ids == {id \in DOMAIN kept : kept[id].at \in from .. to}
             lines == export_rounds_csv(db, from, to)
             down == round_aggregates(db, from, to, "down_bps")
  <2>1. from \in Int /\ to \in Int
    <3>1. \A id \in DOMAIN kept : kept[id].at \in Nat
      <4> DEFINE Kept == [result : Results \cup OldRounds, at : Nat]
      <4>1. kept \in Seq(Kept) /\ \A k \in Kept : k.at \in Nat
        BY DEF SchemaInv
      <4> HIDE DEF Kept
      <4>2. \A id \in DOMAIN kept : kept[id] \in Kept
        BY <4>1, LenProperties, ElementOfSeq
      <4> QED
        BY <4>1, <4>2
    <3> QED
      BY <3>1
  <2>2. /\ ids \in SUBSET (1 .. Len(kept)) /\ IsFiniteSet(ids) /\ Cardinality(ids) \in Nat
        /\ Between(db, from, to) = ids
        /\ DOMAIN rows = 1 .. Cardinality(ids) /\ Len(rows) = Cardinality(ids)
        /\ {rows[i].id : i \in DOMAIN rows} = ids
        /\ \A i \in DOMAIN rows : rows[i].row = db.rounds[rows[i].id]
        /\ \A i, j \in DOMAIN rows : i < j => kept[rows[i].id].at <= kept[rows[j].id].at
    BY <2>1, RowsOfRange DEF AreRowsOf, KeptIn
  <2>3. /\ DOMAIN lines = DOMAIN rows
        /\ \A i \in DOMAIN lines : lines[i] = CsvLine(rows[i].row)
    BY DEF export_rounds_csv
  <2>4. /\ down.count = Cardinality({id \in ids : kept[id].result.down # None})
        /\ (down.min = None) <=> (down.count = 0)
    <3> DEFINE read == {id \in ids : kept[id].result.down # None}
               value(id) == db.rounds[id]["down_bps"]
               values == {<<id, value(id)>> : id \in read}
    <3>1. ASSUME NEW id \in ids
          PROVE  value(id) = kept[id].result.down /\ value(id) \in Nat \cup {None}
      <4>1. id \in 1 .. Len(kept)
        BY <2>2
      <4>2. db.rounds[id]["down_bps"] = kept[id].result.down
        BY <4>1, CellsAreTrue
      <4>3. kept[id].result \in Results \cup OldRounds
        <5> DEFINE Kept == [result : Results \cup OldRounds, at : Nat]
        <5>1. kept \in Seq(Kept) /\ \A k \in Kept : k.result \in Results \cup OldRounds
          BY DEF SchemaInv
        <5> HIDE DEF Kept
        <5>2. kept[id] \in Kept
          BY <4>1, <5>1, ElementOfSeq
        <5> QED
          BY <5>1, <5>2
      <4> QED
        BY <4>2, <4>3, RoundAssumption
    <3>2. down = MetricAgg(values)
      <4>1. {i \in Between(db, from, to) : db.rounds[i]["down_bps"] # None} = read
        <5> HIDE DEF ids
        <5> QED
          BY <2>2, <3>1
      <4> HIDE DEF read
      <4> QED
        BY <4>1 DEF round_aggregates
    <3>3. IsFiniteSet(read) /\ IsFiniteSet(values) /\ Cardinality(values) = Cardinality(read)
      <4>1. IsFiniteSet(read)
        <5>1. read \in SUBSET ids /\ IsFiniteSet(ids)
          BY <2>2
        <5> HIDE DEF read, ids
        <5> QED
          BY <5>1, FS_Subset
      <4> DEFINE pair == [id \in read |-> <<id, value(id)>>]
      <4> HIDE DEF read
      <4>2. pair \in Bijection(read, values)
        BY DEF Bijection, Injection, Surjection, IsInjective
      <4>3. ExistsBijection(read, values)
        BY <4>2 DEF ExistsBijection
      <4> QED
        BY <4>1, <4>3, FS_Bijection
    <3>4. values # {} => Min({v[2] : v \in values}) # None
      <4> DEFINE numbers == {v[2] : v \in values}
      <4>1. numbers \in SUBSET Nat
        <5>1. \A id \in read : id \in ids /\ kept[id].result.down # None
          OBVIOUS
        <5>2. \A id \in read : value(id) \in Nat
          BY <3>1, <5>1
        <5> HIDE DEF read, value
        <5> QED
          BY <5>2
      <4>2. values # {} => numbers # {}
        <5> HIDE DEF values
        <5> QED
          OBVIOUS
      <4> HIDE DEF numbers, values
      <4>3. numbers # {} => Min(numbers) \in Nat
        BY <4>1, MinOfNumbers
      <4> QED
        BY <4>2, <4>3, RoundAssumption DEF numbers
    <3> HIDE DEF read, values
    <3> QED
      BY <3>2, <3>3, <3>4, MetricAggOf, FS_EmptySet DEF read
  <2> HIDE DEF lines, down, rows, ids
  <2>5. ASSUME NEW i \in DOMAIN lines
        PROVE  LET r == kept[rows[i].id].result
               IN  /\ lines[i]["started_at"] = kept[rows[i].id].at
                   /\ lines[i]["mode"] = r.kind
                   /\ lines[i]["down_bps"] = r.down
                   /\ (lines[i]["ping_idle_ms"] = None) <=> (r.ping = None \/ r.ping.avg_ms = None)
                   /\ r.ping # None => rows[i].row["loss_idle_pct"] = r.ping.loss_pct
                   /\ lines[i]["skipped_reason"] = r.reason
                   /\ rows[i].row["bytes_down"] = (IF r.window = None THEN 0 ELSE r.window.bytes)
    <3> DEFINE id == rows[i].id
               row == db.rounds[id]
               r == kept[id].result
    <3>1. id \in 1 .. Len(kept) /\ rows[i].row = row
      BY <2>2, <2>3
    <3>2. /\ lines[i]["started_at"] = row["started_at"] /\ lines[i]["mode"] = row["mode"]
          /\ lines[i]["down_bps"] = row["down_bps"]
          /\ lines[i]["ping_idle_ms"] = row["ping_idle_ms"]
          /\ lines[i]["skipped_reason"] = row["skipped_reason"]
      <4> HIDE DEF row
      <4> QED
        BY <2>3, <3>1 DEF CsvLine
    <3>3. row = db.rounds[id] /\ r = kept[id].result
      OBVIOUS
    <3> HIDE DEF row, r, id
    <3>4. /\ row["started_at"] = kept[id].at /\ row["mode"] = r.kind
          /\ row["down_bps"] = r.down /\ row["skipped_reason"] = r.reason
          /\ row["ping_idle_ms"] = IF r.ping = None THEN None ELSE r.ping.avg_ms
          /\ r.ping # None => row["loss_idle_pct"] = r.ping.loss_pct
          /\ row["bytes_down"] = IF r.window = None THEN 0 ELSE r.window.bytes
      BY <3>1, <3>3, CellsAreTrue
    <3> QED
      BY <3>1, <3>2, <3>3, <3>4 DEF id, r
  <2>6. \A i, j \in DOMAIN lines : i < j => lines[i]["started_at"] <= lines[j]["started_at"]
    BY <2>2, <2>3, <2>5
  <2> QED
    BY <2>2, <2>4, <2>5, <2>6 DEF lines, down, rows, ids
<1>2. Init => LockInv /\ SchemaInv
  BY LockInit, SchemaInit
<1>3. LockInv /\ SchemaInv /\ [Next]_vars => (LockInv /\ SchemaInv)'
  BY LockStep, SchemaStep
<1> QED
  BY <1>1, <1>2, <1>3, PTL DEF Spec
=============================================================================
