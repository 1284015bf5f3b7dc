---------------------------- MODULE StoredRounds ----------------------------
(***************************************************************************)
(* The rounds in the database as the screens read them: each read is a     *)
(* task of its own that opens the database when it runs, and its answer is *)
(* applied when it arrives, in any order, while rounds are stored.         *)
(***************************************************************************)
EXTENDS Integers, Sequences, FiniteSets, SequencesExt

CONSTANTS
  Nothing,    \* no answer yet
  Instants,   \* the seconds since the epoch at which something happens
  MaxRounds,  \* bound: the rounds stored
  MaxTasks    \* bound: the reads on their way at once

ASSUME StoredRoundsConstants ==
  /\ Instants \subseteq Nat /\ Instants # {}
  /\ {MaxRounds, MaxTasks} \subseteq Nat

VARIABLES
  clock,   \* SystemTime::now, in seconds
  rounds,  \* the stored rounds
  tasks    \* the reads on their way, in the order they were asked

roundVars == <<clock, rounds, tasks>>

Writers == {"app", "cli"}

Rounds == [id: 1..MaxRounds, at: Instants, by: Writers]

Answers == [ok: BOOLEAN, rows: SUBSET Rounds, stored: SUBSET Rounds]

\* `overtaken' is set when an answer to a later question was applied before the
\* one to this.
Task(kind, asked) ==
  [kind |-> kind, asked |-> asked, answer |-> Nothing, overtaken |-> FALSE]

Room(n) == Len(tasks) + n <= MaxTasks

InitRounds ==
  /\ clock \in Instants /\ \A later \in Instants : clock <= later
  /\ rounds = {}

Pass ==
  /\ clock' \in {at \in Instants : at > clock}
  /\ UNCHANGED <<rounds, tasks>>

insert_round(writer) ==
  /\ Cardinality(rounds) < MaxRounds
  /\ rounds' = rounds \cup {[id |-> Cardinality(rounds) + 1, at |-> clock, by |-> writer]}
  /\ UNCHANGED clock

rounds_between(span) == {row \in rounds : span.from <= row.at /\ row.at <= span.to}

\* Task i reads its rows and ends, or fails; `stored' remembers what was there.
Answer_(i, rows) ==
  /\ tasks[i].answer = Nothing
  /\ \E ok \in BOOLEAN :
       tasks' = [tasks EXCEPT ![i].answer =
                   [ok |-> ok, rows |-> IF ok THEN rows ELSE {},
                    stored |-> IF ok THEN rounds ELSE {}]]
  /\ UNCHANGED <<clock, rounds>>

\* The answer of task i reaches the app.
Delivered(i, kind) ==
  /\ tasks[i].kind = kind
  /\ tasks[i].answer # Nothing
  /\ tasks' = RemoveAt([j \in DOMAIN tasks |->
                 IF j < i /\ tasks[j].kind = kind
                   THEN [tasks[j] EXCEPT !.overtaken = TRUE] ELSE tasks[j]], i)
  /\ UNCHANGED <<clock, rounds>>

\* What is remembered of an answer that was applied.
Remembered(task) ==
  [ok |-> task.answer.ok, overtaken |-> task.overtaken, stored |-> task.answer.stored]

Memories == {Nothing} \cup [ok: BOOLEAN, overtaken: BOOLEAN, stored: SUBSET Rounds]

\* The last question of the kind has been answered, after all the others, and
\* its read succeeded.
Settled(kind, memory) ==
  /\ \A i \in DOMAIN tasks : tasks[i].kind # kind
  /\ memory # Nothing
  /\ memory.ok /\ ~memory.overtaken

RoundsTypeOK ==
  /\ clock \in Instants /\ rounds \subseteq Rounds
  /\ Len(tasks) <= MaxTasks
  /\ \A i \in DOMAIN tasks : tasks[i].answer \in {Nothing} \cup Answers
=============================================================================
