------------------------ MODULE SettingsScreenProofs ------------------------
(***************************************************************************)
(* What is proved of SettingsScreen and of the files of SettingsText: what *)
(* is committed is read back, character by character; the inputs show the  *)
(* values in force; Undo gives back the rows and lasts long enough.        *)
(***************************************************************************)
EXTENDS SettingsScreen, SequenceTheorems, FiniteSetTheorems, WellFoundedInduction, TLAPS

-----------------------------------------------------------------------------
(* Numbers and sequences. *)

First(positions) == CHOOSE i \in positions : \A j \in positions : i <= j
\* Of some positions, one is the first.
LEMMA FirstOfSome ==
  ASSUME NEW positions \in SUBSET Nat, positions # {}
  PROVE  First(positions) \in positions /\ \A j \in positions : First(positions) <= j
<1> DEFINE Less == OpToRel(<, Nat)
<1>1. \A x, y \in Nat : <<y, x>> \in Less <=> y < x
  BY DEF OpToRel
<1>2. IsWellFoundedOn(Less, Nat)
  BY NatLessThanWellFounded
<1> HIDE DEF Less
<1>3. PICK i \in positions : \A j \in positions : ~(<<j, i>> \in Less)
  BY <1>2, WFMin
<1>4. ASSUME NEW j \in positions PROVE i <= j
  <2>1. i \in Nat /\ j \in Nat
    OBVIOUS
  <2>2. ~(j < i)
    BY ONLY <1>1, <1>3, <2>1, j \in positions, Zenon
  <2> QED
    BY <2>1, <2>2
<1> QED
  BY <1>4 DEF First

\* A set of numbers that goes on holds them all.
LEMMA CountedThrough ==
  ASSUME NEW reached \in SUBSET Nat, 0 \in reached,
         \A n \in reached : n + 1 \in reached
  PROVE  reached = Nat
<1> DEFINE missed == Nat \ reached
<1> SUFFICES ASSUME missed # {} PROVE FALSE
  OBVIOUS
<1>1. First(missed) \in missed /\ \A n \in missed : First(missed) <= n
  BY FirstOfSome
<1> HIDE DEF missed
<1>2. First(missed) \in Nat /\ First(missed) # 0 /\ First(missed) - 1 \notin missed
  BY <1>1 DEF missed
<1>3. First(missed) - 1 \in reached
  BY <1>2 DEF missed
<1>4. First(missed) \in reached
  BY <1>2, <1>3
<1> QED
  BY <1>1, <1>4 DEF missed

\* One of a kind is the one.
LEMMA OnlyOne == \A value : Only({value}) = value
BY DEF Only

\* A numeral is written for every number there is one of.
LEMMA NumeralsAreRead ==
  ASSUME NEW text \in DOMAIN NumberOf
  PROVE  /\ NumeralOf(NumberOf[text]) \in DOMAIN NumberOf
         /\ NumberOf[NumeralOf(NumberOf[text])] = NumberOf[text]
BY DEF NumeralOf

\* Sequences, of anything.
IsSequence(seq) == \E S : seq \in Seq(S)

LEMMA EmptyIsSequence == IsSequence(<<>>)
BY EmptySeq DEF IsSequence

LEMMA AppendedIsSequence ==
  ASSUME NEW seq, IsSequence(seq), NEW value
  PROVE  /\ IsSequence(Append(seq, value))
         /\ Len(seq) \in Nat /\ DOMAIN seq = 1..Len(seq)
         /\ Len(Append(seq, value)) = Len(seq) + 1
         /\ \A i \in 1..Len(seq) : Append(seq, value)[i] = seq[i]
         /\ Append(seq, value)[Len(seq) + 1] = value
<1>1. PICK S : seq \in Seq(S)
  BY DEF IsSequence
<1>2. seq \in Seq(S \cup {value})
  BY <1>1, SeqMonotonic, Zenon
<1>3. Append(seq, value) \in Seq(S \cup {value})
  BY <1>2, AppendProperties
<1> QED
  BY <1>2, <1>3, AppendProperties, LenProperties DEF IsSequence

\* Removing an element moves the later ones down by one.
LEMMA RemovedMoves ==
  ASSUME NEW S, NEW seq \in Seq(S), NEW i \in 1..Len(seq)
  PROVE  /\ RemoveAt(seq, i) \in Seq(S)
         /\ Len(RemoveAt(seq, i)) = Len(seq) - 1
         /\ \A j \in 1..(Len(seq) - 1) :
              RemoveAt(seq, i)[j] = IF j < i THEN seq[j] ELSE seq[j + 1]
<1> DEFINE head == SubSeq(seq, 1, i - 1)
           tail == SubSeq(seq, i + 1, Len(seq))
<1>1. /\ head \in Seq(S) /\ Len(head) = i - 1
      /\ \A j \in 1..(i - 1) : head[j] = seq[j]
  <2>1. \A j \in 1..(i - 1) : seq[j] \in S
    BY ElementOfSeq
  <2> QED
    BY <2>1, SubSeqProperties
<1>2. /\ tail \in Seq(S) /\ Len(tail) = Len(seq) - i
      /\ \A j \in 1..(Len(seq) - i) : tail[j] = seq[i + j]
  <2>1. \A j \in (i + 1)..Len(seq) : seq[j] \in S
    BY ElementOfSeq
  <2> QED
    BY <2>1, SubSeqProperties
<1> HIDE DEF head, tail
<1>3. head \o tail \in Seq(S) /\ Len(head \o tail) = Len(seq) - 1
  BY <1>1, <1>2, ConcatProperties
<1>4. \A j \in 1..(Len(seq) - 1) : (head \o tail)[j] = IF j < i THEN seq[j] ELSE seq[j + 1]
  BY <1>1, <1>2, ConcatProperties
<1>5. RemoveAt(seq, i) = head \o tail
  BY DEF RemoveAt, head, tail
<1> QED
  BY <1>3, <1>4, <1>5

LEMMA RemovedFromSequence ==
  ASSUME NEW seq, IsSequence(seq), NEW i \in 1..Len(seq)
  PROVE  /\ IsSequence(RemoveAt(seq, i))
         /\ Len(RemoveAt(seq, i)) = Len(seq) - 1
         /\ \A j \in 1..(Len(seq) - 1) :
              RemoveAt(seq, i)[j] = IF j < i THEN seq[j] ELSE seq[j + 1]
<1>1. PICK S : seq \in Seq(S)
  BY DEF IsSequence
<1>2. /\ RemoveAt(seq, i) \in Seq(S)
      /\ Len(RemoveAt(seq, i)) = Len(seq) - 1
      /\ \A j \in 1..(Len(seq) - 1) :
              RemoveAt(seq, i)[j] = IF j < i THEN seq[j] ELSE seq[j + 1]
  BY <1>1, RemovedMoves
<1> QED
  BY <1>2, Zenon DEF IsSequence

\* Inserting an element moves the later ones up by one.
LEMMA InsertedIntoSequence ==
  ASSUME NEW seq, IsSequence(seq), NEW i \in 1..(Len(seq) + 1), NEW value
  PROVE  /\ IsSequence(InsertAt(seq, i, value))
         /\ Len(InsertAt(seq, i, value)) = Len(seq) + 1
         /\ \A j \in 1..(Len(seq) + 1) :
              InsertAt(seq, i, value)[j] =
                IF j < i THEN seq[j] ELSE IF j = i THEN value ELSE seq[j - 1]
<1>1. PICK T : seq \in Seq(T)
  BY DEF IsSequence
<1> DEFINE S == T \cup {value}
           head == SubSeq(seq, 1, i - 1)
           tail == SubSeq(seq, i, Len(seq))
<1>2. seq \in Seq(S) /\ value \in S
  BY <1>1, SeqMonotonic, Zenon
<1> HIDE DEF S
<1>3. Len(seq) \in Nat /\ \A j \in 1..Len(seq) : seq[j] \in S
  BY <1>2, LenProperties, ElementOfSeq
<1>4. /\ head \in Seq(S) /\ Len(head) = i - 1
      /\ \A j \in 1..(i - 1) : head[j] = seq[j]
  <2>1. \A j \in 1..(i - 1) : seq[j] \in S
    BY <1>3
  <2> QED
    BY <1>2, <1>3, <2>1, SubSeqProperties
<1>5. /\ tail \in Seq(S) /\ Len(tail) = Len(seq) + 1 - i
      /\ \A j \in 1..(Len(seq) + 1 - i) : tail[j] = seq[i + j - 1]
  <2>1. \A j \in i..Len(seq) : seq[j] \in S
    BY <1>3
  <2> QED
    BY <1>2, <1>3, <2>1, SubSeqProperties
<1> HIDE DEF head, tail
<1>6. <<value>> \in Seq(S) /\ Len(<<value>>) = 1 /\ <<value>>[1] = value
  BY <1>2
<1> DEFINE one == <<value>>
<1> HIDE DEF one
<1>7. one \in Seq(S) /\ Len(one) = 1 /\ one[1] = value
  BY <1>6 DEF one
<1>8. /\ head \o one \in Seq(S) /\ Len(head \o one) = i
      /\ \A j \in 1..i : (head \o one)[j] = IF j < i THEN seq[j] ELSE value
  <2>1. /\ head \o one \in Seq(S) /\ Len(head \o one) = Len(head) + Len(one)
        /\ \A j \in 1..(Len(head) + Len(one)) :
             (head \o one)[j] = IF j <= Len(head) THEN head[j] ELSE one[j - Len(head)]
    BY <1>4, <1>7, ConcatProperties
  <2>2. i \in Nat /\ Len(head) + Len(one) = i
    BY <1>3, <1>4, <1>7
  <2>3. ASSUME NEW j \in 1..i
        PROVE  (head \o one)[j] = IF j < i THEN seq[j] ELSE value
    <3>1. (head \o one)[j] = IF j <= Len(head) THEN head[j] ELSE one[j - Len(head)]
      BY <2>1, <2>2
    <3>2. CASE j < i
      BY <1>4, <2>2, <3>1, <3>2
    <3>3. CASE ~(j < i)
      BY <1>4, <1>7, <2>2, <3>1, <3>3
    <3> QED
      BY <3>2, <3>3
  <2> QED
    BY <2>1, <2>2, <2>3
<1>9. /\ (head \o one) \o tail \in Seq(S)
      /\ Len((head \o one) \o tail) = Len(seq) + 1
      /\ \A j \in 1..(Len(seq) + 1) :
           ((head \o one) \o tail)[j] =
             IF j < i THEN seq[j] ELSE IF j = i THEN value ELSE seq[j - 1]
  <2> DEFINE front == head \o one
  <2> HIDE DEF front
  <2>1. /\ front \in Seq(S) /\ Len(front) = i
        /\ \A j \in 1..i : front[j] = IF j < i THEN seq[j] ELSE value
    BY <1>8 DEF front
  <2>2. /\ front \o tail \in Seq(S)
        /\ Len(front \o tail) = Len(seq) + 1
        /\ \A j \in 1..(Len(seq) + 1) :
             (front \o tail)[j] =
               IF j < i THEN seq[j] ELSE IF j = i THEN value ELSE seq[j - 1]
    <3>1. /\ front \o tail \in Seq(S) /\ Len(front \o tail) = Len(front) + Len(tail)
          /\ \A j \in 1..(Len(front) + Len(tail)) :
               (front \o tail)[j] = IF j <= Len(front) THEN front[j] ELSE tail[j - Len(front)]
      BY <1>5, <2>1, ConcatProperties
    <3>2. i \in Nat /\ Len(front) + Len(tail) = Len(seq) + 1
      BY <1>3, <1>5, <2>1
    <3>3. ASSUME NEW j \in 1..(Len(seq) + 1)
          PROVE  (front \o tail)[j] =
                   IF j < i THEN seq[j] ELSE IF j = i THEN value ELSE seq[j - 1]
      <4>1. (front \o tail)[j] = IF j <= Len(front) THEN front[j] ELSE tail[j - Len(front)]
        BY <3>1, <3>2
      <4>2. CASE j <= i
        BY <2>1, <3>2, <4>1, <4>2
      <4>3. CASE i < j
        <5>1. j - i \in 1..(Len(seq) + 1 - i) /\ i + (j - i) - 1 = j - 1
          BY <1>3, <3>2, <4>3
        <5>2. tail[j - i] = seq[i + (j - i) - 1]
          BY <1>5, <5>1
        <5> QED
          BY <2>1, <3>2, <4>1, <4>3, <5>1, <5>2
      <4> QED
        BY <3>2, <4>2, <4>3
    <3> QED
      BY <3>1, <3>2, <3>3
  <2> QED
    BY <2>2 DEF front
<1>10. InsertAt(seq, i, value) = (head \o one) \o tail
  BY DEF InsertAt, head, one, tail
<1> QED
  BY <1>9, <1>10 DEF IsSequence

\* What is put back where it was taken from.
LEMMA InsertUndoesRemove ==
  ASSUME NEW seq, IsSequence(seq), NEW i \in 1..Len(seq)
  PROVE  InsertAt(RemoveAt(seq, i), i, seq[i]) = seq
<1> DEFINE rest == RemoveAt(seq, i)
           again == InsertAt(rest, i, seq[i])
<1>1. PICK S : seq \in Seq(S)
  BY DEF IsSequence
<1>2. Len(seq) \in Nat
  BY <1>1
<1>3. /\ IsSequence(rest) /\ Len(rest) = Len(seq) - 1
      /\ \A j \in 1..(Len(seq) - 1) : rest[j] = IF j < i THEN seq[j] ELSE seq[j + 1]
  BY RemovedFromSequence
<1> HIDE DEF rest
<1>4. /\ IsSequence(again) /\ Len(again) = Len(seq)
      /\ \A j \in 1..Len(seq) :
           again[j] = IF j < i THEN rest[j] ELSE IF j = i THEN seq[i] ELSE rest[j - 1]
  <2>1. i \in 1..(Len(rest) + 1) /\ Len(rest) + 1 = Len(seq)
    BY <1>2, <1>3
  <2> QED
    BY <1>3, <2>1, InsertedIntoSequence
<1> HIDE DEF again
<1>5. \A j \in 1..Len(seq) : again[j] = seq[j]
  BY <1>2, <1>3, <1>4
<1>6. PICK T : again \in Seq(T)
  BY <1>4 DEF IsSequence
<1>7. again = seq
  <2>1. seq \in Seq(S \cup T) /\ again \in Seq(S \cup T)
    BY <1>1, <1>6, SeqMonotonic, Zenon
  <2> QED
    BY <1>4, <1>5, <2>1, SeqEqual
<1> QED
  BY <1>7 DEF again, rest

-----------------------------------------------------------------------------
(* The folds of SettingsText.  A lemma about every operator cannot be cited *)
(* for one of them, so Stepped stands for the four that are folded.         *)

Stepped(op, so_far, next) ==
  CASE op = "join" -> so_far \o next
    [] op = "take" -> Take(so_far, next)
    [] op = "line" -> ReadLine(so_far, next)
    [] op = "ui"   -> ReadUiLine(so_far, next)

Through(op, start, seq, upto) ==
  /\ upto[0] = start
  /\ \A m \in 1..Len(seq) : upto[m] = Stepped(op, upto[m - 1], seq[m])

LEMMA ThroughAgree ==
  ASSUME NEW op, NEW start, NEW seq, Len(seq) \in Nat, NEW f, NEW g,
         Through(op, start, seq, f), Through(op, start, seq, g)
  PROVE  f[Len(seq)] = g[Len(seq)]
<1> DEFINE agreed == {n \in Nat : n <= Len(seq) => f[n] = g[n]}
<1>1. 0 \in agreed
  BY DEF Through
<1>2. ASSUME NEW n \in agreed PROVE n + 1 \in agreed
  <2> SUFFICES ASSUME n + 1 <= Len(seq) PROVE f[n + 1] = g[n + 1]
    OBVIOUS
  <2>1. n + 1 \in 1..Len(seq) /\ (n + 1) - 1 = n /\ f[n] = g[n]
    OBVIOUS
  <2> QED
    BY <2>1, Zenon DEF Through
<1> HIDE DEF agreed
<1>3. agreed = Nat
  BY <1>1, <1>2, CountedThrough DEF agreed
<1> QED
  BY <1>3 DEF agreed

LEMMA ThroughExists ==
  ASSUME NEW op, NEW start, NEW seq, Len(seq) \in Nat
  PROVE  \E upto : Through(op, start, seq, upto)
<1> DEFINE Some(g, n) == /\ g[0] = start
                         /\ \A m \in 1..n : g[m] = Stepped(op, g[m - 1], seq[m])
           reached == {n \in Nat : \E g : Some(g, n)}
<1>1. 0 \in reached
  <2> DEFINE g == [m \in {0} |-> start]
  <2>1. Some(g, 0)
    OBVIOUS
  <2> QED
    BY <2>1
<1>2. ASSUME NEW n \in reached PROVE n + 1 \in reached
  <2>1. PICK g : Some(g, n)
    OBVIOUS
  <2> DEFINE h == [m \in 0..(n + 1) |-> IF m <= n THEN g[m] ELSE Stepped(op, g[n], seq[n + 1])]
  <2>2. Some(h, n + 1)
    BY <2>1
  <2> HIDE DEF h
  <2> QED
    BY <2>2
<1> HIDE DEF reached
<1>3. reached = Nat
  BY <1>1, <1>2, CountedThrough DEF reached
<1> QED
  BY <1>3 DEF reached, Through

OneMore(op, start, seq, next) ==
  \E upto : /\ Through(op, start, seq, upto)
            /\ Through(op, start, Append(seq, next), upto)
            /\ upto[Len(Append(seq, next))] = Stepped(op, upto[Len(seq)], next)

LEMMA ThroughGoesOn ==
  ASSUME NEW op, NEW start, NEW seq, IsSequence(seq), NEW next
  PROVE  OneMore(op, start, seq, next)
<1> DEFINE longer == Append(seq, next)
           last == Len(seq)
<1>1. /\ last \in Nat /\ Len(longer) = last + 1 /\ longer[last + 1] = next
      /\ \A m \in 1..last : longer[m] = seq[m]
  BY AppendedIsSequence
<1> HIDE DEF longer
<1>2. PICK upto : Through(op, start, longer, upto)
  BY <1>1, ThroughExists
<1>3. Through(op, start, seq, upto)
  BY <1>1, <1>2 DEF Through
<1>4. upto[last + 1] = Stepped(op, upto[last], next)
  <2>1. last + 1 \in 1..Len(longer) /\ (last + 1) - 1 = last
    BY <1>1
  <2> QED
    BY <1>1, <1>2, <2>1, Zenon DEF Through
<1> QED
  BY <1>1, <1>2, <1>3, <1>4, Zenon DEF OneMore, longer

\* Sequences one after the other.
LEMMA ConcatIs ==
  ASSUME NEW seq, Len(seq) \in Nat, NEW upto, Through("join", <<>>, seq, upto)
  PROVE  Concat(seq) = upto[Len(seq)]
<1> DEFINE Step(g) == [m \in 0..Len(seq) |-> IF m = 0 THEN <<>> ELSE g[m - 1] \o seq[m]]
           there == [m \in 0..Len(seq) |-> upto[m]]
           chosen == CHOOSE g : g = Step(g)
<1>1. \A m \in 0..Len(seq) : there[m] = IF m = 0 THEN <<>> ELSE there[m - 1] \o seq[m]
  BY DEF Through, Stepped
<1>2. there = Step(there)
  BY <1>1
<1>3. chosen = Step(chosen)
  BY <1>2, Zenon
<1> HIDE DEF chosen, there
<1>4. Through("join", <<>>, seq, chosen)
  <2>1. \A m \in 0..Len(seq) :
          chosen[m] = IF m = 0 THEN <<>> ELSE chosen[m - 1] \o seq[m]
    BY <1>3, Zenon
  <2>2. chosen[0] = <<>>
    <3>1. 0 \in 0..Len(seq)
      OBVIOUS
    <3> QED
      BY <2>1, <3>1, Zenon
  <2>3. ASSUME NEW m \in 1..Len(seq) PROVE chosen[m] = Stepped("join", chosen[m - 1], seq[m])
    <3>1. m \in 0..Len(seq) /\ m # 0
      OBVIOUS
    <3>2. chosen[m] = chosen[m - 1] \o seq[m]
      BY <2>1, <3>1, Zenon
    <3> QED
      BY <3>2 DEF Stepped
  <2> QED
    BY <2>2, <2>3, Zenon DEF Through
<1>5. chosen[Len(seq)] = upto[Len(seq)]
  BY <1>4, ThroughAgree
<1> QED
  BY <1>5 DEF Concat, Folded, chosen

LEMMA ConcatGoesOn ==
  /\ Concat(<<>>) = <<>>
  /\ \A seq, next : IsSequence(seq) => Concat(Append(seq, next)) = Concat(seq) \o next
<1>1. Concat(<<>>) = <<>>
  <2>1. Len(<<>>) \in Nat /\ Len(<<>>) = 0
    OBVIOUS
  <2>2. PICK upto : Through("join", <<>>, <<>>, upto)
    BY <2>1, ThroughExists, Zenon
  <2>3. upto[0] = <<>>
    BY <2>2, Zenon DEF Through
  <2> QED
    BY <2>1, <2>2, <2>3, ConcatIs, Zenon
<1>2. ASSUME NEW seq, NEW next, IsSequence(seq)
      PROVE  Concat(Append(seq, next)) = Concat(seq) \o next
  <2>1. PICK upto : /\ Through("join", <<>>, seq, upto)
                    /\ Through("join", <<>>, Append(seq, next), upto)
                    /\ upto[Len(Append(seq, next))] = Stepped("join", upto[Len(seq)], next)
    <3>1. OneMore("join", <<>>, seq, next)
      BY <1>2, ThroughGoesOn
    <3> QED
      BY <3>1, Zenon DEF OneMore
  <2>2. Len(seq) \in Nat /\ Len(Append(seq, next)) \in Nat
    BY <1>2, AppendedIsSequence
  <2>3. Concat(seq) = upto[Len(seq)] /\ Concat(Append(seq, next)) = upto[Len(Append(seq, next))]
    BY <2>1, <2>2, ConcatIs, Zenon
  <2>4. Stepped("join", upto[Len(seq)], next) = upto[Len(seq)] \o next
    BY DEF Stepped
  <2> QED
    BY <2>1, <2>3, <2>4, Zenon
<1> QED
  BY <1>1, <1>2, Zenon

NothingTaken == [text |-> <<>>, pair |-> FALSE]
Taken(text) == Folded(Take, NothingTaken, text)

\* The characters of a text, of its backslashes every second one left out.
LEMMA TakenIs ==
  ASSUME NEW seq, Len(seq) \in Nat, NEW upto, Through("take", NothingTaken, seq, upto)
  PROVE  Taken(seq) = upto[Len(seq)]
<1> DEFINE Step(g) == [m \in 0..Len(seq) |-> IF m = 0 THEN NothingTaken ELSE Take(g[m - 1], seq[m])]
           there == [m \in 0..Len(seq) |-> upto[m]]
           chosen == CHOOSE g : g = Step(g)
<1>1. \A m \in 0..Len(seq) : there[m] = IF m = 0 THEN NothingTaken ELSE Take(there[m - 1], seq[m])
  BY DEF Through, Stepped
<1>2. there = Step(there)
  BY <1>1
<1>3. chosen = Step(chosen)
  BY <1>2, Zenon
<1> HIDE DEF chosen, there
<1>4. Through("take", NothingTaken, seq, chosen)
  <2>1. \A m \in 0..Len(seq) :
          chosen[m] = IF m = 0 THEN NothingTaken ELSE Take(chosen[m - 1], seq[m])
    BY <1>3, Zenon
  <2>2. chosen[0] = NothingTaken
    <3>1. 0 \in 0..Len(seq)
      OBVIOUS
    <3> QED
      BY <2>1, <3>1, Zenon
  <2>3. ASSUME NEW m \in 1..Len(seq) PROVE chosen[m] = Stepped("take", chosen[m - 1], seq[m])
    <3>1. m \in 0..Len(seq) /\ m # 0
      OBVIOUS
    <3>2. chosen[m] = Take(chosen[m - 1], seq[m])
      BY <2>1, <3>1, Zenon
    <3> QED
      BY <3>2 DEF Stepped
  <2> QED
    BY <2>2, <2>3, Zenon DEF Through
<1>5. chosen[Len(seq)] = upto[Len(seq)]
  BY <1>4, ThroughAgree
<1> QED
  BY <1>5 DEF Taken, Folded, chosen

LEMMA TakenGoesOn ==
  /\ Taken(<<>>) = NothingTaken
  /\ \A seq, next : IsSequence(seq) => Taken(Append(seq, next)) = Take(Taken(seq), next)
<1>1. Taken(<<>>) = NothingTaken
  <2>1. Len(<<>>) \in Nat /\ Len(<<>>) = 0
    OBVIOUS
  <2>2. PICK upto : Through("take", NothingTaken, <<>>, upto)
    BY <2>1, ThroughExists, Zenon
  <2>3. upto[0] = NothingTaken
    BY <2>2, Zenon DEF Through
  <2> QED
    BY <2>1, <2>2, <2>3, TakenIs, Zenon
<1>2. ASSUME NEW seq, NEW next, IsSequence(seq)
      PROVE  Taken(Append(seq, next)) = Take(Taken(seq), next)
  <2>1. PICK upto : /\ Through("take", NothingTaken, seq, upto)
                    /\ Through("take", NothingTaken, Append(seq, next), upto)
                    /\ upto[Len(Append(seq, next))] = Stepped("take", upto[Len(seq)], next)
    <3>1. OneMore("take", NothingTaken, seq, next)
      BY <1>2, ThroughGoesOn
    <3> QED
      BY <3>1, Zenon DEF OneMore
  <2>2. Len(seq) \in Nat /\ Len(Append(seq, next)) \in Nat
    BY <1>2, AppendedIsSequence
  <2>3. Taken(seq) = upto[Len(seq)] /\ Taken(Append(seq, next)) = upto[Len(Append(seq, next))]
    BY <2>1, <2>2, TakenIs, Zenon
  <2>4. Stepped("take", upto[Len(seq)], next) = Take(upto[Len(seq)], next)
    BY DEF Stepped
  <2> QED
    BY <2>1, <2>3, <2>4, Zenon
<1> QED
  BY <1>1, <1>2, Zenon

Reading(lines) == Folded(ReadLine, StartOfFile, lines)

\* The lines of settings.toml.
LEMMA ReadingIs ==
  ASSUME NEW seq, Len(seq) \in Nat, NEW upto, Through("line", StartOfFile, seq, upto)
  PROVE  Reading(seq) = upto[Len(seq)]
<1> DEFINE Step(g) == [m \in 0..Len(seq) |-> IF m = 0 THEN StartOfFile ELSE ReadLine(g[m - 1], seq[m])]
           there == [m \in 0..Len(seq) |-> upto[m]]
           chosen == CHOOSE g : g = Step(g)
<1>1. \A m \in 0..Len(seq) : there[m] = IF m = 0 THEN StartOfFile ELSE ReadLine(there[m - 1], seq[m])
  BY DEF Through, Stepped
<1>2. there = Step(there)
  BY <1>1
<1>3. chosen = Step(chosen)
  BY <1>2, Zenon
<1> HIDE DEF chosen, there
<1>4. Through("line", StartOfFile, seq, chosen)
  <2>1. \A m \in 0..Len(seq) :
          chosen[m] = IF m = 0 THEN StartOfFile ELSE ReadLine(chosen[m - 1], seq[m])
    BY <1>3, Zenon
  <2>2. chosen[0] = StartOfFile
    <3>1. 0 \in 0..Len(seq)
      OBVIOUS
    <3> QED
      BY <2>1, <3>1, Zenon
  <2>3. ASSUME NEW m \in 1..Len(seq) PROVE chosen[m] = Stepped("line", chosen[m - 1], seq[m])
    <3>1. m \in 0..Len(seq) /\ m # 0
      OBVIOUS
    <3>2. chosen[m] = ReadLine(chosen[m - 1], seq[m])
      BY <2>1, <3>1, Zenon
    <3> QED
      BY <3>2 DEF Stepped
  <2> QED
    BY <2>2, <2>3, Zenon DEF Through
<1>5. chosen[Len(seq)] = upto[Len(seq)]
  BY <1>4, ThroughAgree
<1> QED
  BY <1>5 DEF Reading, Folded, chosen

LEMMA ReadingGoesOn ==
  /\ Reading(<<>>) = StartOfFile
  /\ \A seq, next : IsSequence(seq) => Reading(Append(seq, next)) = ReadLine(Reading(seq), next)
<1>1. Reading(<<>>) = StartOfFile
  <2>1. Len(<<>>) \in Nat /\ Len(<<>>) = 0
    OBVIOUS
  <2>2. PICK upto : Through("line", StartOfFile, <<>>, upto)
    BY <2>1, ThroughExists, Zenon
  <2>3. upto[0] = StartOfFile
    BY <2>2, Zenon DEF Through
  <2> QED
    BY <2>1, <2>2, <2>3, ReadingIs, Zenon
<1>2. ASSUME NEW seq, NEW next, IsSequence(seq)
      PROVE  Reading(Append(seq, next)) = ReadLine(Reading(seq), next)
  <2>1. PICK upto : /\ Through("line", StartOfFile, seq, upto)
                    /\ Through("line", StartOfFile, Append(seq, next), upto)
                    /\ upto[Len(Append(seq, next))] = Stepped("line", upto[Len(seq)], next)
    <3>1. OneMore("line", StartOfFile, seq, next)
      BY <1>2, ThroughGoesOn
    <3> QED
      BY <3>1, Zenon DEF OneMore
  <2>2. Len(seq) \in Nat /\ Len(Append(seq, next)) \in Nat
    BY <1>2, AppendedIsSequence
  <2>3. Reading(seq) = upto[Len(seq)] /\ Reading(Append(seq, next)) = upto[Len(Append(seq, next))]
    BY <2>1, <2>2, ReadingIs, Zenon
  <2>4. Stepped("line", upto[Len(seq)], next) = ReadLine(upto[Len(seq)], next)
    BY DEF Stepped
  <2> QED
    BY <2>1, <2>3, <2>4, Zenon
<1> QED
  BY <1>1, <1>2, Zenon

StartOfUi == [ui |-> DefaultUi, ok |-> TRUE]

\* The lines of ui-settings.toml.
LEMMA UiReadingIs ==
  ASSUME NEW seq, Len(seq) \in Nat, NEW upto, Through("ui", StartOfUi, seq, upto)
  PROVE  ParseUi(seq) = upto[Len(seq)]
<1> DEFINE Step(g) == [m \in 0..Len(seq) |-> IF m = 0 THEN StartOfUi ELSE ReadUiLine(g[m - 1], seq[m])]
           there == [m \in 0..Len(seq) |-> upto[m]]
           chosen == CHOOSE g : g = Step(g)
<1>1. \A m \in 0..Len(seq) : there[m] = IF m = 0 THEN StartOfUi ELSE ReadUiLine(there[m - 1], seq[m])
  BY DEF Through, Stepped
<1>2. there = Step(there)
  BY <1>1
<1>3. chosen = Step(chosen)
  BY <1>2, Zenon
<1> HIDE DEF chosen, there
<1>4. Through("ui", StartOfUi, seq, chosen)
  <2>1. \A m \in 0..Len(seq) :
          chosen[m] = IF m = 0 THEN StartOfUi ELSE ReadUiLine(chosen[m - 1], seq[m])
    BY <1>3, Zenon
  <2>2. chosen[0] = StartOfUi
    <3>1. 0 \in 0..Len(seq)
      OBVIOUS
    <3> QED
      BY <2>1, <3>1, Zenon
  <2>3. ASSUME NEW m \in 1..Len(seq) PROVE chosen[m] = Stepped("ui", chosen[m - 1], seq[m])
    <3>1. m \in 0..Len(seq) /\ m # 0
      OBVIOUS
    <3>2. chosen[m] = ReadUiLine(chosen[m - 1], seq[m])
      BY <2>1, <3>1, Zenon
    <3> QED
      BY <3>2 DEF Stepped
  <2> QED
    BY <2>2, <2>3, Zenon DEF Through
<1>5. chosen[Len(seq)] = upto[Len(seq)]
  BY <1>4, ThroughAgree
<1> QED
  BY <1>5 DEF ParseUi, StartOfUi, Folded, chosen

LEMMA UiReadingGoesOn ==
  /\ ParseUi(<<>>) = StartOfUi
  /\ \A seq, next : IsSequence(seq) => ParseUi(Append(seq, next)) = ReadUiLine(ParseUi(seq), next)
<1>1. ParseUi(<<>>) = StartOfUi
  <2>1. Len(<<>>) \in Nat /\ Len(<<>>) = 0
    OBVIOUS
  <2>2. PICK upto : Through("ui", StartOfUi, <<>>, upto)
    BY <2>1, ThroughExists, Zenon
  <2>3. upto[0] = StartOfUi
    BY <2>2, Zenon DEF Through
  <2> QED
    BY <2>1, <2>2, <2>3, UiReadingIs, Zenon
<1>2. ASSUME NEW seq, NEW next, IsSequence(seq)
      PROVE  ParseUi(Append(seq, next)) = ReadUiLine(ParseUi(seq), next)
  <2>1. PICK upto : /\ Through("ui", StartOfUi, seq, upto)
                    /\ Through("ui", StartOfUi, Append(seq, next), upto)
                    /\ upto[Len(Append(seq, next))] = Stepped("ui", upto[Len(seq)], next)
    <3>1. OneMore("ui", StartOfUi, seq, next)
      BY <1>2, ThroughGoesOn
    <3> QED
      BY <3>1, Zenon DEF OneMore
  <2>2. Len(seq) \in Nat /\ Len(Append(seq, next)) \in Nat
    BY <1>2, AppendedIsSequence
  <2>3. ParseUi(seq) = upto[Len(seq)] /\ ParseUi(Append(seq, next)) = upto[Len(Append(seq, next))]
    BY <2>1, <2>2, UiReadingIs, Zenon
  <2>4. Stepped("ui", upto[Len(seq)], next) = ReadUiLine(upto[Len(seq)], next)
    BY DEF Stepped
  <2> QED
    BY <2>1, <2>3, <2>4, Zenon
<1> QED
  BY <1>1, <1>2, Zenon

-----------------------------------------------------------------------------
(* Sequences that grow at their end. *)

LEMMA StringsAreSequences == \A seq : IsString(seq) <=> IsSequence(seq)
<1>1. ASSUME NEW seq, IsSequence(seq) PROVE seq \in Seq(ToSet(seq))
  <2>1. Len(seq) \in Nat /\ seq = [i \in 1..Len(seq) |-> seq[i]]
    BY <1>1 DEF IsSequence
  <2>2. \A i \in 1..Len(seq) : seq[i] \in ToSet(seq)
    BY <1>1 DEF IsSequence, ToSet
  <2> HIDE DEF IsSequence
  <2> QED
    BY <2>1, <2>2
<1> QED
  BY <1>1, Zenon DEF IsString, IsSequence

LEMMA EndIsAppended ==
  ASSUME NEW seq, IsSequence(seq), NEW x, NEW y
  PROVE  /\ seq \o <<>> = seq /\ <<>> \o seq = seq
         /\ seq \o <<x>> = Append(seq, x)
         /\ seq \o <<x, y>> = Append(Append(seq, x), y)
<1>1. PICK T : seq \in Seq(T)
  BY DEF IsSequence
<1> DEFINE S == T \cup {x, y}
<1>2. seq \in Seq(S) /\ x \in S /\ y \in S
  BY <1>1, SeqMonotonic, Zenon
<1> HIDE DEF S
<1>3. seq \o <<x>> = Append(seq, x)
  BY <1>2, AppendIsConcat
<1>4. Append(seq, x) \o <<y>> = Append(Append(seq, x), y)
  <2>1. Append(seq, x) \in Seq(S)
    BY <1>2, AppendProperties
  <2> QED
    BY <1>2, <2>1, AppendIsConcat
<1>5. (seq \o <<x>>) \o <<y>> = seq \o (<<x>> \o <<y>>)
  <2> DEFINE u == <<x>>
             v == <<y>>
  <2>1. u \in Seq(S) /\ v \in Seq(S)
    BY <1>2
  <2> HIDE DEF u, v
  <2>2. (seq \o u) \o v = seq \o (u \o v)
    BY <1>2, <2>1, ConcatAssociative
  <2> QED
    BY <2>2 DEF u, v
<1>6. <<x>> \o <<y>> = <<x, y>>
  <2>1. <<x>> \in Seq(S)
    BY <1>2
  <2>3. Append(<<x>>, y) = <<x, y>>
    <3> DEFINE one == <<x>>
               two == <<x, y>>
               both == Append(one, y)
    <3>1. one \in Seq(S) /\ Len(one) = 1 /\ one[1] = x
      BY <1>2
    <3>2. two \in Seq(S) /\ Len(two) = 2 /\ two[1] = x /\ two[2] = y
      BY <1>2
    <3> HIDE DEF one, two
    <3>3. IsSequence(one)
      BY <3>1, Zenon DEF IsSequence
    <3>6. /\ both \in Seq(S) /\ Len(both) = Len(one) + 1
          /\ \A i \in 1..Len(one) : both[i] = one[i]
          /\ both[Len(one) + 1] = y
      <4>1. both \in Seq(S)
        BY <1>2, <3>1, AppendProperties
      <4> QED
        BY <3>3, <4>1, AppendedIsSequence
    <3> HIDE DEF both
    <3>4. Len(both) = Len(two) /\ \A i \in 1..Len(both) : both[i] = two[i]
      BY <3>1, <3>2, <3>6
    <3>5. both = two
      BY <3>2, <3>6, <3>4, SeqEqual
    <3> QED
      BY <3>5 DEF both, one, two
  <2>2. Append(<<x>>, y) = <<x>> \o <<y>>
    BY <1>2, <2>1, AppendIsConcat, Zenon
  <2> QED
    BY <2>2, <2>3, Zenon
<1>7. seq \o <<>> = seq /\ <<>> \o seq = seq
  BY <1>2, ConcatEmptySeq, Zenon
<1> QED
  BY <1>3, <1>4, <1>5, <1>6, <1>7

\* A sequence, element by element.
LEMMA PrefixGrows ==
  ASSUME NEW seq, IsSequence(seq)
  PROVE  /\ SubSeq(seq, 1, 0) = <<>>
         /\ SubSeq(seq, 1, Len(seq)) = seq
         /\ \A n \in 0..Len(seq) : /\ IsSequence(SubSeq(seq, 1, n))
                                   /\ Len(SubSeq(seq, 1, n)) = n
                                   /\ \A i \in 1..n : SubSeq(seq, 1, n)[i] = seq[i]
         /\ \A n \in 0..(Len(seq) - 1) :
              SubSeq(seq, 1, n + 1) = Append(SubSeq(seq, 1, n), seq[n + 1])
<1>1. PICK S : seq \in Seq(S)
  BY DEF IsSequence
<1>2. Len(seq) \in Nat /\ \A i \in 1..Len(seq) : seq[i] \in S
  BY <1>1, LenProperties, ElementOfSeq
<1>3. ASSUME NEW n \in 0..Len(seq)
      PROVE  /\ SubSeq(seq, 1, n) \in Seq(S) /\ Len(SubSeq(seq, 1, n)) = n
             /\ \A i \in 1..n : SubSeq(seq, 1, n)[i] = seq[i]
  <2>1. \A i \in 1..n : seq[i] \in S
    BY <1>2
  <2> QED
    BY <1>2, <2>1, SubSeqProperties
<1>4. ASSUME NEW n \in 0..(Len(seq) - 1)
      PROVE  SubSeq(seq, 1, n + 1) = Append(SubSeq(seq, 1, n), seq[n + 1])
  <2> DEFINE a == SubSeq(seq, 1, n + 1)
             b == SubSeq(seq, 1, n)
             c == Append(b, seq[n + 1])
  <2>1. n + 1 \in 0..Len(seq) /\ n \in 0..Len(seq) /\ n + 1 \in 1..Len(seq) /\ n \in Nat
    BY <1>2
  <2>2. /\ a \in Seq(S) /\ Len(a) = n + 1 /\ \A i \in 1..(n + 1) : a[i] = seq[i]
        /\ b \in Seq(S) /\ Len(b) = n /\ \A i \in 1..n : b[i] = seq[i]
    BY <1>3, <2>1
  <2> HIDE DEF a, b
  <2>3. /\ c \in Seq(S) /\ Len(c) = n + 1 /\ \A i \in 1..(n + 1) : c[i] = seq[i]
    BY <1>2, <2>1, <2>2, AppendProperties
  <2> HIDE DEF c
  <2>4. a = c
    BY <2>1, <2>2, <2>3, SeqEqual
  <2> QED
    BY <2>4 DEF a, b, c
<1>5. SubSeq(seq, 1, Len(seq)) = seq
  <2> DEFINE a == SubSeq(seq, 1, Len(seq))
  <2>1. a \in Seq(S) /\ Len(a) = Len(seq) /\ \A i \in 1..Len(seq) : a[i] = seq[i]
    BY <1>2, <1>3
  <2> HIDE DEF a
  <2>2. a = seq
    BY <1>1, <2>1, SeqEqual
  <2> QED
    BY <2>2 DEF a
<1>6. SubSeq(seq, 1, 0) = <<>>
  BY SubSeqEmpty
<1>7. \A n \in 0..Len(seq) : /\ IsSequence(SubSeq(seq, 1, n))
                             /\ Len(SubSeq(seq, 1, n)) = n
                             /\ \A i \in 1..n : SubSeq(seq, 1, n)[i] = seq[i]
  BY <1>3, Zenon DEF IsSequence
<1> QED
  BY <1>4, <1>5, <1>6, <1>7, Zenon

\* A function that is defined on one number more.
Spans(f, n) == f = [i \in 1..n |-> f[i]]

LEMMA SpanIsSequence ==
  ASSUME NEW n \in Nat, NEW f, Spans(f, n), NEW S, \A i \in 1..n : f[i] \in S
  PROVE  f \in Seq(S) /\ Len(f) = n
<1>1. [i \in 1..n |-> f[i]] \in Seq(S) /\ Len([i \in 1..n |-> f[i]]) = n
  OBVIOUS
<1> QED
  BY <1>1, Zenon DEF Spans

LEMMA AppendedFunction ==
  ASSUME NEW n \in Nat, NEW f, Spans(f, n + 1), NEW g, Spans(g, n),
         \A i \in 1..n : f[i] = g[i]
  PROVE  IsSequence(g) /\ Len(g) = n /\ f = Append(g, f[n + 1])
<1> DEFINE S == {f[i] : i \in 1..(n + 1)}
           h == Append(g, f[n + 1])
<1>1. f[n + 1] \in S /\ \A i \in 1..(n + 1) : f[i] \in S
  OBVIOUS
<1> HIDE DEF S
<1>2. f \in Seq(S) /\ Len(f) = n + 1
  BY <1>1, SpanIsSequence
<1>3. g \in Seq(S) /\ Len(g) = n
  BY <1>1, SpanIsSequence
<1>4. /\ h \in Seq(S) /\ Len(h) = Len(g) + 1
      /\ \A i \in 1..Len(g) : h[i] = g[i]
      /\ h[Len(g) + 1] = f[n + 1]
  BY <1>1, <1>3, AppendProperties
<1> HIDE DEF h
<1>5. \A i \in 1..(n + 1) : f[i] = h[i]
  BY <1>3, <1>4
<1>6. f = h
  BY <1>2, <1>3, <1>4, <1>5, SeqEqual
<1> QED
  BY <1>3, <1>6 DEF h, IsSequence

\* What is joined is a sequence, and so is what is put at its end.
LEMMA JoinedIsSequence ==
  ASSUME NEW a, NEW b, IsSequence(a), IsSequence(b), NEW x
  PROVE  IsSequence(a \o b) /\ a \o Append(b, x) = Append(a \o b, x)
<1>1. PICK S : a \in Seq(S)
  BY DEF IsSequence
<1>2. PICK T : b \in Seq(T)
  BY DEF IsSequence
<1> DEFINE all == (S \cup T) \cup {x}
<1>3. a \in Seq(all) /\ b \in Seq(all) /\ x \in all
  BY <1>1, <1>2, SeqMonotonic, Zenon
<1> HIDE DEF all
<1> DEFINE one == <<x>>
<1>4. one \in Seq(all)
  BY <1>3
<1> HIDE DEF one
<1>5. a \o b \in Seq(all)
  BY <1>3, ConcatProperties
<1>6. Append(b, x) = b \o one /\ Append(a \o b, x) = (a \o b) \o one
  BY <1>3, <1>5, AppendIsConcat, Zenon DEF one
<1>7. (a \o b) \o one = a \o (b \o one)
  BY <1>3, <1>4, ConcatAssociative
<1> QED
  BY <1>5, <1>6, <1>7, Zenon DEF IsSequence

LEMMA JoinIsAssociative ==
  ASSUME NEW a, NEW b, NEW c, IsSequence(a), IsSequence(b), IsSequence(c)
  PROVE  (a \o b) \o c = a \o (b \o c)
<1>1. PICK S : a \in Seq(S)
  BY DEF IsSequence
<1>2. PICK T : b \in Seq(T)
  BY DEF IsSequence
<1>3. PICK U : c \in Seq(U)
  BY DEF IsSequence
<1> DEFINE all == (S \cup T) \cup U
<1>4. a \in Seq(all) /\ b \in Seq(all) /\ c \in Seq(all)
  BY <1>1, <1>2, <1>3, SeqMonotonic, Zenon
<1> HIDE DEF all
<1> QED
  BY <1>4, ConcatAssociative

\* Some sequences of one set, one after the other.
LEMMA ConcatIsSeq ==
  ASSUME NEW S, NEW seqs \in Seq(Seq(S))
  PROVE  Concat(seqs) \in Seq(S)
<1> DEFINE Typed(n) == Concat(SubSeq(seqs, 1, n)) \in Seq(S)
           reached == {n \in Nat : n <= Len(seqs) => Typed(n)}
<1>1. /\ IsSequence(seqs) /\ Len(seqs) \in Nat
      /\ \A n \in 1..Len(seqs) : seqs[n] \in Seq(S)
  <2>1. IsSequence(seqs)
    BY Zenon DEF IsSequence
  <2> QED
    BY <2>1, LenProperties, ElementOfSeq
<1>2. Typed(0)
  <2>1. Concat(SubSeq(seqs, 1, 0)) = <<>>
    BY <1>1, PrefixGrows, ConcatGoesOn, Zenon
  <2> QED
    BY <2>1, EmptySeq, Zenon
<1>3. ASSUME NEW n \in Nat, n + 1 <= Len(seqs), Typed(n) PROVE Typed(n + 1)
  <2>1. /\ n \in 0..(Len(seqs) - 1) /\ n \in 0..Len(seqs) /\ n + 1 \in 1..Len(seqs)
    BY <1>1, <1>3
  <2>2. /\ SubSeq(seqs, 1, n + 1) = Append(SubSeq(seqs, 1, n), seqs[n + 1])
        /\ IsSequence(SubSeq(seqs, 1, n))
    BY <1>1, <2>1, PrefixGrows
  <2>3. Concat(SubSeq(seqs, 1, n + 1)) = Concat(SubSeq(seqs, 1, n)) \o seqs[n + 1]
    BY <2>2, ConcatGoesOn, Zenon
  <2> QED
    BY <1>1, <1>3, <2>1, <2>3, ConcatProperties
<1> HIDE DEF Typed
<1>4. 0 \in reached
  BY <1>2
<1>5. ASSUME NEW n \in reached PROVE n + 1 \in reached
  BY <1>1, <1>3, <1>5
<1> HIDE DEF reached
<1>6. reached = Nat
  BY <1>4, <1>5, CountedThrough DEF reached
<1>7. Typed(Len(seqs))
  BY <1>1, <1>6 DEF reached
<1> QED
  BY <1>1, <1>7, PrefixGrows DEF Typed

-----------------------------------------------------------------------------
(* Values of a line: what is written is read. *)

Escaped(char) == IF char \in {Backslash, Quote} THEN <<Backslash, char>> ELSE <<char>>

LEMMA EscapeGrows ==
  /\ Escape(<<>>) = <<>>
  /\ \A text, char : IsSequence(text) =>
       Escape(Append(text, char)) = Escape(text) \o Escaped(char)
<1> DEFINE Parts(text) == [i \in DOMAIN text |-> Escaped(text[i])]
<1>1. \A text : Escape(text) = Concat(Parts(text))
  BY Zenon DEF Escape, Escaped
<1>2. Escape(<<>>) = <<>>
  <2>1. Parts(<<>>) = <<>>
    OBVIOUS
  <2> QED
    BY <1>1, <2>1, ConcatGoesOn, Zenon
<1>3. ASSUME NEW text, NEW char, IsSequence(text)
      PROVE  Escape(Append(text, char)) = Escape(text) \o Escaped(char)
  <2> DEFINE longer == Append(text, char)
             n == Len(text)
             f == Parts(longer)
             g == Parts(text)
  <2>1. /\ n \in Nat /\ DOMAIN text = 1..n /\ DOMAIN longer = 1..(n + 1)
        /\ longer[n + 1] = char /\ \A i \in 1..n : longer[i] = text[i]
    <3>1. IsSequence(longer)
      BY <1>3, AppendedIsSequence
    <3>2. DOMAIN longer = 1..Len(longer)
      BY <3>1, LenProperties DEF IsSequence
    <3> QED
      BY <1>3, <3>2, AppendedIsSequence
  <2> HIDE DEF longer, n
  <2>2. Spans(f, n + 1) /\ Spans(g, n) /\ f[n + 1] = Escaped(char)
        /\ \A i \in 1..n : f[i] = g[i]
    BY <2>1 DEF Spans
  <2> HIDE DEF f, g
  <2>3. IsSequence(g) /\ f = Append(g, Escaped(char))
    BY <2>1, <2>2, AppendedFunction
  <2>4. Concat(f) = Concat(g) \o Escaped(char)
    BY <2>3, ConcatGoesOn, Zenon
  <2> QED
    BY <1>1, <2>4, Zenon DEF f, g, longer
<1> QED
  BY <1>2, <1>3, Zenon

\* A text that is unescaped is one of its characters.
LEMMA UnquotedIsSequence ==
  ASSUME NEW S, NEW text \in Seq(S)
  PROVE  UnescapeQuotes(text) \in Seq(S)
<1> DEFINE Part(i) == IF text[i] = Backslash /\ i < Len(text) /\ text[i + 1] = Quote
                      THEN <<>> ELSE <<text[i]>>
           parts == [i \in DOMAIN text |-> Part(i)]
<1>1. Len(text) \in Nat /\ DOMAIN text = 1..Len(text) /\ \A i \in 1..Len(text) : text[i] \in S
  BY LenProperties, ElementOfSeq
<1>2. \A i \in 1..Len(text) : Part(i) \in Seq(S)
  <2>1. \A i \in 1..Len(text) : <<text[i]>> \in Seq(S) /\ <<>> \in Seq(S)
    BY <1>1
  <2> QED
    BY <2>1, Zenon
<1> HIDE DEF Part
<1>3. parts \in Seq(Seq(S))
  <2>1. Spans(parts, Len(text)) /\ \A i \in 1..Len(text) : parts[i] \in Seq(S)
    BY <1>1, <1>2 DEF Spans
  <2> HIDE DEF parts
  <2> QED
    BY <1>1, <2>1, SpanIsSequence
<1>4. Concat(parts) \in Seq(S)
  BY <1>3, ConcatIsSeq, Zenon
<1> QED
  BY <1>4, Zenon DEF UnescapeQuotes, Part

\* A backslash goes when a quote comes behind it, whatever comes before.
LEMMA UnquotedGrows ==
  /\ UnescapeQuotes(<<>>) = <<>>
  /\ \A text, char : IsSequence(text) /\ char # Quote =>
       UnescapeQuotes(Append(text, char)) = Append(UnescapeQuotes(text), char)
  /\ \A text : IsSequence(text) =>
       UnescapeQuotes(Append(Append(text, Backslash), Quote)) =
         Append(UnescapeQuotes(text), Quote)
<1> DEFINE Part(text, i) == IF text[i] = Backslash /\ i < Len(text) /\ text[i + 1] = Quote
                            THEN <<>> ELSE <<text[i]>>
           Parts(text) == [i \in DOMAIN text |-> Part(text, i)]
<1>1. \A text : UnescapeQuotes(text) = Concat(Parts(text))
  BY Zenon DEF UnescapeQuotes
<1>2. UnescapeQuotes(<<>>) = <<>>
  <2>1. Parts(<<>>) = <<>>
    OBVIOUS
  <2> QED
    BY <1>1, <2>1, ConcatGoesOn, Zenon
<1>3. ASSUME NEW text, NEW char, IsSequence(text), char # Quote
      PROVE  UnescapeQuotes(Append(text, char)) = Append(UnescapeQuotes(text), char)
  <2> DEFINE longer == Append(text, char)
             n == Len(text)
             f == Parts(longer)
             g == Parts(text)
  <2>1. /\ n \in Nat /\ DOMAIN text = 1..n /\ DOMAIN longer = 1..(n + 1) /\ Len(longer) = n + 1
        /\ longer[n + 1] = char /\ \A i \in 1..n : longer[i] = text[i]
    <3>1. IsSequence(longer)
      BY <1>3, AppendedIsSequence
    <3>2. DOMAIN longer = 1..Len(longer)
      BY <3>1, LenProperties DEF IsSequence
    <3> QED
      BY <1>3, <3>2, AppendedIsSequence
  <2> HIDE DEF longer
  <2>2. Spans(f, n + 1) /\ Spans(g, n) /\ f[n + 1] = <<char>>
        /\ \A i \in 1..n : f[i] = g[i]
    BY <1>3, <2>1 DEF Spans
  <2> HIDE DEF f, g, n
  <2>3. IsSequence(g) /\ f = Append(g, <<char>>)
    BY <2>1, <2>2, AppendedFunction
  <2>4. Concat(f) = Concat(g) \o <<char>>
    BY <2>3, ConcatGoesOn, Zenon
  <2>5. IsSequence(UnescapeQuotes(text))
    BY <1>3, UnquotedIsSequence, Zenon DEF IsSequence
  <2>6. UnescapeQuotes(text) \o <<char>> = Append(UnescapeQuotes(text), char)
    BY <2>5, EndIsAppended
  <2> QED
    BY <1>1, <2>4, <2>6, Zenon DEF f, g, longer
<1>4. ASSUME NEW text, IsSequence(text)
      PROVE  UnescapeQuotes(Append(Append(text, Backslash), Quote)) =
               Append(UnescapeQuotes(text), Quote)
  <2> DEFINE middle == Append(text, Backslash)
             longer == Append(middle, Quote)
             n == Len(text)
             f == Parts(longer)
             g == Parts(text)
             h == [i \in 1..(n + 1) |-> IF i <= n THEN g[i] ELSE <<>>]
  <2>1. /\ n \in Nat /\ DOMAIN text = 1..n /\ DOMAIN longer = 1..(n + 2) /\ Len(longer) = n + 2
        /\ longer[n + 2] = Quote /\ longer[n + 1] = Backslash
        /\ \A i \in 1..n : longer[i] = text[i]
    <3>1. /\ IsSequence(middle) /\ n \in Nat /\ DOMAIN text = 1..n /\ Len(middle) = n + 1
          /\ middle[n + 1] = Backslash /\ \A i \in 1..n : middle[i] = text[i]
      BY <1>4, AppendedIsSequence
    <3> HIDE DEF middle, n
    <3>2. /\ IsSequence(longer) /\ Len(longer) = (n + 1) + 1
          /\ longer[(n + 1) + 1] = Quote /\ \A i \in 1..(n + 1) : longer[i] = middle[i]
      BY <3>1, AppendedIsSequence
    <3> HIDE DEF longer
    <3>3. DOMAIN longer = 1..Len(longer)
      BY <3>2, LenProperties DEF IsSequence
    <3> QED
      BY <3>1, <3>2, <3>3
  <2> HIDE DEF middle, longer
  <2>2. Backslash # Quote
    BY DEF Backslash, Quote
  <2>3. /\ Spans(f, (n + 1) + 1) /\ Spans(g, n) /\ Spans(h, n + 1)
        /\ f[(n + 1) + 1] = <<Quote>> /\ h[n + 1] = <<>>
        /\ \A i \in 1..(n + 1) : f[i] = h[i]
        /\ \A i \in 1..n : h[i] = g[i]
    BY <2>1, <2>2 DEF Spans
  <2> HIDE DEF f, g, h, n
  <2>4. IsSequence(g) /\ h = Append(g, <<>>)
    <3>1. n \in Nat /\ Spans(h, n + 1) /\ Spans(g, n) /\ h[n + 1] = <<>>
          /\ \A i \in 1..n : h[i] = g[i]
      BY <2>1, <2>3
    <3>2. IsSequence(g) /\ h = Append(g, h[n + 1])
      BY <3>1, AppendedFunction, Zenon
    <3> QED
      BY <3>1, <3>2
  <2>5. IsSequence(h) /\ f = Append(h, <<Quote>>)
    <3>1. n + 1 \in Nat
      BY <2>1
    <3> QED
      BY <2>3, <3>1, AppendedFunction
  <2>6. Concat(f) = (Concat(g) \o <<>>) \o <<Quote>>
    <3>1. Concat(h) = Concat(g) \o <<>>
      BY <2>4, ConcatGoesOn, Zenon
    <3> QED
      BY <2>5, <3>1, ConcatGoesOn, Zenon
  <2>7. IsSequence(UnescapeQuotes(text))
    BY <1>4, UnquotedIsSequence, Zenon DEF IsSequence
  <2>8. (UnescapeQuotes(text) \o <<>>) \o <<Quote>> = Append(UnescapeQuotes(text), Quote)
    BY <2>7, EndIsAppended
  <2> QED
    BY <1>1, <2>6, <2>8, Zenon DEF f, g, longer, middle
<1> QED
  BY <1>2, <1>3, <1>4, Zenon

LEMMA TakenIsSequence ==
  ASSUME NEW S, NEW text \in Seq(S)
  PROVE  Taken(text).text \in Seq(S)
<1> DEFINE Typed(n) == Taken(SubSeq(text, 1, n)).text \in Seq(S)
           reached == {n \in Nat : n <= Len(text) => Typed(n)}
<1>1. /\ IsSequence(text) /\ Len(text) \in Nat
      /\ \A n \in 1..Len(text) : text[n] \in S
  <2>1. IsSequence(text)
    BY Zenon DEF IsSequence
  <2> QED
    BY <2>1, LenProperties, ElementOfSeq
<1>2. Typed(0)
  <2>1. Taken(SubSeq(text, 1, 0)) = NothingTaken
    BY <1>1, PrefixGrows, TakenGoesOn, Zenon
  <2>2. NothingTaken.text = <<>>
    BY DEF NothingTaken
  <2> QED
    BY <2>1, <2>2, EmptySeq, Zenon
<1>3. ASSUME NEW n \in Nat, n + 1 <= Len(text), Typed(n) PROVE Typed(n + 1)
  <2>1. /\ n \in 0..(Len(text) - 1) /\ n \in 0..Len(text) /\ n + 1 \in 1..Len(text)
    BY <1>1, <1>3
  <2>2. /\ SubSeq(text, 1, n + 1) = Append(SubSeq(text, 1, n), text[n + 1])
        /\ IsSequence(SubSeq(text, 1, n))
    BY <1>1, <2>1, PrefixGrows
  <2> DEFINE read == Taken(SubSeq(text, 1, n))
  <2>3. Taken(SubSeq(text, 1, n + 1)) = Take(read, text[n + 1])
    BY <2>2, TakenGoesOn, Zenon
  <2> HIDE DEF read
  <2>4. Take(read, text[n + 1]).text \in {read.text, Append(read.text, text[n + 1])}
    BY DEF Take
  <2>5. Append(read.text, text[n + 1]) \in Seq(S)
    BY <1>1, <1>3, <2>1, AppendProperties DEF read
  <2> QED
    BY <1>3, <2>3, <2>4, <2>5 DEF read
<1> HIDE DEF Typed
<1>4. 0 \in reached
  BY <1>2
<1>5. ASSUME NEW n \in reached PROVE n + 1 \in reached
  BY <1>1, <1>3, <1>5
<1> HIDE DEF reached
<1>6. reached = Nat
  BY <1>4, <1>5, CountedThrough DEF reached
<1>7. Typed(Len(text))
  BY <1>1, <1>6 DEF reached
<1> QED
  BY <1>1, <1>7, PrefixGrows DEF Typed

\* The types of what is written and read.
LEMMA EscapeIsSequence ==
  ASSUME NEW text, IsSequence(text)
  PROVE  /\ IsSequence(Escape(text))
         /\ ToSet(Escape(text)) \subseteq ToSet(text) \cup {Backslash}
<1> DEFINE S == ToSet(text) \cup {Backslash}
           parts == [i \in DOMAIN text |-> Escaped(text[i])]
<1>1. Len(text) \in Nat /\ DOMAIN text = 1..Len(text) /\ \A i \in 1..Len(text) : text[i] \in S
  BY LenProperties DEF IsSequence, ToSet
<1>2. \A i \in 1..Len(text) : Escaped(text[i]) \in Seq(S)
  <2>1. Backslash \in S
    OBVIOUS
  <2> HIDE DEF S
  <2>2. \A i \in 1..Len(text) : <<text[i]>> \in Seq(S) /\ <<Backslash, text[i]>> \in Seq(S)
    BY <1>1, <2>1
  <2> QED
    BY <2>2, Zenon DEF Escaped
<1> HIDE DEF S
<1>3. parts \in Seq(Seq(S))
  <2>1. Spans(parts, Len(text)) /\ \A i \in 1..Len(text) : parts[i] \in Seq(S)
    BY <1>1, <1>2 DEF Spans
  <2> HIDE DEF parts
  <2> QED
    BY <1>1, <2>1, SpanIsSequence
<1>4. Escape(text) \in Seq(S)
  BY <1>3, ConcatIsSeq, Zenon DEF Escape, Escaped
<1>5. IsSequence(Escape(text))
  BY <1>4, Zenon DEF IsSequence
<1>6. ToSet(Escape(text)) \subseteq S
  BY <1>4, LenProperties, ElementOfSeq DEF ToSet
<1> QED
  BY <1>5, <1>6 DEF S

LEMMA UnescapeIsSequence ==
  ASSUME NEW S, NEW text \in Seq(S)
  PROVE  Unescape(text) \in Seq(S)
BY UnquotedIsSequence, TakenIsSequence, Zenon
   DEF Unescape, UnescapeBackslashes, Taken, NothingTaken

\* Reading a text undoes its writing, backslashes, quotes and all (escape_string,
\* unescape_string).
LEMMA UnescapeUndoesEscape ==
  ASSUME NEW text, IsSequence(text)
  PROVE  Unescape(Escape(text)) = text
<1> DEFINE head(n) == SubSeq(text, 1, n)
           Back(n) == Taken(UnescapeQuotes(Escape(head(n)))) = [text |-> head(n), pair |-> FALSE]
           reached == {n \in Nat : n <= Len(text) => Back(n)}
<1>1. Len(text) \in Nat
  BY AppendedIsSequence
<1>2. Back(0)
  BY PrefixGrows, EscapeGrows, UnquotedGrows, TakenGoesOn, Zenon DEF NothingTaken
<1>3. ASSUME NEW n \in Nat, n + 1 <= Len(text), Back(n) PROVE Back(n + 1)
  <2> DEFINE char == text[n + 1]
             escaped == Escape(head(n))
             unquoted == UnescapeQuotes(escaped)
             read == Taken(unquoted)
  <2>1. n \in 0..(Len(text) - 1) /\ n \in 0..Len(text)
    BY <1>1, <1>3
  <2>2. head(n + 1) = Append(head(n), char) /\ IsSequence(head(n))
    BY <2>1, PrefixGrows
  <2>3. read = [text |-> head(n), pair |-> FALSE]
    BY <1>3
  <2>4. Escape(head(n + 1)) = escaped \o Escaped(char)
    BY <2>2, EscapeGrows, Zenon
  <2> HIDE DEF char, head
  <2>5. IsSequence(escaped)
    BY <2>2, EscapeIsSequence
  <2> HIDE DEF escaped
  <2>6. IsSequence(unquoted)
    BY <2>5, UnquotedIsSequence, Zenon DEF IsSequence
  <2>7. Backslash # Quote
    BY DEF Backslash, Quote
  <2>8. CASE char = Backslash
    <3>1. Escape(head(n + 1)) = Append(Append(escaped, Backslash), Backslash)
      BY <2>4, <2>5, <2>8, EndIsAppended DEF Escaped
    <3>2. IsSequence(Append(escaped, Backslash))
      BY <2>5, AppendedIsSequence
    <3>3. UnescapeQuotes(Append(escaped, Backslash)) = Append(unquoted, Backslash)
      BY <2>5, <2>7, UnquotedGrows, Zenon
    <3>4. UnescapeQuotes(Escape(head(n + 1))) = Append(Append(unquoted, Backslash), Backslash)
      BY <2>7, <3>1, <3>2, <3>3, UnquotedGrows, Zenon
    <3> HIDE DEF unquoted
    <3>5. IsSequence(Append(unquoted, Backslash))
      BY <2>6, AppendedIsSequence
    <3>6. Taken(UnescapeQuotes(Escape(head(n + 1)))) = Take(Take(read, Backslash), Backslash)
      <4>1. Taken(Append(unquoted, Backslash)) = Take(read, Backslash)
        BY <2>6, TakenGoesOn, Zenon
      <4> QED
        BY <3>4, <3>5, <4>1, TakenGoesOn, Zenon
    <3> HIDE DEF read
    <3>7. Take(Take(read, Backslash), Backslash) =
            [text |-> Append(head(n), char), pair |-> FALSE]
      BY <2>3, <2>8 DEF Take
    <3> QED
      BY <2>2, <3>6, <3>7, Zenon
  <2>9. CASE char = Quote
    <3>1. Escape(head(n + 1)) = Append(Append(escaped, Backslash), Quote)
      BY <2>4, <2>5, <2>9, EndIsAppended DEF Escaped
    <3>2. UnescapeQuotes(Escape(head(n + 1))) = Append(unquoted, Quote)
      BY <2>5, <3>1, UnquotedGrows, Zenon
    <3> HIDE DEF unquoted
    <3>3. Taken(UnescapeQuotes(Escape(head(n + 1)))) = Take(read, Quote)
      BY <2>6, <3>2, TakenGoesOn, Zenon
    <3> HIDE DEF read
    <3>4. Take(read, Quote) = [text |-> Append(head(n), char), pair |-> FALSE]
      BY <2>3, <2>7, <2>9 DEF Take
    <3> QED
      BY <2>2, <3>3, <3>4, Zenon
  <2>10. CASE char \notin {Backslash, Quote}
    <3>1. Escape(head(n + 1)) = Append(escaped, char)
      BY <2>4, <2>5, <2>10, EndIsAppended DEF Escaped
    <3>2. UnescapeQuotes(Escape(head(n + 1))) = Append(unquoted, char)
      BY <2>5, <2>10, <3>1, UnquotedGrows, Zenon
    <3> HIDE DEF unquoted
    <3>3. Taken(UnescapeQuotes(Escape(head(n + 1)))) = Take(read, char)
      BY <2>6, <3>2, TakenGoesOn, Zenon
    <3> HIDE DEF read
    <3>4. Take(read, char) = [text |-> Append(head(n), char), pair |-> FALSE]
      BY <2>3, <2>10 DEF Take
    <3> QED
      BY <2>2, <3>3, <3>4, Zenon
  <2> QED
    BY <2>8, <2>9, <2>10
<1> HIDE DEF Back
<1>4. 0 \in reached
  BY <1>2
<1>5. ASSUME NEW n \in reached PROVE n + 1 \in reached
  BY <1>1, <1>3, <1>5
<1> HIDE DEF reached
<1>6. reached = Nat
  BY <1>4, <1>5, CountedThrough DEF reached
<1>7. Back(Len(text))
  BY <1>1, <1>6 DEF reached
<1>8. Taken(UnescapeQuotes(Escape(text))) = [text |-> text, pair |-> FALSE]
  BY <1>7, PrefixGrows DEF Back
<1> QED
  BY <1>8 DEF Unescape, UnescapeBackslashes, Taken, NothingTaken

\* A line without a comment is read whole; what is read of any line has no #.
LEMMA NothingToCut == \A value : Hash \notin ToSet(value) => Uncommented(value) = value
BY DEF Uncommented

LEMMA CutHasNoHash ==
  ASSUME NEW S, NEW value \in Seq(S)
  PROVE  Uncommented(value) \in Seq(S) /\ Hash \notin ToSet(Uncommented(value))
<1>1. CASE Hash \notin ToSet(value)
  BY <1>1 DEF Uncommented
<1>2. CASE Hash \in ToSet(value)
  <2> DEFINE hashes == {i \in 1..Len(value) : value[i] = Hash}
             first == First(hashes)
             cut == SubSeq(value, 1, first - 1)
  <2>1. Len(value) \in Nat /\ DOMAIN value = 1..Len(value) /\ \A i \in 1..Len(value) : value[i] \in S
    BY LenProperties, ElementOfSeq
  <2>2. hashes # {} /\ hashes \in SUBSET Nat
    BY <1>2, <2>1 DEF ToSet
  <2>3. first \in hashes /\ \A j \in hashes : first <= j
    BY <2>2, FirstOfSome
  <2>4. Uncommented(value) = cut
    <3>1. SelectInSeq(value, LAMBDA char : char = Hash) = first
      BY <2>2 DEF SelectInSeq, Min, First
    <3> QED
      BY <1>2, <3>1 DEF Uncommented
  <2> HIDE DEF first
  <2>5. first \in 1..Len(value)
    BY <2>3
  <2>6. /\ cut \in Seq(S) /\ Len(cut) = first - 1
        /\ \A i \in 1..(first - 1) : cut[i] = value[i]
    <3>1. \A i \in 1..(first - 1) : value[i] \in S
      BY <2>1, <2>5
    <3> QED
      BY <2>5, <3>1, SubSeqProperties
  <2> HIDE DEF cut
  <2>7. \A i \in 1..(first - 1) : cut[i] # Hash
    <3> SUFFICES ASSUME NEW i \in 1..(first - 1), cut[i] = Hash PROVE FALSE
      OBVIOUS
    <3>1. i \in hashes
      BY <2>1, <2>5, <2>6
    <3> QED
      BY <2>1, <2>3, <2>5, <3>1
  <2>8. DOMAIN cut = 1..(first - 1)
    BY <2>6, LenProperties
  <2>9. Hash \notin ToSet(cut)
    BY <2>7, <2>8 DEF ToSet
  <2> QED
    BY <2>4, <2>6, <2>9
<1> QED
  BY <1>1, <1>2

\* What stands between the quotes.
LEMMA BetweenQuotes ==
  ASSUME NEW text, IsSequence(text)
  PROVE  /\ IsText(Quoted(text)) /\ TextOf(Quoted(text)) = text
         /\ IsSequence(Quoted(text))
         /\ ToSet(Quoted(text)) \subseteq ToSet(text) \cup {Backslash, Quote}
<1> DEFINE inner == Escape(text)
           front == <<Quote>> \o inner
           value == Quoted(text)
           S == ToSet(text) \cup {Backslash, Quote}
           between == SubSeq(value, 2, Len(value) - 1)
<1>1. inner \in Seq(S)
  <2>1. IsSequence(inner) /\ ToSet(inner) \subseteq S
    BY EscapeIsSequence
  <2>2. inner \in Seq(ToSet(inner))
    BY <2>1, StringsAreSequences, Zenon DEF IsString
  <2> HIDE DEF inner, S
  <2> QED
    BY <2>1, <2>2, SeqMonotonic, Zenon
<1>2. Quote \in S
  OBVIOUS
<1> HIDE DEF inner, S
<1> DEFINE one == <<Quote>>
<1>3. one \in Seq(S) /\ Len(one) = 1 /\ one[1] = Quote
  BY <1>2
<1>4. value = (one \o inner) \o one
  BY DEF Quoted, inner
<1> HIDE DEF one, value
<1>5. Len(inner) \in Nat
  BY <1>1, LenProperties
<1>6. /\ one \o inner \in Seq(S) /\ Len(one \o inner) = Len(inner) + 1
      /\ (one \o inner)[1] = Quote
      /\ \A i \in 1..Len(inner) : (one \o inner)[i + 1] = inner[i]
  <2>1. /\ one \o inner \in Seq(S) /\ Len(one \o inner) = Len(one) + Len(inner)
        /\ \A i \in 1..(Len(one) + Len(inner)) :
             (one \o inner)[i] = IF i <= Len(one) THEN one[i] ELSE inner[i - Len(one)]
    BY <1>1, <1>3, ConcatProperties
  <2> QED
    BY <1>3, <1>5, <2>1
<1> HIDE DEF front
<1> DEFINE start == one \o inner
<1> HIDE DEF start
<1>7. /\ value \in Seq(S) /\ Len(value) = Len(inner) + 2
      /\ value[1] = Quote /\ value[Len(inner) + 2] = Quote
      /\ \A i \in 1..Len(inner) : value[i + 1] = inner[i]
  <2>1. /\ start \in Seq(S) /\ Len(start) = Len(inner) + 1
        /\ start[1] = Quote
        /\ \A i \in 1..Len(inner) : start[i + 1] = inner[i]
    BY <1>6 DEF start
  <2>2. /\ start \o one \in Seq(S) /\ Len(start \o one) = Len(start) + Len(one)
        /\ \A i \in 1..(Len(start) + Len(one)) :
             (start \o one)[i] = IF i <= Len(start) THEN start[i] ELSE one[i - Len(start)]
    BY <1>3, <2>1, ConcatProperties
  <2>3. value = start \o one
    BY <1>4 DEF start
  <2> QED
    BY <1>3, <1>5, <2>1, <2>2, <2>3
<1>8. IsText(value)
  BY <1>5, <1>7 DEF IsText, Last
<1>9. between = inner
  <2>1. \A i \in 2..(Len(value) - 1) : value[i] \in S
    BY <1>7, ElementOfSeq
  <2>2. /\ between \in Seq(S) /\ Len(between) = Len(inner)
        /\ \A i \in 1..Len(inner) : between[i] = value[2 + i - 1]
    BY <1>5, <1>7, <2>1, SubSeqProperties
  <2> HIDE DEF between
  <2>3. \A i \in 1..Len(inner) : between[i] = inner[i]
    BY <1>5, <1>7, <2>2
  <2> QED
    BY <1>1, <2>2, <2>3, SeqEqual
<1>10. TextOf(value) = text
  BY <1>9, UnescapeUndoesEscape, Zenon DEF TextOf, inner
<1>11. ToSet(value) \subseteq S
  BY <1>7, LenProperties, ElementOfSeq DEF ToSet
<1>12. IsSequence(value)
  BY <1>7, Zenon DEF IsSequence
<1> QED
  BY <1>8, <1>10, <1>11, <1>12, Zenon DEF value, S

\* A text, a flag and a numeral are read as they were written.
LEMMA TextIsRead ==
  ASSUME NEW text, IsSequence(text), Hash \notin ToSet(text)
  PROVE  /\ Reads("text", Uncommented(Quoted(text)))
         /\ ValueOf("text", Uncommented(Quoted(text))) = text
<1> DEFINE value == Quoted(text)
<1>1. Hash \notin {Backslash, Quote}
  BY DEF Hash, Backslash, Quote
<1>2. IsText(value) /\ TextOf(value) = text /\ Hash \notin ToSet(value)
  BY <1>1, BetweenQuotes
<1>3. Uncommented(value) = value
  BY <1>2, NothingToCut
<1> HIDE DEF value
<1>4. Reads("text", value) <=> IsText(value)
  BY DEF Reads
<1>5. ValueOf("text", value) = TextOf(value)
  BY DEF ValueOf
<1> QED
  BY <1>2, <1>3, <1>4, <1>5, Zenon DEF value

LEMMA FlagIsRead ==
  ASSUME NEW b \in BOOLEAN
  PROVE  /\ Reads("flag", Uncommented(<<Flag(b)>>))
         /\ ValueOf("flag", Uncommented(<<Flag(b)>>)) = b
         /\ IsFlag(Uncommented(<<Flag(b)>>)) /\ FlagOf(Uncommented(<<Flag(b)>>)) = b
<1> DEFINE value == <<Flag(b)>>
<1>1. Hash \notin ToSet(value)
  BY DEF ToSet, Flag, Hash
<1>2. Uncommented(value) = value
  BY <1>1, NothingToCut
<1>3. IsFlag(value) /\ FlagOf(value) = b
  BY DEF IsFlag, FlagOf, Flag
<1> HIDE DEF value
<1>4. (Reads("flag", value) <=> IsFlag(value)) /\ ValueOf("flag", value) = FlagOf(value)
  BY DEF Reads, ValueOf
<1> QED
  BY <1>2, <1>3, <1>4, Zenon DEF value

LEMMA NumberIsRead ==
  ASSUME NEW n \in Written
  PROVE  /\ Uncommented(<<NumeralOf(n)>>) = <<NumeralOf(n)>>
         /\ IsNumber(<<NumeralOf(n)>>) /\ NumberOf[NumeralOf(n)] = n
         /\ Reads("number", <<NumeralOf(n)>>) /\ ValueOf("number", <<NumeralOf(n)>>) = n
         /\ n <= MaxPort => Reads("port", <<NumeralOf(n)>>)
         /\ ValueOf("port", <<NumeralOf(n)>>) = n
         /\ Reads("budget", <<NumeralOf(n)>>) /\ ValueOf("budget", <<NumeralOf(n)>>) = {n}
<1> DEFINE numeral == NumeralOf(n)
           value == <<numeral>>
<1>1. numeral \in DOMAIN NumberOf /\ NumberOf[numeral] = n
  BY NumeralsAreRead DEF Written
<1> HIDE DEF numeral
<1>2. numeral # Hash /\ numeral # "none"
  BY <1>1, NumeralAssumption
<1>3. Hash \notin ToSet(value)
  BY <1>2 DEF ToSet
<1>4. Uncommented(value) = value
  BY <1>3, NothingToCut
<1>5. IsNumber(value) /\ value[1] = numeral /\ value # <<"none">>
  BY <1>1, <1>2 DEF IsNumber
<1> HIDE DEF value
<1>6. /\ Reads("number", value) <=> IsNumber(value)
      /\ Reads("port", value) <=> (IsNumber(value) /\ NumberOf[value[1]] <= MaxPort)
      /\ Reads("budget", value) <=> (IsNumber(value) \/ value = <<"none">>)
  BY DEF Reads
<1>7. /\ ValueOf("number", value) = NumberOf[value[1]]
      /\ ValueOf("port", value) = NumberOf[value[1]]
      /\ value # <<"none">> => ValueOf("budget", value) = {NumberOf[value[1]]}
  BY DEF ValueOf
<1> QED
  BY <1>1, <1>4, <1>5, <1>6, <1>7, Zenon DEF value, numeral

-----------------------------------------------------------------------------
(* settings.toml, line by line: what to_toml writes is what parse reads.    *)

\* There is one row for a key.
Outside == ""
RowOf(key) ==
  CASE key = "interval_seconds" -> <<Outside, "interval_seconds", "throughput_every", "number">>
    [] key = "throughput_every_seconds" ->
         <<Outside, "throughput_every_seconds", "throughput_every", "number">>
    [] key = "ping_every_seconds" -> <<Outside, "ping_every_seconds", "ping_every", "number">>
    [] key = "daily_budget_bytes" ->
         <<Outside, "daily_budget_bytes", "daily_budget_bytes", "budget">>
    [] key = "raw_ping_retention_days" ->
         <<Outside, "raw_ping_retention_days", "raw_ping_retention_days", "number">>
    [] key = "download_url" -> <<"endpoints", "download_url", "download_url", "text">>
    [] key = "upload_url" -> <<"endpoints", "upload_url", "upload_url", "text">>
    [] key = "download" -> <<"metrics", "download", "download", "flag">>
    [] key = "upload" -> <<"metrics", "upload", "upload", "flag">>
    [] key = "ping" -> <<"metrics", "ping", "ping", "flag">>

IsRow(row) ==
  /\ row = RowOf(row[2])
  /\ row[1] # "targets" /\ row[2] \notin Headers
  /\ row[3] \in Fields /\ row[3] # "targets"

LEMMA TopLevelRows == \A row \in TopLevel : IsRow(row)
<1>. Outside # "targets"
  BY Zenon DEF Outside
<1>1. IsRow(<<Outside, "interval_seconds", "throughput_every", "number">>)
  BY SMT DEF IsRow, RowOf, Headers, Fields
<1>2. IsRow(<<Outside, "throughput_every_seconds", "throughput_every", "number">>)
  BY SMT DEF IsRow, RowOf, Headers, Fields
<1>3. IsRow(<<Outside, "ping_every_seconds", "ping_every", "number">>)
  BY SMT DEF IsRow, RowOf, Headers, Fields
<1>4. IsRow(<<Outside, "daily_budget_bytes", "daily_budget_bytes", "budget">>)
  BY SMT DEF IsRow, RowOf, Headers, Fields
<1>5. IsRow(<<Outside, "raw_ping_retention_days", "raw_ping_retention_days", "number">>)
  BY SMT DEF IsRow, RowOf, Headers, Fields
<1>6. IsRow(<<"endpoints", "download_url", "download_url", "text">>)
  BY SMT DEF IsRow, RowOf, Headers, Fields
<1>7. IsRow(<<"endpoints", "upload_url", "upload_url", "text">>)
  BY SMT DEF IsRow, RowOf, Headers, Fields
<1>8. IsRow(<<"metrics", "download", "download", "flag">>)
  BY SMT DEF IsRow, RowOf, Headers, Fields
<1>9. IsRow(<<"metrics", "upload", "upload", "flag">>)
  BY SMT DEF IsRow, RowOf, Headers, Fields
<1>10. IsRow(<<"metrics", "ping", "ping", "flag">>)
  BY SMT DEF IsRow, RowOf, Headers, Fields
<1> QED
  BY <1>1, <1>2, <1>3, <1>4, <1>5, <1>6, <1>7, <1>8, <1>9, <1>10, Zenon DEF TopLevel, Outside

\* The settings when the values of some fields have been read.
Mixed(s, done) ==
  [field \in Fields |-> IF field \in done THEN s[field] ELSE DefaultSettings[field]]
Midway(s, done, section) ==
  [settings |-> Mixed(s, done), current |-> <<>>, section |-> section,
   target_section_seen |-> FALSE, ok |-> TRUE]

LEMMA StartIsMidway == \A s : StartOfFile = Midway(s, {}, "")
<1>1. \A s : Mixed(s, {}) = DefaultSettings
  BY DefaultsAssumption DEF Mixed, Storable
<1> QED
  BY <1>1 DEF StartOfFile, Midway

LEMMA MoreIsMixed ==
  ASSUME NEW s, NEW done, NEW field \in Fields
  PROVE  [Mixed(s, done) EXCEPT ![field] = s[field]] = Mixed(s, done \cup {field})
BY DEF Mixed

\* A line of the file sets its field.
LEMMA TopLineIsRead ==
  ASSUME NEW s, NEW done, NEW row \in TopLevel, NEW value,
         Reads(row[4], Uncommented(value)),
         ValueOf(row[4], Uncommented(value)) = s[row[3]]
  PROVE  ReadLine(Midway(s, done, row[1]), Line(row[2], value)) =
           Midway(s, done \cup {row[3]}, row[1])
<1> DEFINE p == Midway(s, done, row[1])
           line == Line(row[2], value)
           read == Uncommented(value)
           entries == {e \in TopLevel : e[1] = p.section /\ e[2] = row[2] /\ Reads(e[4], read)}
<1>1. /\ p.ok /\ p.section = row[1] /\ p.settings = Mixed(s, done)
      /\ line.key = row[2] /\ line.value = value
  BY DEF Midway, Line
<1>2. row[1] # "targets" /\ row[2] \notin Headers /\ row[3] \in Fields
  BY TopLevelRows, Zenon DEF IsRow
<1>3. entries = {row}
  <2>1. \A e \in TopLevel : e[2] = row[2] => e = row
    BY TopLevelRows, Zenon DEF IsRow
  <2>2. Reads(row[4], read)
    OBVIOUS
  <2> HIDE DEF p, read
  <2>3. row \in entries
    BY <1>1, <2>2, Zenon
  <2>4. \A e \in entries : e = row
    BY <2>1, Zenon
  <2> HIDE DEF entries
  <2> QED
    BY <2>3, <2>4
<1> DEFINE q == [p EXCEPT !.settings[row[3]] = s[row[3]]]
<1>4. ApplyTopLevel(p, row[2], read) = q
  <2>1. Only(entries) = row /\ entries # {}
    BY <1>3, OnlyOne
  <2> HIDE DEF entries, p, read, q
  <2> QED
    BY <2>1, Zenon DEF ApplyTopLevel, entries, q, read
<1>5. q = Midway(s, done \cup {row[3]}, row[1])
  <2> DEFINE field == row[3]
  <2>1. [Mixed(s, done) EXCEPT ![field] = s[field]] = Mixed(s, done \cup {field})
    BY <1>2, MoreIsMixed
  <2>2. q = [p EXCEPT !.settings = [Mixed(s, done) EXCEPT ![field] = s[field]]]
    BY <1>1 DEF Midway
  <2> HIDE DEF q
  <2> QED
    BY <2>1, <2>2 DEF Midway
<1> HIDE DEF p, q, line, read
<1>6. ReadLine(p, line) = ApplyTopLevel(p, row[2], read)
  BY <1>1, <1>2 DEF ReadLine, read, Headers
<1> QED
  BY <1>4, <1>5, <1>6, Zenon DEF p, line

SetsItsField(s, done, row, value) ==
  Reads(row[4], Uncommented(value)) /\ ValueOf(row[4], Uncommented(value)) = s[row[3]]
  => ReadLine(Midway(s, done, row[1]), Line(row[2], value)) =
       Midway(s, done \cup {row[3]}, row[1])

LEMMA RowsAreRead == \A s, done, value : \A row \in TopLevel : SetsItsField(s, done, row, value)
BY TopLineIsRead DEF SetsItsField

LEMMA FieldIsRead ==
  ASSUME NEW s, NEW done, NEW section, NEW key, NEW field, NEW type, NEW value,
         <<section, key, field, type>> \in TopLevel,
         Reads(type, Uncommented(value)), ValueOf(type, Uncommented(value)) = s[field]
  PROVE  ReadLine(Midway(s, done, section), Line(key, value)) =
           Midway(s, done \cup {field}, section)
<1> DEFINE row == <<section, key, field, type>>
<1>1. row[1] = section /\ row[2] = key /\ row[3] = field /\ row[4] = type
  OBVIOUS
<1> HIDE DEF row
<1>2. SetsItsField(s, done, row, value)
  BY RowsAreRead, Zenon DEF row
<1> QED
  BY <1>1, <1>2, Zenon DEF SetsItsField

LEMMA HeaderIsRead ==
  ASSUME NEW s, NEW done, NEW section
  PROVE  /\ ReadLine(Midway(s, done, section), Header("[endpoints]")) = Midway(s, done, "endpoints")
         /\ ReadLine(Midway(s, done, section), Header("[metrics]")) = Midway(s, done, "metrics")
<1> DEFINE p == Midway(s, done, section)
<1>1. p.ok /\ TargetPushed(p) = p
  BY DEF Midway, TargetPushed
<1>2. ASSUME NEW key \in Headers \ {"[[targets]]"}
      PROVE  ReadLine(p, Header(key)) = [p EXCEPT !.section = SectionOf(key)]
  <2> HIDE DEF p
  <2>1. Header(key).key = key
    BY DEF Header, Line
  <2> QED
    BY <1>1, <2>1 DEF ReadLine
<1>3. ASSUME NEW new PROVE [p EXCEPT !.section = new] = Midway(s, done, new)
  <2>1. \A read, current, seen, ok :
          [[settings |-> read, current |-> current, section |-> section,
            target_section_seen |-> seen, ok |-> ok] EXCEPT !.section = new]
            = [settings |-> read, current |-> current, section |-> new,
               target_section_seen |-> seen, ok |-> ok]
    OBVIOUS
  <2> QED
    BY <2>1, Zenon DEF Midway
<1> HIDE DEF p
<1>4. /\ "[endpoints]" \in Headers \ {"[[targets]]"} /\ SectionOf("[endpoints]") = "endpoints"
      /\ "[metrics]" \in Headers \ {"[[targets]]"} /\ SectionOf("[metrics]") = "metrics"
  BY DEF Headers, SectionOf
<1> QED
  BY <1>2, <1>3, <1>4, Zenon DEF p

\* A part of a file, line by line.
InTurn(lines, block) ==
  \E r : /\ r[0] = Reading(lines) /\ r[Len(block)] = Reading(lines \o block)
         /\ \A k \in 1..Len(block) : r[k] = ReadLine(r[k - 1], block[k])

LEMMA ReadingBlock ==
  ASSUME NEW lines, IsSequence(lines), NEW block, IsSequence(block)
  PROVE  InTurn(lines, block)
<1> DEFINE r == [k \in 0..Len(block) |-> Reading(lines \o SubSeq(block, 1, k))]
<1>1. Len(block) \in Nat
  BY AppendedIsSequence
<1>2. r[0] = Reading(lines)
  <2>1. lines \o SubSeq(block, 1, 0) = lines
    BY PrefixGrows, EndIsAppended
  <2>2. r[0] = Reading(lines \o SubSeq(block, 1, 0))
    BY <1>1
  <2> QED
    BY <2>1, <2>2, Zenon
<1>3. r[Len(block)] = Reading(lines \o block)
  <2>1. SubSeq(block, 1, Len(block)) = block
    BY PrefixGrows
  <2>2. r[Len(block)] = Reading(lines \o SubSeq(block, 1, Len(block)))
    BY <1>1
  <2> QED
    BY <2>1, <2>2, Zenon
<1>4. ASSUME NEW k \in 1..Len(block) PROVE r[k] = ReadLine(r[k - 1], block[k])
  <2> DEFINE head == SubSeq(block, 1, k - 1)
  <2>1. k - 1 \in 0..(Len(block) - 1) /\ k - 1 \in 0..Len(block) /\ (k - 1) + 1 = k
    BY <1>1
  <2>2. SubSeq(block, 1, k) = Append(head, block[k]) /\ IsSequence(head)
    BY <2>1, PrefixGrows
  <2>3. r[k] = Reading(lines \o SubSeq(block, 1, k)) /\ r[k - 1] = Reading(lines \o head)
    BY <1>1, <2>1
  <2> HIDE DEF head, r
  <2>4. /\ lines \o SubSeq(block, 1, k) = Append(lines \o head, block[k])
        /\ IsSequence(lines \o head)
    <3>1. lines \o Append(head, block[k]) = Append(lines \o head, block[k])
      BY <2>2, JoinedIsSequence
    <3>2. IsSequence(lines \o head)
      BY <2>2, JoinedIsSequence, Zenon
    <3> QED
      BY <2>2, <3>1, <3>2, Zenon
  <2> QED
    BY <2>3, <2>4, ReadingGoesOn, Zenon
<1> HIDE DEF r
<1> QED
  BY <1>2, <1>3, <1>4, Zenon DEF InTurn

\* The beginning of to_toml, up to the targets.
Cadences(s) ==
  <<Line("throughput_every_seconds", <<NumeralOf(s.throughput_every)>>),
    Line("ping_every_seconds", <<NumeralOf(s.ping_every)>>)>>
Sections(s) ==
  <<Line("raw_ping_retention_days", <<NumeralOf(s.raw_ping_retention_days)>>),
    Header("[endpoints]"),
    Line("download_url", Quoted(s.download_url)), Line("upload_url", Quoted(s.upload_url)),
    Header("[metrics]"),
    Line("download", <<Flag(s.download)>>), Line("upload", <<Flag(s.upload)>>),
    Line("ping", <<Flag(s.ping)>>)>>
Beginning(s) == (Cadences(s) \o BudgetLines(s.daily_budget_bytes)) \o Sections(s)

LEMMA CadencesAreRead ==
  ASSUME NEW s, Storable(s)
  PROVE  /\ IsSequence(Cadences(s))
         /\ Reading(Cadences(s)) = Midway(s, {"throughput_every", "ping_every"}, Outside)
<1> DEFINE l1 == Line("throughput_every_seconds", <<NumeralOf(s.throughput_every)>>)
           l2 == Line("ping_every_seconds", <<NumeralOf(s.ping_every)>>)
           block == <<l1, l2>>
<1>1. /\ <<Outside, "throughput_every_seconds", "throughput_every", "number">> \in TopLevel
      /\ <<Outside, "ping_every_seconds", "ping_every", "number">> \in TopLevel
  BY Zenon DEF TopLevel, Outside
<1>2. s.throughput_every \in Written /\ s.ping_every \in Written
  BY DEF Storable
<1>3. \A done : /\ ReadLine(Midway(s, done, Outside), l1) = Midway(s, done \cup {"throughput_every"}, Outside)
                /\ ReadLine(Midway(s, done, Outside), l2) = Midway(s, done \cup {"ping_every"}, Outside)
  BY <1>1, <1>2, NumberIsRead, FieldIsRead
<1>4. Cadences(s) = block
  BY DEF Cadences
<1> HIDE DEF l1, l2
<1>5. block \in Seq({l1, l2}) /\ Len(block) = 2 /\ block[1] = l1 /\ block[2] = l2
  OBVIOUS
<1> HIDE DEF block
<1>6. IsSequence(block)
  BY <1>5, Zenon DEF IsSequence
<1>7. PICK r : /\ r[0] = Reading(<<>>) /\ r[Len(block)] = Reading(<<>> \o block)
               /\ \A k \in 1..Len(block) : r[k] = ReadLine(r[k - 1], block[k])
  <2>1. InTurn(<<>>, block)
    BY <1>6, EmptyIsSequence, ReadingBlock, Zenon
  <2> QED
    BY <2>1, Zenon DEF InTurn
<1>8. r[0] = Midway(s, {}, Outside)
  BY <1>7, ReadingGoesOn, StartIsMidway, Zenon DEF Outside
<1>9. r[1] = ReadLine(r[0], l1) /\ r[2] = ReadLine(r[1], l2) /\ r[2] = Reading(<<>> \o block)
  BY <1>5, <1>7
<1>10. <<>> \o block = block
  BY <1>6, EndIsAppended
<1>11. ({} \cup {"throughput_every"}) \cup {"ping_every"} = {"throughput_every", "ping_every"}
  OBVIOUS
<1>12. r[1] = Midway(s, {} \cup {"throughput_every"}, Outside)
  BY <1>3, <1>8, <1>9, Zenon
<1>13. r[2] = Midway(s, ({} \cup {"throughput_every"}) \cup {"ping_every"}, Outside)
  BY <1>3, <1>9, <1>12, Zenon
<1>14. Reading(block) = Midway(s, {"throughput_every", "ping_every"}, Outside)
  BY <1>9, <1>10, <1>11, <1>13
<1> QED
  BY <1>4, <1>6, <1>14, Zenon

LEMMA BudgetIsRead ==
  ASSUME NEW s, Storable(s)
  PROVE  /\ IsSequence(Cadences(s) \o BudgetLines(s.daily_budget_bytes))
         /\ Reading(Cadences(s) \o BudgetLines(s.daily_budget_bytes)) =
              Midway(s, {"throughput_every", "ping_every", "daily_budget_bytes"}, Outside)
<1> DEFINE done == {"throughput_every", "ping_every"}
           more == {"throughput_every", "ping_every", "daily_budget_bytes"}
<1>1. IsSequence(Cadences(s)) /\ Reading(Cadences(s)) = Midway(s, done, Outside)
  BY CadencesAreRead
<1>2. CASE s.daily_budget_bytes = {}
  <2>1. BudgetLines(s.daily_budget_bytes) = <<>>
    BY <1>2 DEF BudgetLines
  <2>2. Cadences(s) \o <<>> = Cadences(s)
    BY <1>1, EndIsAppended
  <2>3. Mixed(s, done) = Mixed(s, more)
    BY <1>2, DefaultsAssumption DEF Mixed
  <2>4. Midway(s, done, Outside) = Midway(s, more, Outside)
    BY <2>3, Zenon DEF Midway
  <2> QED
    BY <1>1, <2>1, <2>2, <2>4, Zenon
<1>3. CASE s.daily_budget_bytes # {}
  <2>1. PICK n \in Written : s.daily_budget_bytes = {n}
    BY <1>3 DEF Storable
  <2> DEFINE line == Line("daily_budget_bytes", <<NumeralOf(n)>>)
  <2>2. BudgetLines(s.daily_budget_bytes) = <<line>>
    BY <2>1, OnlyOne DEF BudgetLines
  <2>3. Cadences(s) \o <<line>> = Append(Cadences(s), line)
    BY <1>1, EndIsAppended
  <2>4. <<Outside, "daily_budget_bytes", "daily_budget_bytes", "budget">> \in TopLevel
    BY Zenon DEF TopLevel, Outside
  <2>5. ReadLine(Midway(s, done, Outside), line) =
          Midway(s, done \cup {"daily_budget_bytes"}, Outside)
    <3> DEFINE value == <<NumeralOf(n)>>
    <3>1. Reads("budget", Uncommented(value))
      BY NumberIsRead
    <3>2. ValueOf("budget", Uncommented(value)) = s.daily_budget_bytes
      BY <2>1, NumberIsRead
    <3> HIDE DEF done, value
    <3>3. ReadLine(Midway(s, done, Outside), Line("daily_budget_bytes", value)) =
            Midway(s, done \cup {"daily_budget_bytes"}, Outside)
      BY <2>4, <3>1, <3>2, FieldIsRead
    <3> QED
      BY <3>3 DEF value
  <2>6. done \cup {"daily_budget_bytes"} = more
    OBVIOUS
  <2> HIDE DEF line, done, more
  <2>7. Reading(Append(Cadences(s), line)) = Midway(s, more, Outside)
    BY <1>1, <2>5, <2>6, ReadingGoesOn, Zenon
  <2>8. IsSequence(Append(Cadences(s), line))
    BY <1>1, AppendedIsSequence
  <2> QED
    BY <2>2, <2>3, <2>7, <2>8, Zenon DEF more
<1> QED
  BY <1>2, <1>3

LEMMA MetricIsRead ==
  ASSUME NEW s, NEW done, NEW field,
         <<"metrics", field, field, "flag">> \in TopLevel, s[field] \in BOOLEAN
  PROVE  ReadLine(Midway(s, done, "metrics"), Line(field, <<Flag(s[field])>>)) =
           Midway(s, done \cup {field}, "metrics")
<1> DEFINE value == <<Flag(s[field])>>
<1>1. Reads("flag", Uncommented(value)) /\ ValueOf("flag", Uncommented(value)) = s[field]
  BY FlagIsRead
<1> HIDE DEF value
<1> DEFINE row == <<"metrics", field, field, "flag">>
<1>2. row \in TopLevel /\ row[1] = "metrics" /\ row[2] = field /\ row[3] = field /\ row[4] = "flag"
  OBVIOUS
<1> HIDE DEF row
<1>3. SetsItsField(s, done, row, value)
  BY <1>2, RowsAreRead, Zenon
<1>4. ReadLine(Midway(s, done, "metrics"), Line(field, value)) =
        Midway(s, done \cup {field}, "metrics")
  BY <1>1, <1>2, <1>3, Zenon DEF SetsItsField
<1> QED
  BY <1>4 DEF value

LEMMA SectionsAreRead ==
  ASSUME NEW s, Storable(s)
  PROVE  /\ IsSequence(Beginning(s))
         /\ Reading(Beginning(s)) = Midway(s, Fields \ {"targets"}, "metrics")
<1> DEFINE lines == Cadences(s) \o BudgetLines(s.daily_budget_bytes)
           d0 == {"throughput_every", "ping_every", "daily_budget_bytes"}
           d1 == d0 \cup {"raw_ping_retention_days"}
           d3 == d1 \cup {"download_url"}
           d4 == d3 \cup {"upload_url"}
           d6 == d4 \cup {"download"}
           d7 == d6 \cup {"upload"}
           d8 == d7 \cup {"ping"}
           l1 == Line("raw_ping_retention_days", <<NumeralOf(s.raw_ping_retention_days)>>)
           l2 == Header("[endpoints]")
           l3 == Line("download_url", Quoted(s.download_url))
           l4 == Line("upload_url", Quoted(s.upload_url))
           l5 == Header("[metrics]")
           l6 == Line("download", <<Flag(s.download)>>)
           l7 == Line("upload", <<Flag(s.upload)>>)
           l8 == Line("ping", <<Flag(s.ping)>>)
           block == <<l1, l2, l3, l4, l5, l6, l7, l8>>
<1>1. IsSequence(lines) /\ Reading(lines) = Midway(s, d0, Outside)
  BY BudgetIsRead
<1>2. d8 = Fields \ {"targets"}
  BY DEF Fields
<1>3. /\ <<Outside, "raw_ping_retention_days", "raw_ping_retention_days", "number">> \in TopLevel
      /\ <<"endpoints", "download_url", "download_url", "text">> \in TopLevel
      /\ <<"endpoints", "upload_url", "upload_url", "text">> \in TopLevel
      /\ <<"metrics", "download", "download", "flag">> \in TopLevel
      /\ <<"metrics", "upload", "upload", "flag">> \in TopLevel
      /\ <<"metrics", "ping", "ping", "flag">> \in TopLevel
  BY Zenon DEF TopLevel, Outside
<1>4. /\ s.raw_ping_retention_days \in Written
      /\ IsSequence(s.download_url) /\ Hash \notin ToSet(s.download_url)
      /\ IsSequence(s.upload_url) /\ Hash \notin ToSet(s.upload_url)
      /\ s.download \in BOOLEAN /\ s.upload \in BOOLEAN /\ s.ping \in BOOLEAN
  BY StringsAreSequences DEF Storable
<1>5. ReadLine(Midway(s, d0, Outside), l1) = Midway(s, d1, Outside)
  BY <1>3, <1>4, NumberIsRead, FieldIsRead
<1>6. ReadLine(Midway(s, d1, Outside), l2) = Midway(s, d1, "endpoints")
  BY HeaderIsRead
<1>7. ReadLine(Midway(s, d1, "endpoints"), l3) = Midway(s, d3, "endpoints")
  BY <1>3, <1>4, TextIsRead, FieldIsRead
<1>8. ReadLine(Midway(s, d3, "endpoints"), l4) = Midway(s, d4, "endpoints")
  BY <1>3, <1>4, TextIsRead, FieldIsRead
<1>9. ReadLine(Midway(s, d4, "endpoints"), l5) = Midway(s, d4, "metrics")
  BY HeaderIsRead
<1>10. ReadLine(Midway(s, d4, "metrics"), l6) = Midway(s, d6, "metrics")
  BY <1>3, <1>4, MetricIsRead, Zenon
<1>11. ReadLine(Midway(s, d6, "metrics"), l7) = Midway(s, d7, "metrics")
  BY <1>3, <1>4, MetricIsRead, Zenon
<1>12. ReadLine(Midway(s, d7, "metrics"), l8) = Midway(s, d8, "metrics")
  BY <1>3, <1>4, MetricIsRead, Zenon
<1>13. Beginning(s) = lines \o block
  BY DEF Beginning, Sections
<1> HIDE DEF l1, l2, l3, l4, l5, l6, l7, l8, d0, d1, d3, d4, d6, d7, d8, lines
<1>14. /\ block \in Seq({l1, l2, l3, l4, l5, l6, l7, l8}) /\ Len(block) = 8
       /\ block[1] = l1 /\ block[2] = l2 /\ block[3] = l3 /\ block[4] = l4
       /\ block[5] = l5 /\ block[6] = l6 /\ block[7] = l7 /\ block[8] = l8
  OBVIOUS
<1> HIDE DEF block
<1>15. IsSequence(block)
  BY <1>14, Zenon DEF IsSequence
<1>16. PICK r : /\ r[0] = Reading(lines) /\ r[Len(block)] = Reading(lines \o block)
                /\ \A k \in 1..Len(block) : r[k] = ReadLine(r[k - 1], block[k])
  <2>1. InTurn(lines, block)
    BY <1>1, <1>15, ReadingBlock, Zenon
  <2> QED
    BY <2>1, Zenon DEF InTurn
<1>17. /\ r[1] = ReadLine(r[0], l1) /\ r[2] = ReadLine(r[1], l2) /\ r[3] = ReadLine(r[2], l3)
       /\ r[4] = ReadLine(r[3], l4) /\ r[5] = ReadLine(r[4], l5) /\ r[6] = ReadLine(r[5], l6)
       /\ r[7] = ReadLine(r[6], l7) /\ r[8] = ReadLine(r[7], l8)
       /\ r[8] = Reading(lines \o block)
  BY <1>14, <1>16
<1>18. r[8] = Midway(s, d8, "metrics")
  BY <1>1, <1>5, <1>6, <1>7, <1>8, <1>9, <1>10, <1>11, <1>12, <1>16, <1>17
<1>19. IsSequence(lines \o block)
  BY <1>1, <1>15, JoinedIsSequence
<1> QED
  BY <1>2, <1>13, <1>17, <1>18, <1>19

-----------------------------------------------------------------------------
(* The targets of the file.                                                 *)

\* The reader in the targets: those read, and the one being read.
Reader(s, current, section, seen, ok) ==
  [settings |-> s, current |-> current, section |-> section,
   target_section_seen |-> seen, ok |-> ok]
WithTargets(s, targets) == [field \in Fields |-> IF field = "targets" THEN targets ELSE s[field]]
InTarget(s, targets, draft) == Reader(WithTargets(s, targets), <<draft>>, "targets", TRUE, TRUE)

IsReader(p, s, current, section, seen, ok) ==
  /\ p.settings = s /\ p.current = current /\ p.section = section
  /\ p.target_section_seen = seen /\ p.ok = ok
  /\ \A new : /\ [p EXCEPT !.settings = new] = Reader(new, current, section, seen, ok)
              /\ [p EXCEPT !.current = new] = Reader(s, new, section, seen, ok)
              /\ [p EXCEPT !.section = new] = Reader(s, current, new, seen, ok)
              /\ [p EXCEPT !.target_section_seen = new] = Reader(s, current, section, new, ok)

LEMMA ReaderIs ==
  \A s, current, section, seen, ok :
    IsReader(Reader(s, current, section, seen, ok), s, current, section, seen, ok)
BY DEF Reader, IsReader

LEMMA TargetsAreChanged ==
  ASSUME NEW s, NEW targets, NEW new
  PROVE  /\ WithTargets(s, targets).targets = targets
         /\ [WithTargets(s, targets) EXCEPT !.targets = new] = WithTargets(s, new)
BY DEF WithTargets, Fields

\* A target of which the values of some keys have been read.
Told(target, key) == IF key = "port" THEN target.port ELSE {target[key]}
PartDraft(target, done) ==
  [key \in DOMAIN TargetKeys |-> IF key \in done THEN Told(target, key) ELSE {}]

LEMMA DraftGrows ==
  ASSUME NEW target, NEW done, NEW key \in DOMAIN TargetKeys
  PROVE  [PartDraft(target, done) EXCEPT ![key] = Told(target, key)] =
           PartDraft(target, done \cup {key})
BY DEF PartDraft

LEMMA TargetKeysAre ==
  /\ DOMAIN TargetKeys = {"name", "kind", "host", "port", "verified", "enabled"}
  /\ TargetKeys["name"] = "text" /\ TargetKeys["kind"] = "text" /\ TargetKeys["host"] = "text"
  /\ TargetKeys["port"] = "port"
  /\ TargetKeys["verified"] = "flag" /\ TargetKeys["enabled"] = "flag"
BY DEF TargetKeys

\* A line of a target sets its key.
LEMMA TargetLineIsRead ==
  ASSUME NEW s, NEW targets, NEW target, NEW done, NEW key \in DOMAIN TargetKeys, NEW value,
         Reads(TargetKeys[key], Uncommented(value)),
         {ValueOf(TargetKeys[key], Uncommented(value))} = Told(target, key)
  PROVE  ReadLine(InTarget(s, targets, PartDraft(target, done)), Line(key, value)) =
           InTarget(s, targets, PartDraft(target, done \cup {key}))
<1> DEFINE draft == PartDraft(target, done)
           p == InTarget(s, targets, draft)
           line == Line(key, value)
           read == Uncommented(value)
           new == {ValueOf(TargetKeys[key], read)}
           longer == [draft EXCEPT ![key] = new]
<1>1. /\ p.ok = TRUE /\ p.section = "targets" /\ p.current = <<draft>>
  <2>1. IsReader(p, WithTargets(s, targets), <<draft>>, "targets", TRUE, TRUE)
    BY ReaderIs, Zenon DEF InTarget
  <2> HIDE DEF p, draft
  <2> QED
    BY <2>1, Zenon DEF IsReader
<1>2. line.key = key /\ line.value = value
  BY DEF Line
<1>3. key \notin Headers
  BY TargetKeysAre DEF Headers
<1>4. p.current # <<>> /\ p.current[1] = draft
  BY <1>1
<1>5. SetTarget(p, key, read) = [p EXCEPT !.current = [p.current EXCEPT ![1] = longer]]
  <2> HIDE DEF p, draft, read
  <2>1. SetTarget(p, key, read) = [p EXCEPT !.current[1][key] = new]
    BY <1>4 DEF SetTarget, read
  <2> HIDE DEF new
  <2>2. [p EXCEPT !.current[1][key] = new] =
          [p EXCEPT !.current = [p.current EXCEPT ![1] = [p.current[1] EXCEPT ![key] = new]]]
    OBVIOUS
  <2> QED
    BY <1>4, <2>1, <2>2 DEF new
<1>6. longer = PartDraft(target, done \cup {key})
  <2>1. new = Told(target, key)
    OBVIOUS
  <2> HIDE DEF new, draft
  <2> QED
    BY <2>1, DraftGrows DEF draft
<1> HIDE DEF longer
<1>7. [p.current EXCEPT ![1] = longer] = <<longer>>
  <2>1. \A d, e : [<<d>> EXCEPT ![1] = e] = <<e>>
    OBVIOUS
  <2> HIDE DEF p, draft
  <2> QED
    BY <1>1, <2>1
<1>8. [p EXCEPT !.current = <<longer>>] = InTarget(s, targets, longer)
  <2>1. IsReader(p, WithTargets(s, targets), <<draft>>, "targets", TRUE, TRUE)
    BY ReaderIs, Zenon DEF InTarget
  <2> HIDE DEF p, draft
  <2> QED
    BY <2>1, Zenon DEF IsReader, InTarget
<1>9. ReadLine(p, line) = SetTarget(p, key, read)
  <2> HIDE DEF p, line
  <2> QED
    BY <1>1, <1>2, <1>3 DEF ReadLine, read, Headers
<1> QED
  BY <1>5, <1>6, <1>7, <1>8, <1>9

\* What a file can hold of a target, once read, is that target.
LEMMA FinishedIsTarget ==
  ASSUME NEW target, StorableTarget(target)
  PROVE  /\ Finishes(PartDraft(target, DOMAIN TargetKeys))
         /\ Finished(PartDraft(target, DOMAIN TargetKeys)) = target
<1> DEFINE draft == PartDraft(target, DOMAIN TargetKeys)
<1>1. /\ draft.name = {target.name} /\ draft.kind = {target.kind} /\ draft.host = {target.host}
      /\ draft.port = target.port /\ draft.verified = {target.verified}
      /\ draft.enabled = {target.enabled}
  BY TargetKeysAre DEF PartDraft, Told
<1> HIDE DEF draft
<1>2. target.kind = Icmp \/ target.kind = Tcp
  BY DEF StorableTarget
<1>3. target.kind = Icmp => target.port = {}
  BY DEF StorableTarget
<1>4. target.kind = Tcp => target.port # {}
  BY DEF StorableTarget
<1>5. Icmp # Tcp
  BY DEF Icmp, Tcp
<1>6. Finishes(draft)
  BY <1>1, <1>2, <1>4, <1>5 DEF Finishes
<1> DEFINE t == Finished(draft)
<1>7. /\ t = [key \in DOMAIN TargetKeys |-> t[key]]
      /\ t.name = target.name /\ t.kind = target.kind /\ t.host = target.host
  BY <1>1, OnlyOne, TargetKeysAre DEF Finished
<1>8. t.port = target.port
  <2>1. t.port = IF draft.kind = {Tcp} THEN draft.port ELSE {}
    BY DEF Finished
  <2> QED
    BY <1>1, <1>2, <1>3, <1>5, <2>1
<1>9. t.verified = target.verified /\ t.enabled = target.enabled
  <2>1. t.verified = (draft.verified = {TRUE}) /\ t.enabled = (draft.enabled # {FALSE})
    BY DEF Finished
  <2>2. target.verified \in BOOLEAN /\ target.enabled \in BOOLEAN
    BY DEF StorableTarget
  <2> QED
    BY <1>1, <2>1, <2>2, Zenon
<1> HIDE DEF t
<1>10. target = [key \in DOMAIN TargetKeys |-> target[key]]
  BY DEF StorableTarget
<1>11. \A key \in DOMAIN TargetKeys : t[key] = target[key]
  BY <1>7, <1>8, <1>9, TargetKeysAre
<1>12. t = target
  BY <1>7, <1>10, <1>11, Zenon
<1> QED
  BY <1>6, <1>12 DEF t, draft

\* The reader when n targets have been read.
Complete(target) == PartDraft(target, DOMAIN TargetKeys)
Between(s, n) ==
  IF n = 0 THEN Midway(s, Fields \ {"targets"}, "metrics")
  ELSE InTarget(s, SubSeq(s.targets, 1, n - 1), Complete(s.targets[n]))

\* What a file can hold and is read back: targets without a # in their texts.
Plain(target) ==
  StorableTarget(target) /\ Hash \notin ToSet(target.name) \cup ToSet(target.host)
AllPlain(s) == Storable(s) /\ \A i \in DOMAIN s.targets : Plain(s.targets[i])

\* The target being read joins the others.
LEMMA TargetJoins ==
  ASSUME NEW s, NEW n, AllPlain(s), n \in 1..Len(s.targets)
  PROVE  TargetPushed(Between(s, n)) =
           Reader(WithTargets(s, SubSeq(s.targets, 1, n)), <<>>, "targets", TRUE, TRUE)
<1> DEFINE targets == SubSeq(s.targets, 1, n - 1)
           target == s.targets[n]
           draft == Complete(target)
           p == Between(s, n)
           longer == Append(targets, target)
<1>1. IsSequence(s.targets)
  BY StringsAreSequences DEF AllPlain, Storable
<1>2. Len(s.targets) \in Nat /\ DOMAIN s.targets = 1..Len(s.targets)
  BY <1>1, LenProperties DEF IsSequence
<1>3. StorableTarget(target)
  BY <1>2 DEF AllPlain, Plain
<1>4. Finishes(draft) /\ Finished(draft) = target
  BY <1>3, FinishedIsTarget DEF Complete
<1>5. longer = SubSeq(s.targets, 1, n)
  <2>1. n - 1 \in 0..(Len(s.targets) - 1) /\ (n - 1) + 1 = n
    BY <1>2
  <2> QED
    BY <1>1, <2>1, PrefixGrows
<1>6. IsReader(p, WithTargets(s, targets), <<draft>>, "targets", TRUE, TRUE)
  <2>1. p = InTarget(s, targets, draft)
    BY <1>2 DEF Between
  <2> HIDE DEF p, targets, draft
  <2> QED
    BY <2>1, ReaderIs, Zenon DEF InTarget
<1> HIDE DEF p, targets, draft, target
<1>7. p.current # <<>> /\ p.current[1] = draft
  <2>1. p.current = <<draft>>
    BY <1>6, Zenon DEF IsReader
  <2> QED
    BY <2>1
<1>8. TargetPushed(p) = [p EXCEPT !.settings.targets = longer, !.current = <<>>]
  <2>1. p.settings.targets = targets
    <3>1. p.settings = WithTargets(s, targets)
      BY <1>6, Zenon DEF IsReader
    <3> QED
      BY <3>1, TargetsAreChanged
  <2> QED
    BY <1>4, <1>7, <2>1 DEF TargetPushed
<1> HIDE DEF longer
<1> DEFINE new == [p.settings EXCEPT !.targets = longer]
           q == [p EXCEPT !.settings = new]
<1>9. new = WithTargets(s, longer)
  <2>1. p.settings = WithTargets(s, targets)
    BY <1>6, Zenon DEF IsReader
  <2> QED
    BY <2>1, TargetsAreChanged
<1>10. [p EXCEPT !.settings.targets = longer, !.current = <<>>] = [q EXCEPT !.current = <<>>]
  OBVIOUS
<1> HIDE DEF new
<1>11. q = Reader(WithTargets(s, longer), <<draft>>, "targets", TRUE, TRUE)
  BY <1>6, <1>9, Zenon DEF IsReader
<1> HIDE DEF q
<1>12. [q EXCEPT !.current = <<>>] = Reader(WithTargets(s, longer), <<>>, "targets", TRUE, TRUE)
  <2>1. IsReader(q, WithTargets(s, longer), <<draft>>, "targets", TRUE, TRUE)
    BY <1>11, ReaderIs, Zenon
  <2> QED
    BY <2>1, Zenon DEF IsReader
<1> QED
  BY <1>5, <1>8, <1>10, <1>12 DEF p

\* A header of a target: the one before it joins the others, and one begins.
LEMMA TargetBegins ==
  ASSUME NEW s, AllPlain(s), NEW n, n \in 0..(Len(s.targets) - 1)
  PROVE  ReadLine(Between(s, n), Header("[[targets]]")) =
           InTarget(s, SubSeq(s.targets, 1, n), TargetDraft)
<1> DEFINE p == Between(s, n)
           targets == SubSeq(s.targets, 1, n)
<1>1. IsSequence(s.targets)
  BY StringsAreSequences DEF AllPlain, Storable
<1>2. Len(s.targets) \in Nat
  BY <1>1, LenProperties DEF IsSequence
<1> DEFINE q == IF p.target_section_seen THEN p ELSE [p EXCEPT !.settings.targets = <<>>]
<1>3. ReadLine(p, Header("[[targets]]")) = NewTarget(p) /\ p.ok
  <2>1. p.ok
    <3>1. CASE n = 0
      BY <3>1 DEF Between, Midway
    <3>2. CASE n # 0
      <4>1. /\ p = InTarget(s, SubSeq(s.targets, 1, n - 1), Complete(s.targets[n]))
            /\ IsReader(p, WithTargets(s, SubSeq(s.targets, 1, n - 1)),
                        <<Complete(s.targets[n])>>, "targets", TRUE, TRUE)
        BY <3>2, ReaderIs, Zenon DEF Between, InTarget
      <4> QED
        BY <4>1, Zenon DEF IsReader
    <3> QED
      BY <3>1, <3>2
  <2>2. Header("[[targets]]").key = "[[targets]]"
    BY DEF Header, Line
  <2> HIDE DEF p
  <2> QED
    BY <2>1, <2>2 DEF ReadLine, Headers
<1> DEFINE pushed == TargetPushed(q)
<1>4. \E section : pushed = Reader(WithTargets(s, targets), <<>>, section, p.target_section_seen, TRUE)
  <2>1. CASE n = 0
    <3> DEFINE read == Mixed(s, Fields \ {"targets"})
    <3>1. p = Reader(read, <<>>, "metrics", FALSE, TRUE)
      BY <2>1 DEF Between, Midway, Reader
    <3>2. [read EXCEPT !.targets = <<>>] = WithTargets(s, <<>>)
      BY DEF Mixed, WithTargets, Fields
    <3>3. targets = <<>>
      BY <1>1, <2>1, PrefixGrows
    <3> HIDE DEF p, read, targets
    <3>4. IsReader(p, read, <<>>, "metrics", FALSE, TRUE)
      BY <3>1, ReaderIs, Zenon
    <3>5. /\ p.settings = read /\ p.target_section_seen = FALSE
          /\ [p EXCEPT !.settings = WithTargets(s, <<>>)] =
               Reader(WithTargets(s, <<>>), <<>>, "metrics", FALSE, TRUE)
      BY <3>4, Zenon DEF IsReader
    <3>6. [p EXCEPT !.settings.targets = <<>>] = [p EXCEPT !.settings = [p.settings EXCEPT !.targets = <<>>]]
      OBVIOUS
    <3>7. q = Reader(WithTargets(s, <<>>), <<>>, "metrics", FALSE, TRUE)
      BY <3>2, <3>5, <3>6
    <3> HIDE DEF q
    <3>8. q.current = <<>>
      <4>1. IsReader(q, WithTargets(s, <<>>), <<>>, "metrics", FALSE, TRUE)
        BY <3>7, ReaderIs, Zenon
      <4> QED
        BY <4>1, Zenon DEF IsReader
    <3>9. pushed = q
      BY <3>8 DEF TargetPushed
    <3> HIDE DEF pushed
    <3> QED
      BY <3>3, <3>5, <3>7, <3>9, Zenon
  <2>2. CASE n # 0
    <3>1. n \in 1..Len(s.targets)
      BY <1>2, <2>2
    <3>2. p.target_section_seen = TRUE
      <4>1. /\ p = InTarget(s, SubSeq(s.targets, 1, n - 1), Complete(s.targets[n]))
            /\ IsReader(p, WithTargets(s, SubSeq(s.targets, 1, n - 1)),
                        <<Complete(s.targets[n])>>, "targets", TRUE, TRUE)
        BY <2>2, ReaderIs, Zenon DEF Between, InTarget
      <4> QED
        BY <4>1, Zenon DEF IsReader
    <3> HIDE DEF p
    <3>3. q = p
      BY <3>2
    <3> HIDE DEF q, targets
    <3>4. pushed = Reader(WithTargets(s, targets), <<>>, "targets", TRUE, TRUE)
      BY <3>1, <3>3, TargetJoins DEF p, targets
    <3> HIDE DEF pushed
    <3> QED
      BY <3>2, <3>4, Zenon
  <2> QED
    BY <2>1, <2>2
<1>5. NewTarget(p) = [pushed EXCEPT !.current = <<TargetDraft>>, !.section = "targets",
                                    !.target_section_seen = TRUE]
  BY DEF NewTarget
<1>6. PICK section : pushed = Reader(WithTargets(s, targets), <<>>, section, p.target_section_seen, TRUE)
  BY <1>4
<1> HIDE DEF p, q, pushed, targets
<1> DEFINE all == WithTargets(s, targets)
           seen == p.target_section_seen
           p1 == Reader(all, <<TargetDraft>>, section, seen, TRUE)
           p2 == Reader(all, <<TargetDraft>>, "targets", seen, TRUE)
           p3 == Reader(all, <<TargetDraft>>, "targets", TRUE, TRUE)
<1> HIDE DEF all, seen
<1>7. /\ [pushed EXCEPT !.current = <<TargetDraft>>] = p1
      /\ [p1 EXCEPT !.section = "targets"] = p2
      /\ [p2 EXCEPT !.target_section_seen = TRUE] = p3
  <2>1. IsReader(pushed, all, <<>>, section, seen, TRUE)
    BY <1>6, ReaderIs, Zenon DEF all, seen
  <2>2. IsReader(p1, all, <<TargetDraft>>, section, seen, TRUE)
    BY ReaderIs, Zenon
  <2>3. IsReader(p2, all, <<TargetDraft>>, "targets", seen, TRUE)
    BY ReaderIs, Zenon
  <2> HIDE DEF p2
  <2>4. [pushed EXCEPT !.current = <<TargetDraft>>] = p1
    BY <2>1, Zenon DEF IsReader
  <2>5. [p1 EXCEPT !.section = "targets"] = p2
    <3> HIDE DEF p1
    <3> QED
      BY <2>2, Zenon DEF IsReader, p2
  <2>6. [p2 EXCEPT !.target_section_seen = TRUE] = p3
    BY <2>3, Zenon DEF IsReader
  <2> QED
    BY <2>4, <2>5, <2>6
<1> HIDE DEF p1, p2, p3
<1>8. [pushed EXCEPT !.current = <<TargetDraft>>, !.section = "targets",
                     !.target_section_seen = TRUE] = p3
  BY <1>7
<1> QED
  BY <1>3, <1>5, <1>8 DEF p, p3, InTarget, all, targets

TakesLine(s, targets, target, done, key, value) ==
  /\ Reads(TargetKeys[key], Uncommented(value))
  /\ {ValueOf(TargetKeys[key], Uncommented(value))} = Told(target, key)
  => ReadLine(InTarget(s, targets, PartDraft(target, done)), Line(key, value)) =
       InTarget(s, targets, PartDraft(target, done \cup {key}))

LEMMA TargetLinesAreRead ==
  \A s, targets, target, done, value : \A key \in DOMAIN TargetKeys :
    TakesLine(s, targets, target, done, key, value)
BY TargetLineIsRead DEF TakesLine

\* The six lines of every target.
SixLines(target) ==
  <<Header("[[targets]]"), Line("name", Quoted(target.name)),
    Line("kind", Quoted(target.kind)), Line("host", Quoted(target.host)),
    Line("verified", <<Flag(target.verified)>>),
    Line("enabled", <<Flag(target.enabled)>>)>>

LEMMA SixLinesAreRead ==
  ASSUME NEW s, AllPlain(s), NEW n, n \in 0..(Len(s.targets) - 1),
         NEW target, target = s.targets[n + 1], Plain(target),
         NEW lines, IsSequence(lines), Reading(lines) = Between(s, n)
  PROVE  /\ IsSequence(SixLines(target))
         /\ Reading(lines \o SixLines(target)) =
              InTarget(s, SubSeq(s.targets, 1, n),
                       PartDraft(target, DOMAIN TargetKeys \ {"port"}))
<1> DEFINE targets == SubSeq(s.targets, 1, n)
           d0 == {}
           d1 == d0 \cup {"name"}
           d2 == d1 \cup {"kind"}
           d3 == d2 \cup {"host"}
           d4 == d3 \cup {"verified"}
           d5 == d4 \cup {"enabled"}
           l1 == Header("[[targets]]")
           l2 == Line("name", Quoted(target.name))
           l3 == Line("kind", Quoted(target.kind))
           l4 == Line("host", Quoted(target.host))
           l5 == Line("verified", <<Flag(target.verified)>>)
           l6 == Line("enabled", <<Flag(target.enabled)>>)
           block == <<l1, l2, l3, l4, l5, l6>>
           At(done) == InTarget(s, targets, PartDraft(target, done))
<1>1. /\ IsSequence(target.name) /\ Hash \notin ToSet(target.name)
      /\ IsSequence(target.host) /\ Hash \notin ToSet(target.host)
      /\ IsSequence(target.kind) /\ Hash \notin ToSet(target.kind)
      /\ target.verified \in BOOLEAN /\ target.enabled \in BOOLEAN
  <2>1. target.kind \in {Icmp, Tcp}
    BY DEF Plain, StorableTarget
  <2>2. Icmp \in Seq({"icmp"}) /\ Tcp \in Seq({"tcp"})
    BY DEF Icmp, Tcp
  <2>3. Hash \notin ToSet(Icmp) /\ Hash \notin ToSet(Tcp)
    BY DEF Icmp, Tcp, ToSet, Hash
  <2>4. IsSequence(target.kind) /\ Hash \notin ToSet(target.kind)
    BY <2>1, <2>2, <2>3, Zenon DEF IsSequence
  <2> QED
    BY <2>4, StringsAreSequences DEF Plain, StorableTarget
<1>2. /\ \A key \in {"name", "kind", "host"} : key \in DOMAIN TargetKeys /\ TargetKeys[key] = "text"
      /\ \A key \in {"verified", "enabled"} : key \in DOMAIN TargetKeys /\ TargetKeys[key] = "flag"
      /\ \A key \in {"name", "kind", "host", "verified", "enabled"} : Told(target, key) = {target[key]}
  BY TargetKeysAre DEF Told
<1>3. ASSUME NEW key \in {"name", "kind", "host"}, NEW done,
             IsSequence(target[key]), Hash \notin ToSet(target[key])
      PROVE  ReadLine(At(done), Line(key, Quoted(target[key]))) = At(done \cup {key})
  <2> DEFINE value == Quoted(target[key])
  <2>1. Reads("text", Uncommented(value)) /\ ValueOf("text", Uncommented(value)) = target[key]
    BY <1>3, TextIsRead
  <2> HIDE DEF value
  <2>2. /\ key \in DOMAIN TargetKeys /\ TargetKeys[key] = "text"
        /\ Told(target, key) = {target[key]}
    BY <1>2, <1>3
  <2>3. /\ Reads(TargetKeys[key], Uncommented(value))
        /\ {ValueOf(TargetKeys[key], Uncommented(value))} = Told(target, key)
    BY <2>1, <2>2
  <2> QED
    <3>1. TakesLine(s, targets, target, done, key, value)
      BY <2>2, TargetLinesAreRead, Zenon
    <3> QED
      BY <2>3, <3>1, Zenon DEF value, TakesLine
<1>4. ASSUME NEW key \in {"verified", "enabled"}, NEW done, target[key] \in BOOLEAN
      PROVE  ReadLine(At(done), Line(key, <<Flag(target[key])>>)) = At(done \cup {key})
  <2> DEFINE value == <<Flag(target[key])>>
  <2>1. Reads("flag", Uncommented(value)) /\ ValueOf("flag", Uncommented(value)) = target[key]
    BY <1>4, FlagIsRead
  <2> HIDE DEF value
  <2>2. /\ key \in DOMAIN TargetKeys /\ TargetKeys[key] = "flag"
        /\ Told(target, key) = {target[key]}
    BY <1>2, <1>4
  <2>3. /\ Reads(TargetKeys[key], Uncommented(value))
        /\ {ValueOf(TargetKeys[key], Uncommented(value))} = Told(target, key)
    BY <2>1, <2>2
  <2> QED
    <3>1. TakesLine(s, targets, target, done, key, value)
      BY <2>2, TargetLinesAreRead, Zenon
    <3> QED
      BY <2>3, <3>1, Zenon DEF value, TakesLine
<1>5. ReadLine(Between(s, n), l1) = At(d0)
  <2>1. PartDraft(target, d0) = TargetDraft
    BY DEF PartDraft, TargetDraft
  <2> QED
    BY <2>1, TargetBegins
<1>6. /\ ReadLine(At(d0), l2) = At(d1) /\ ReadLine(At(d1), l3) = At(d2)
      /\ ReadLine(At(d2), l4) = At(d3)
  <2> HIDE DEF At, d0
  <2> QED
    BY <1>1, <1>3
<1>7. ReadLine(At(d3), l5) = At(d4) /\ ReadLine(At(d4), l6) = At(d5)
  <2> HIDE DEF At, d3
  <2> QED
    BY <1>1, <1>4
<1>8. d5 = DOMAIN TargetKeys \ {"port"}
  BY TargetKeysAre
<1>9. SixLines(target) = block
  BY DEF SixLines
<1> HIDE DEF l1, l2, l3, l4, l5, l6, d0, d1, d2, d3, d4, d5, At
<1>10. /\ block \in Seq({l1, l2, l3, l4, l5, l6}) /\ Len(block) = 6
       /\ block[1] = l1 /\ block[2] = l2 /\ block[3] = l3 /\ block[4] = l4
       /\ block[5] = l5 /\ block[6] = l6
  OBVIOUS
<1> HIDE DEF block
<1>11. IsSequence(block)
  BY <1>10, Zenon DEF IsSequence
<1>12. PICK r : /\ r[0] = Reading(lines) /\ r[Len(block)] = Reading(lines \o block)
                /\ \A k \in 1..Len(block) : r[k] = ReadLine(r[k - 1], block[k])
  <2>1. InTurn(lines, block)
    BY <1>11, ReadingBlock, Zenon
  <2> QED
    BY <2>1, Zenon DEF InTurn
<1>13. /\ r[1] = ReadLine(r[0], l1) /\ r[2] = ReadLine(r[1], l2) /\ r[3] = ReadLine(r[2], l3)
       /\ r[4] = ReadLine(r[3], l4) /\ r[5] = ReadLine(r[4], l5) /\ r[6] = ReadLine(r[5], l6)
       /\ r[6] = Reading(lines \o block)
  BY <1>10, <1>12
<1>14. r[6] = At(d5)
  BY <1>5, <1>6, <1>7, <1>12, <1>13
<1> QED
  BY <1>8, <1>9, <1>11, <1>13, <1>14 DEF At

LEMMA TargetIsRead ==
  ASSUME NEW s, AllPlain(s), NEW n, n \in 0..(Len(s.targets) - 1),
         NEW lines, IsSequence(lines), Reading(lines) = Between(s, n)
  PROVE  /\ IsSequence(TargetLines(s.targets[n + 1]))
         /\ Reading(lines \o TargetLines(s.targets[n + 1])) = Between(s, n + 1)
<1> DEFINE target == s.targets[n + 1]
           targets == SubSeq(s.targets, 1, n)
           six == SixLines(target)
           port == Line("port", <<NumeralOf(Only(target.port))>>)
           rest == IF target.kind = Tcp THEN <<port>> ELSE <<>>
           keys == DOMAIN TargetKeys \ {"port"}
<1>1. IsSequence(s.targets)
  BY StringsAreSequences DEF AllPlain, Storable
<1>2. Len(s.targets) \in Nat /\ DOMAIN s.targets = 1..Len(s.targets)
  BY <1>1, LenProperties DEF IsSequence
<1>3. Plain(target)
  BY <1>2 DEF AllPlain
<1>4. IsSequence(six) /\ Reading(lines \o six) = InTarget(s, targets, PartDraft(target, keys))
  BY <1>3, SixLinesAreRead
<1>5. TargetLines(target) = six \o rest
  BY DEF TargetLines, SixLines
<1>6. Between(s, n + 1) = InTarget(s, targets, PartDraft(target, DOMAIN TargetKeys))
  BY <1>2 DEF Between, Complete
<1>7. keys \cup {"port"} = DOMAIN TargetKeys /\ "port" \in DOMAIN TargetKeys
  BY TargetKeysAre
<1>8. CASE target.kind = Icmp
  <2>1. target.port = {}
    BY <1>3, <1>8 DEF Plain, StorableTarget
  <2>2. PartDraft(target, keys) = PartDraft(target, DOMAIN TargetKeys)
    BY <2>1 DEF PartDraft, Told
  <2>3. rest = <<>>
    BY <1>8 DEF Icmp, Tcp
  <2>4. six \o <<>> = six
    BY <1>4, EndIsAppended
  <2> HIDE DEF six, rest, keys, target, targets
  <2> QED
    BY <1>4, <1>5, <1>6, <2>2, <2>3, <2>4 DEF target
<1>9. CASE target.kind = Tcp
  <2>1. PICK number \in Written : number <= MaxPort /\ target.port = {number}
    BY <1>3, <1>9 DEF Plain, StorableTarget
  <2>2. Only(target.port) = number
    BY <2>1, OnlyOne
  <2> DEFINE value == <<NumeralOf(number)>>
  <2>3. port = Line("port", value)
    BY <2>2
  <2>4. /\ Reads("port", Uncommented(value)) /\ ValueOf("port", Uncommented(value)) = number
    BY <2>1, NumberIsRead
  <2> HIDE DEF value, port
  <2>5. ReadLine(InTarget(s, targets, PartDraft(target, keys)), port) =
          InTarget(s, targets, PartDraft(target, DOMAIN TargetKeys))
    <3> HIDE DEF target, targets, keys
    <3>1. TargetKeys["port"] = "port" /\ Told(target, "port") = {number}
      BY <2>1, TargetKeysAre DEF Told
    <3>2. /\ Reads(TargetKeys["port"], Uncommented(value))
          /\ {ValueOf(TargetKeys["port"], Uncommented(value))} = Told(target, "port")
      BY <2>4, <3>1
    <3>3. ReadLine(InTarget(s, targets, PartDraft(target, keys)), Line("port", value)) =
            InTarget(s, targets, PartDraft(target, keys \cup {"port"}))
      <4>1. TakesLine(s, targets, target, keys, "port", value)
        BY <1>7, TargetLinesAreRead, Zenon
      <4> QED
        BY <3>2, <4>1, Zenon DEF TakesLine
    <3> QED
      BY <1>7, <2>3, <3>3
  <2>6. rest = <<port>>
    BY <1>9
  <2> HIDE DEF six, rest, keys, target, targets
  <2>7. six \o <<port>> = Append(six, port) /\ IsSequence(Append(six, port))
    BY <1>4, EndIsAppended, AppendedIsSequence
  <2>8. /\ lines \o Append(six, port) = Append(lines \o six, port)
        /\ IsSequence(lines \o six)
    BY <1>4, JoinedIsSequence
  <2>9. Reading(Append(lines \o six, port)) = ReadLine(Reading(lines \o six), port)
    BY <2>8, ReadingGoesOn, Zenon
  <2> QED
    BY <1>4, <1>5, <1>6, <2>5, <2>6, <2>7, <2>8, <2>9 DEF target
<1>10. target.kind \in {Icmp, Tcp}
  BY <1>3 DEF Plain, StorableTarget
<1> QED
  BY <1>8, <1>9, <1>10

\* What is written for each target.
PerTarget(s) == [i \in DOMAIN s.targets |-> TargetLines(s.targets[i])]
FirstTargets(s, n) == Concat(SubSeq(PerTarget(s), 1, n))

LEMMA TargetsAreRead ==
  ASSUME NEW s, AllPlain(s)
  PROVE  Reading(Beginning(s) \o Concat(PerTarget(s))) = Between(s, Len(s.targets))
<1> DEFINE per == PerTarget(s)
           start == Beginning(s)
           last == Len(s.targets)
           Read(n) == /\ IsSequence(FirstTargets(s, n))
                      /\ Reading(start \o FirstTargets(s, n)) = Between(s, n)
           reached == {n \in Nat : n <= last => Read(n)}
<1>1. IsSequence(s.targets)
  BY StringsAreSequences DEF AllPlain, Storable
<1>2. last \in Nat /\ DOMAIN s.targets = 1..last
  BY <1>1, LenProperties DEF IsSequence
<1>3. /\ IsSequence(per) /\ Len(per) = last
      /\ \A i \in 1..last : per[i] = TargetLines(s.targets[i])
  <2> DEFINE S == {TargetLines(s.targets[i]) : i \in 1..last}
  <2>1. per \in Seq(S) /\ Len(per) = last /\ \A i \in 1..last : per[i] = TargetLines(s.targets[i])
    BY <1>2 DEF PerTarget
  <2> HIDE DEF S
  <2> QED
    BY <2>1, Zenon DEF IsSequence
<1>4. IsSequence(start) /\ Reading(start) = Between(s, 0)
  <2>1. Storable(s)
    BY DEF AllPlain
  <2> QED
    BY <2>1, SectionsAreRead DEF Between
<1> HIDE DEF per, start, last
<1>5. Read(0)
  <2>1. FirstTargets(s, 0) = <<>>
    BY <1>3, PrefixGrows, ConcatGoesOn, Zenon DEF FirstTargets, per
  <2>2. start \o <<>> = start
    BY <1>4, EndIsAppended
  <2> QED
    BY <1>4, <2>1, <2>2, EmptyIsSequence
<1>6. ASSUME NEW n \in Nat, n + 1 <= last, Read(n) PROVE Read(n + 1)
  <2> DEFINE head == FirstTargets(s, n)
             lines == TargetLines(s.targets[n + 1])
  <2>1. n \in 0..(last - 1) /\ n + 1 \in 1..last
    BY <1>2, <1>6
  <2>2. FirstTargets(s, n + 1) = head \o lines
    <3>1. /\ SubSeq(per, 1, n + 1) = Append(SubSeq(per, 1, n), per[n + 1])
          /\ IsSequence(SubSeq(per, 1, n))
      <4>1. n \in 0..(Len(per) - 1) /\ n \in 0..Len(per)
        BY <1>2, <1>3, <2>1
      <4> QED
        BY <1>3, <4>1, PrefixGrows
    <3>2. Concat(Append(SubSeq(per, 1, n), per[n + 1])) = Concat(SubSeq(per, 1, n)) \o per[n + 1]
      BY <3>1, ConcatGoesOn, Zenon
    <3> QED
      BY <1>3, <2>1, <3>1, <3>2, Zenon DEF FirstTargets, per
  <2> HIDE DEF head
  <2>3. IsSequence(head) /\ Reading(start \o head) = Between(s, n)
    BY <1>6 DEF head
  <2>4. IsSequence(start \o head)
    BY <1>4, <2>3, JoinedIsSequence, Zenon
  <2>5. IsSequence(lines) /\ Reading((start \o head) \o lines) = Between(s, n + 1)
    <3> DEFINE so_far == start \o head
    <3> HIDE DEF so_far
    <3>1. IsSequence(so_far) /\ Reading(so_far) = Between(s, n) /\ n \in 0..(Len(s.targets) - 1)
      BY <2>1, <2>3, <2>4 DEF so_far, last
    <3> QED
      BY <3>1, TargetIsRead DEF so_far
  <2> HIDE DEF lines
  <2>6. (start \o head) \o lines = start \o (head \o lines) /\ IsSequence(head \o lines)
    <3>1. IsSequence(head \o lines)
      BY <2>3, <2>5, JoinedIsSequence, Zenon
    <3> QED
      BY <1>4, <2>3, <2>5, <3>1, JoinIsAssociative
  <2> QED
    BY <2>2, <2>5, <2>6, Zenon
<1> HIDE DEF Read
<1>7. 0 \in reached
  BY <1>5
<1>8. ASSUME NEW n \in reached PROVE n + 1 \in reached
  BY <1>2, <1>6, <1>8
<1> HIDE DEF reached
<1>9. reached = Nat
  BY <1>7, <1>8, CountedThrough DEF reached
<1>10. Read(last)
  BY <1>2, <1>9 DEF reached
<1>11. FirstTargets(s, last) = Concat(per)
  <2>1. SubSeq(per, 1, last) = per
    BY <1>3, PrefixGrows
  <2> QED
    BY <2>1 DEF FirstTargets, per
<1> QED
  BY <1>10, <1>11 DEF Read, per, start, last

\* What to_toml writes of settings with a target and without a # in the texts of
\* the targets, parse reads as those settings.
LEMMA FileIsRead ==
  ASSUME NEW s, AllPlain(s), s.targets # <<>>
  PROVE  Parse(ToToml(s)) = [ok |-> TRUE, settings |-> s]
<1>1. ToToml(s) = Beginning(s) \o Concat(PerTarget(s))
  BY DEF ToToml, Beginning, Cadences, Sections, PerTarget
<1>2. IsSequence(s.targets)
  BY StringsAreSequences DEF AllPlain, Storable
<1>3. Len(s.targets) \in Nat /\ Len(s.targets) # 0
  BY <1>2, LenProperties, EmptySeq DEF IsSequence
<1> DEFINE p == TargetPushed(Reading(ToToml(s)))
<1>4. p = Reader(WithTargets(s, SubSeq(s.targets, 1, Len(s.targets))), <<>>, "targets", TRUE, TRUE)
  <2> DEFINE last == Len(s.targets)
  <2>1. last \in 1..Len(s.targets)
    BY <1>3
  <2>2. TargetPushed(Between(s, last)) =
          Reader(WithTargets(s, SubSeq(s.targets, 1, last)), <<>>, "targets", TRUE, TRUE)
    <3> HIDE DEF last
    <3> QED
      BY <2>1, TargetJoins
  <2> QED
    BY <1>1, <2>2, TargetsAreRead, Zenon
<1>5. SubSeq(s.targets, 1, Len(s.targets)) = s.targets
  BY <1>2, PrefixGrows
<1>6. WithTargets(s, s.targets) = s
  <2>1. s = [field \in Fields |-> s[field]]
    BY DEF AllPlain, Storable
  <2>2. [field \in Fields |-> s[field]] = WithTargets(s, s.targets)
    BY DEF WithTargets
  <2> QED
    BY <2>1, <2>2, Zenon
<1> HIDE DEF p
<1>7. p.settings = s /\ p.ok = TRUE
  <2>1. p = Reader(s, <<>>, "targets", TRUE, TRUE)
    BY <1>4, <1>5, <1>6
  <2>2. IsReader(p, s, <<>>, "targets", TRUE, TRUE)
    BY <2>1, ReaderIs, Zenon
  <2> QED
    BY <2>2, Zenon DEF IsReader
<1>8. s.throughput_every >= MIN_CADENCE /\ s.ping_every >= MIN_CADENCE
  BY DEF AllPlain, Storable
<1> DEFINE accepted == p.ok /\ p.settings.throughput_every >= MIN_CADENCE
                            /\ p.settings.ping_every >= MIN_CADENCE
<1>9. Parse(ToToml(s)) = [settings |-> p.settings, ok |-> accepted]
  BY DEF Parse, Reading, p
<1>10. accepted = TRUE
  BY <1>7, <1>8
<1> HIDE DEF accepted
<1> QED
  BY <1>7, <1>9, <1>10

-----------------------------------------------------------------------------
(* ui-settings.toml, line by line.                                          *)

UiWritten(ui, key) ==
  CASE key = "theme"     -> <<Quote, ui.theme, Quote>>
    [] key \in UiFlags   -> <<Flag(ui[key])>>
    [] key \in UiNumbers -> <<NumeralOf(ui[key])>>

LEMMA UiKeysAre ==
  /\ IsSequence(UiKeys) /\ Len(UiKeys) = 10 /\ DOMAIN UiKeys = 1..10
  /\ ToSet(UiKeys) = {UiKeys[i] : i \in 1..10}
  /\ ToSet(UiKeys) = {"theme"} \cup UiFlags \cup UiNumbers
<1> DEFINE keys == {"theme", "autostart", "check_updates", "notify_master",
                    "notify_ping_enabled", "notify_ping_ms", "notify_download_enabled",
                    "notify_download_mbit", "notify_loss_enabled", "notify_loss_pct"}
<1>1. UiKeys \in Seq(keys) /\ Len(UiKeys) = 10
  BY DEF UiKeys
<1>2. DOMAIN UiKeys = 1..10
  BY DEF UiKeys
<1>3. ToSet(UiKeys) = {UiKeys[i] : i \in 1..10}
  BY <1>2 DEF ToSet
<1>4. /\ UiKeys[1] = "theme" /\ UiKeys[2] = "autostart" /\ UiKeys[3] = "check_updates"
      /\ UiKeys[4] = "notify_master" /\ UiKeys[5] = "notify_ping_enabled"
      /\ UiKeys[6] = "notify_ping_ms" /\ UiKeys[7] = "notify_download_enabled"
      /\ UiKeys[8] = "notify_download_mbit" /\ UiKeys[9] = "notify_loss_enabled"
      /\ UiKeys[10] = "notify_loss_pct"
  BY DEF UiKeys
<1>5. ToSet(UiKeys) = keys
  BY <1>3, <1>4
<1>6. keys = {"theme"} \cup UiFlags \cup UiNumbers
  BY DEF UiFlags, UiNumbers
<1> HIDE DEF keys
<1> QED
  BY <1>1, <1>2, <1>3, <1>5, <1>6, Zenon DEF IsSequence

\* What is written for a preference is read as it.
LEMMA UiValueIsRead ==
  ASSUME NEW ui, StorableUi(ui), NEW key \in ToSet(UiKeys)
  PROVE  LET value == UiWritten(ui, key)
         IN  /\ Uncommented(value) = value
             /\ ReadsUi(key, value) /\ UiValueOf(key, value) = ui[key]
<1> DEFINE value == UiWritten(ui, key)
<1>1. CASE key = "theme"
  <2> DEFINE three == <<Quote, ui.theme, Quote>>
             middle == SubSeq(three, 2, Len(three) - 1)
  <2>1. value = three
    BY <1>1 DEF UiWritten, UiFlags, UiNumbers
  <2>2. ui.theme \in Themes
    BY DEF StorableUi
  <2>3. ToSet(three) = {Quote, ui.theme}
    BY DEF ToSet
  <2>4. Hash # Quote /\ Hash \notin Themes
    BY DEF Hash, Quote, Themes
  <2>5. Hash \notin ToSet(three)
    BY <2>2, <2>3, <2>4
  <2>6. Uncommented(three) = three
    BY <2>5, NothingToCut, Zenon
  <2>7. IsText(three)
    <3>1. three \in Seq({Quote, ui.theme}) /\ Len(three) = 3 /\ three[1] = Quote /\ three[3] = Quote
      OBVIOUS
    <3> QED
      BY <3>1 DEF IsText, Last
  <2>8. middle = <<ui.theme>>
    <3> DEFINE S == {Quote, ui.theme}
               one == <<ui.theme>>
    <3>1. /\ three \in Seq(S) /\ Len(three) = 3 /\ three[2] = ui.theme
          /\ one \in Seq(S) /\ Len(one) = 1 /\ one[1] = ui.theme
      OBVIOUS
    <3> HIDE DEF three, one, S
    <3>2. middle \in Seq(S) /\ Len(middle) = 1 /\ middle[1] = three[2]
      <4>1. SubSeq(three, 2, 2) = middle /\ \A i \in 2..2 : three[i] \in S
        <5>1. three[2] \in S /\ Len(three) - 1 = 2
          BY <3>1 DEF S
        <5>2. \A i \in 2..2 : three[i] \in S
          BY <5>1
        <5>3. SubSeq(three, 2, 2) = middle
          BY <5>1, Zenon
        <5> QED
          BY <5>2, <5>3, Zenon
      <4>2. /\ SubSeq(three, 2, 2) \in Seq(S) /\ Len(SubSeq(three, 2, 2)) = 1
            /\ \A i \in 1..1 : SubSeq(three, 2, 2)[i] = three[2 + i - 1]
        BY <4>1, SubSeqProperties
      <4> HIDE DEF middle
      <4> QED
        BY <4>1, <4>2
    <3> HIDE DEF middle
    <3>3. middle = one
      BY <3>1, <3>2, SeqEqual
    <3> QED
      BY <3>3 DEF one
  <2>9. <<ui.theme>> \in {<<t>> : t \in Themes}
    BY <2>2
  <2>10. ReadsUi(key, three)
    <3> HIDE DEF three
    <3>1. SubSeq(three, 2, Len(three) - 1) \in {<<t>> : t \in Themes}
      BY <2>8, <2>9 DEF three
    <3> QED
      BY <1>1, <2>7, <3>1, Zenon DEF ReadsUi
  <2>11. three[2] = ui[key]
    BY <1>1
  <2> HIDE DEF three
  <2>12. UiValueOf(key, three) = three[2]
    BY <1>1 DEF UiValueOf, UiFlags, UiNumbers
  <2> QED
    BY <2>1, <2>6, <2>10, <2>11, <2>12
<1>2. CASE key \in UiFlags
  <2> DEFINE flag == <<Flag(ui[key])>>
  <2>1. key # "theme" /\ key \notin UiNumbers
    BY <1>2 DEF UiFlags, UiNumbers
  <2>2. ui[key] \in BOOLEAN
    BY <1>2 DEF StorableUi
  <2>3. value = flag
    BY <1>2, <2>1 DEF UiWritten
  <2>4. Uncommented(flag) = flag /\ IsFlag(flag) /\ FlagOf(flag) = ui[key]
    <3>1. Hash \notin ToSet(flag)
      <4>1. Flag(ui[key]) \in {"true", "false"}
        BY DEF Flag
      <4>2. ToSet(flag) = {Flag(ui[key])}
        BY DEF ToSet
      <4> QED
        BY <4>1, <4>2 DEF Hash
    <3>2. Uncommented(flag) = flag
      BY <3>1, NothingToCut, Zenon
    <3>3. IsFlag(Uncommented(flag)) /\ FlagOf(Uncommented(flag)) = ui[key]
      BY <2>2, FlagIsRead
    <3> HIDE DEF flag
    <3> QED
      BY <3>2, <3>3
  <2> HIDE DEF flag
  <2>5. ReadsUi(key, flag)
    BY <1>2, <2>4, Zenon DEF ReadsUi
  <2>6. UiValueOf(key, flag) = FlagOf(flag)
    BY <1>2, <2>1 DEF UiValueOf
  <2> QED
    BY <2>3, <2>4, <2>5, <2>6
<1>3. CASE key \in UiNumbers
  <2> DEFINE number == <<NumeralOf(ui[key])>>
  <2>1. key # "theme" /\ key \notin UiFlags
    BY <1>3 DEF UiFlags, UiNumbers
  <2>2. ui[key] \in Written
    BY <1>3 DEF StorableUi
  <2>3. value = number
    BY <1>3, <2>1 DEF UiWritten
  <2>4. Uncommented(number) = number /\ IsNumber(number) /\ NumberOf[number[1]] = ui[key]
    BY <2>2, NumberIsRead
  <2> HIDE DEF number
  <2>5. ReadsUi(key, number)
    BY <1>3, <2>4, Zenon DEF ReadsUi
  <2>6. UiValueOf(key, number) = NumberOf[number[1]]
    BY <1>3, <2>1 DEF UiValueOf
  <2> QED
    BY <2>3, <2>4, <2>5, <2>6
<1> QED
  BY <1>1, <1>2, <1>3, UiKeysAre

\* The preferences when the values of some have been read.
MixedUi(ui, done) ==
  [field \in ToSet(UiKeys) |-> IF field \in done THEN ui[field] ELSE DefaultUi[field]]
UiRead(ui) == [ui |-> ui, ok |-> TRUE]

LEMMA UiLineIsRead ==
  ASSUME NEW ui, StorableUi(ui), NEW done, NEW key \in ToSet(UiKeys)
  PROVE  ReadUiLine(UiRead(MixedUi(ui, done)), Line(key, UiWritten(ui, key))) =
           UiRead(MixedUi(ui, done \cup {key}))
<1> DEFINE value == UiWritten(ui, key)
           line == Line(key, value)
           mixed == MixedUi(ui, done)
           p == UiRead(mixed)
<1>1. Uncommented(value) = value /\ ReadsUi(key, value) /\ UiValueOf(key, value) = ui[key]
  BY UiValueIsRead
<1>2. line.key = key /\ line.value = value
  BY DEF Line
<1>3. p.ok = TRUE /\ p.ui = mixed
  <2> HIDE DEF mixed
  <2> QED
    BY DEF UiRead
<1>4. [mixed EXCEPT ![key] = ui[key]] = MixedUi(ui, done \cup {key})
  BY DEF MixedUi
<1>5. \A new : [p EXCEPT !.ui = new] = UiRead(new)
  <2>1. \A old, ok, new : [[ui |-> old, ok |-> ok] EXCEPT !.ui = new] = [ui |-> new, ok |-> ok]
    OBVIOUS
  <2> HIDE DEF mixed
  <2> QED
    BY <2>1, Zenon DEF UiRead
<1> HIDE DEF value, line, mixed, p
<1>6. ReadUiLine(p, line) = [p EXCEPT !.ui[key] = ui[key]]
  BY <1>1, <1>2, <1>3 DEF ReadUiLine
<1>7. [p EXCEPT !.ui[key] = ui[key]] = [p EXCEPT !.ui = [p.ui EXCEPT ![key] = ui[key]]]
  OBVIOUS
<1>8. [p EXCEPT !.ui[key] = ui[key]] = UiRead([mixed EXCEPT ![key] = ui[key]])
  BY <1>3, <1>5, <1>7
<1> QED
  BY <1>4, <1>6, <1>8 DEF value, line, mixed, p

\* What UiSettings::to_toml writes, UiSettings::parse reads as it was.
LEMMA UiFileIsRead ==
  ASSUME NEW ui, StorableUi(ui)
  PROVE  ParseUi(UiToToml(ui)) = [ok |-> TRUE, ui |-> ui]
<1> DEFINE lines == UiToToml(ui)
           Done(n) == {UiKeys[i] : i \in 1..n}
           Read(n) == ParseUi(SubSeq(lines, 1, n)) = UiRead(MixedUi(ui, Done(n)))
           reached == {n \in Nat : n <= 10 => Read(n)}
<1>1. \A i \in 1..10 : UiKeys[i] \in ToSet(UiKeys)
  BY UiKeysAre
<1>2. /\ IsSequence(lines) /\ Len(lines) = 10
      /\ \A i \in 1..10 : lines[i] = Line(UiKeys[i], UiWritten(ui, UiKeys[i]))
  <2> DEFINE S == {Line(UiKeys[i], UiWritten(ui, UiKeys[i])) : i \in 1..10}
  <2>1. lines = [i \in 1..10 |-> Line(UiKeys[i], UiWritten(ui, UiKeys[i]))]
    BY UiKeysAre, Zenon DEF UiToToml, UiWritten
  <2> HIDE DEF lines
  <2>2. lines \in Seq(S) /\ Len(lines) = 10
    BY <2>1
  <2> HIDE DEF S
  <2>3. IsSequence(lines)
    BY <2>2, Zenon DEF IsSequence
  <2> QED
    BY <2>1, <2>2, <2>3
<1> HIDE DEF lines
<1>3. Read(0)
  <2>1. SubSeq(lines, 1, 0) = <<>>
    BY <1>2, PrefixGrows
  <2>2. MixedUi(ui, Done(0)) = DefaultUi
    <3>1. DefaultUi = [field \in ToSet(UiKeys) |-> DefaultUi[field]]
      BY DefaultsAssumption DEF StorableUi
    <3>2. Done(0) = {}
      OBVIOUS
    <3>3. MixedUi(ui, {}) = [field \in ToSet(UiKeys) |-> DefaultUi[field]]
      BY DEF MixedUi
    <3> QED
      BY <3>1, <3>2, <3>3, Zenon
  <2>3. ParseUi(<<>>) = UiRead(DefaultUi)
    BY UiReadingGoesOn DEF StartOfUi, UiRead
  <2> HIDE DEF Done
  <2> QED
    BY <2>1, <2>2, <2>3, Zenon
<1>4. ASSUME NEW n \in Nat, n + 1 <= 10, Read(n) PROVE Read(n + 1)
  <2> DEFINE key == UiKeys[n + 1]
             head == SubSeq(lines, 1, n)
  <2>1. n \in 0..(Len(lines) - 1) /\ n \in 0..Len(lines) /\ n + 1 \in 1..10
    BY <1>2, <1>4
  <2>2. IsSequence(head) /\ SubSeq(lines, 1, n + 1) = Append(head, lines[n + 1])
    BY <1>2, <2>1, PrefixGrows
  <2>3. lines[n + 1] = Line(key, UiWritten(ui, key)) /\ key \in ToSet(UiKeys)
    BY <1>1, <1>2, <2>1
  <2>4. Done(n) \cup {key} = Done(n + 1)
    BY <2>1
  <2>5. ParseUi(head) = UiRead(MixedUi(ui, Done(n)))
    BY <1>4
  <2> HIDE DEF head, key, Done
  <2>6. ParseUi(Append(head, lines[n + 1])) = ReadUiLine(ParseUi(head), lines[n + 1])
    BY <2>2, UiReadingGoesOn, Zenon
  <2>7. ReadUiLine(UiRead(MixedUi(ui, Done(n))), Line(key, UiWritten(ui, key))) =
          UiRead(MixedUi(ui, Done(n) \cup {key}))
    BY <2>3, UiLineIsRead
  <2> QED
    BY <2>2, <2>3, <2>4, <2>5, <2>6, <2>7
<1> HIDE DEF Read
<1>5. 0 \in reached
  BY <1>3
<1>6. ASSUME NEW n \in reached PROVE n + 1 \in reached
  BY <1>4, <1>6
<1> HIDE DEF reached
<1>7. reached = Nat
  BY <1>5, <1>6, CountedThrough DEF reached
<1>8. Read(10)
  BY <1>7 DEF reached
<1>9. SubSeq(lines, 1, 10) = lines
  BY <1>2, PrefixGrows
<1>10. Done(10) = ToSet(UiKeys)
  BY UiKeysAre
<1>11. MixedUi(ui, ToSet(UiKeys)) = ui
  <2>1. ui = [field \in ToSet(UiKeys) |-> ui[field]]
    BY DEF StorableUi
  <2>2. MixedUi(ui, ToSet(UiKeys)) = [field \in ToSet(UiKeys) |-> ui[field]]
    BY DEF MixedUi
  <2> QED
    BY <2>1, <2>2, Zenon
<1>12. ParseUi(lines) = UiRead(MixedUi(ui, ToSet(UiKeys)))
  <2>1. ParseUi(SubSeq(lines, 1, 10)) = UiRead(MixedUi(ui, Done(10)))
    BY <1>8 DEF Read
  <2> HIDE DEF Done
  <2> QED
    BY <1>9, <1>10, <2>1
<1>13. ParseUi(lines) = UiRead(ui)
  BY <1>11, <1>12, Zenon
<1> QED
  BY <1>13 DEF lines, UiRead

-----------------------------------------------------------------------------
(* Any file: what is read of it can be written again.                       *)

\* What a field can hold.
Fits(field, value) ==
  /\ field \in {"throughput_every", "ping_every", "raw_ping_retention_days"} => value \in Written
  /\ field = "daily_budget_bytes" => value \in {{}} \cup {{n} : n \in Written}
  /\ field \in {"download_url", "upload_url"} => IsString(value) /\ Hash \notin ToSet(value)
  /\ field \in {"download", "upload", "ping"} => value \in BOOLEAN
  /\ field = "targets" => /\ IsString(value)
                          /\ \A target \in ToSet(value) : StorableTarget(target)

\* Storable, but for the least cadence.
Valued(s) ==
  s = [field \in Fields |-> s[field]] /\ \A field \in Fields : Fits(field, s[field])

LEMMA StorableIs ==
  \A s : Storable(s) <=>
           Valued(s) /\ s.throughput_every >= MIN_CADENCE /\ s.ping_every >= MIN_CADENCE
<1>1. ASSUME NEW s, Storable(s)
      PROVE  Valued(s) /\ s.throughput_every >= MIN_CADENCE /\ s.ping_every >= MIN_CADENCE
  <2>1. s.throughput_every >= MIN_CADENCE /\ s.ping_every >= MIN_CADENCE
    BY <1>1 DEF Storable
  <2>2. s = [field \in Fields |-> s[field]]
    BY <1>1 DEF Storable
  <2>3. \A field \in Fields : Fits(field, s[field])
    BY <1>1 DEF Storable, Fits, Fields
  <2> QED
    BY <2>1, <2>2, <2>3, Zenon DEF Valued
<1>2. ASSUME NEW s, Valued(s), s.throughput_every >= MIN_CADENCE, s.ping_every >= MIN_CADENCE
      PROVE  Storable(s)
  <2>1. s = [field \in Fields |-> s[field]]
    BY <1>2 DEF Valued
  <2>2. \A field \in Fields : Fits(field, s[field])
    BY <1>2 DEF Valued
  <2>3. /\ s.throughput_every \in Written /\ s.ping_every \in Written
        /\ s.raw_ping_retention_days \in Written
        /\ s.daily_budget_bytes \in {{}} \cup {{n} : n \in Written}
        /\ \A field \in {"download_url", "upload_url"} :
             IsString(s[field]) /\ Hash \notin ToSet(s[field])
        /\ \A field \in {"download", "upload", "ping"} : s[field] \in BOOLEAN
        /\ IsString(s.targets) /\ \A target \in ToSet(s.targets) : StorableTarget(target)
    BY <2>2 DEF Fits, Fields
  <2>4. \A field \in {"throughput_every", "ping_every"} :
          s[field] \in Written /\ s[field] >= MIN_CADENCE
    BY <1>2, <2>3
  <2> QED
    BY <2>1, <2>3, <2>4, Zenon DEF Storable
<1> QED
  BY <1>1, <1>2, Zenon

\* One field is changed.
LEMMA FieldChanged ==
  ASSUME NEW s, Valued(s), NEW field \in Fields, NEW value, Fits(field, value)
  PROVE  /\ Valued([s EXCEPT ![field] = value])
         /\ \A other \in Fields :
              [s EXCEPT ![field] = value][other] = IF other = field THEN value ELSE s[other]
<1> DEFINE t == [s EXCEPT ![field] = value]
<1>1. s = [other \in Fields |-> s[other]] /\ \A other \in Fields : Fits(other, s[other])
  BY DEF Valued
<1>2. DOMAIN s = Fields
  BY <1>1
<1>3. \A other \in Fields : t[other] = IF other = field THEN value ELSE s[other]
  BY <1>2
<1>4. t = [other \in Fields |-> t[other]]
  BY <1>2
<1> HIDE DEF t
<1>5. \A other \in Fields : Fits(other, t[other])
  BY <1>1, <1>3
<1> QED
  BY <1>3, <1>4, <1>5, Zenon DEF Valued, t

\* What is read of a value is of the type that is read.
LEMMA ReadIsOfType ==
  ASSUME NEW value, IsSequence(value), Hash \notin ToSet(value)
  PROVE  /\ Reads("text", value) =>
              IsSequence(ValueOf("text", value)) /\ Hash \notin ToSet(ValueOf("text", value))
         /\ Reads("flag", value) => ValueOf("flag", value) \in BOOLEAN
         /\ Reads("number", value) => ValueOf("number", value) \in Written
         /\ Reads("port", value) =>
              ValueOf("port", value) \in Written /\ ValueOf("port", value) <= MaxPort
         /\ Reads("budget", value) =>
              ValueOf("budget", value) \in {{}} \cup {{n} : n \in Written}
<1>1. Reads("text", value) =>
        IsSequence(ValueOf("text", value)) /\ Hash \notin ToSet(ValueOf("text", value))
  <2> SUFFICES ASSUME Reads("text", value)
               PROVE  IsSequence(ValueOf("text", value)) /\ Hash \notin ToSet(ValueOf("text", value))
    OBVIOUS
  <2> DEFINE S == ToSet(value)
             between == SubSeq(value, 2, Len(value) - 1)
  <2>1. value \in Seq(S)
    BY StringsAreSequences DEF IsString
  <2>2. Len(value) \in Nat
    BY <2>1, LenProperties
  <2> HIDE DEF S
  <2>3. \A i \in 2..(Len(value) - 1) : value[i] \in S
    BY <2>1, <2>2, ElementOfSeq
  <2>4. between \in Seq(S)
    BY <2>2, <2>3, SubSeqProperties
  <2> HIDE DEF between
  <2>5. Unescape(between) \in Seq(S)
    BY <2>4, UnescapeIsSequence
  <2>6. ValueOf("text", value) = Unescape(between)
    BY DEF ValueOf, TextOf, between
  <2>7. ToSet(Unescape(between)) \subseteq S
    <3>1. /\ Len(Unescape(between)) \in Nat
          /\ DOMAIN Unescape(between) = 1..Len(Unescape(between))
      BY <2>5, LenProperties
    <3>2. \A i \in 1..Len(Unescape(between)) : Unescape(between)[i] \in S
      BY <2>5, <3>1, ElementOfSeq
    <3> QED
      BY <3>1, <3>2 DEF ToSet
  <2>8. Hash \notin S
    BY DEF S
  <2> QED
    BY <2>5, <2>6, <2>7, <2>8, Zenon DEF IsSequence
<1>2. Reads("flag", value) => ValueOf("flag", value) \in BOOLEAN
  BY DEF ValueOf, FlagOf
<1>3. IsNumber(value) => NumberOf[value[1]] \in Written
  BY DEF IsNumber, Written
<1>4. Reads("number", value) => ValueOf("number", value) \in Written
  BY <1>3 DEF Reads, ValueOf
<1>5. Reads("port", value) =>
        ValueOf("port", value) \in Written /\ ValueOf("port", value) <= MaxPort
  BY <1>3 DEF Reads, ValueOf
<1>6. Reads("budget", value) => ValueOf("budget", value) \in {{}} \cup {{n} : n \in Written}
  <2> SUFFICES ASSUME Reads("budget", value)
               PROVE  ValueOf("budget", value) \in {{}} \cup {{n} : n \in Written}
    OBVIOUS
  <2>1. IsNumber(value) \/ value = <<"none">>
    BY DEF Reads
  <2>2. ValueOf("budget", value) = IF value = <<"none">> THEN {} ELSE {NumberOf[value[1]]}
    BY DEF ValueOf
  <2> QED
    BY <1>3, <2>1, <2>2
<1> QED
  BY <1>1, <1>2, <1>4, <1>5, <1>6

\* The keys of the interval, and the types of the keys.
IntervalKeys == {"interval_seconds", "throughput_every_seconds"}
TypeFits(row) ==
  /\ row[3] \in Fields /\ row[3] # "targets"
  /\ row[4] \in {"text", "flag", "number", "budget"}
  /\ row[4] = "text" => row[3] \in {"download_url", "upload_url"}
  /\ row[4] = "flag" => row[3] \in {"download", "upload", "ping"}
  /\ row[4] = "number" =>
       row[3] \in {"throughput_every", "ping_every", "raw_ping_retention_days"}
  /\ row[4] = "budget" => row[3] = "daily_budget_bytes"
  /\ row[3] = "throughput_every" =>
       row[4] = "number" /\ row[2] \in IntervalKeys

LEMMA TypesFit == \A row \in TopLevel : TypeFits(row)
<1>1. /\ TypeFits(<<Outside, "interval_seconds", "throughput_every", "number">>)
      /\ TypeFits(<<Outside, "throughput_every_seconds", "throughput_every", "number">>)
      /\ TypeFits(<<Outside, "ping_every_seconds", "ping_every", "number">>)
      /\ TypeFits(<<Outside, "daily_budget_bytes", "daily_budget_bytes", "budget">>)
      /\ TypeFits(<<Outside, "raw_ping_retention_days", "raw_ping_retention_days", "number">>)
      /\ TypeFits(<<"endpoints", "download_url", "download_url", "text">>)
      /\ TypeFits(<<"endpoints", "upload_url", "upload_url", "text">>)
      /\ TypeFits(<<"metrics", "download", "download", "flag">>)
      /\ TypeFits(<<"metrics", "upload", "upload", "flag">>)
      /\ TypeFits(<<"metrics", "ping", "ping", "flag">>)
  BY SMT DEF TypeFits, Fields, IntervalKeys
<1> QED
  BY <1>1, Zenon DEF TopLevel, Outside

LEMMA ValueFits ==
  ASSUME NEW row, TypeFits(row), NEW value, IsSequence(value), Hash \notin ToSet(value),
         Reads(row[4], value)
  PROVE  Fits(row[3], ValueOf(row[4], value))
<1> DEFINE read == ValueOf(row[4], value)
<1>1. /\ row[4] = "text" => IsString(read) /\ Hash \notin ToSet(read)
      /\ row[4] = "flag" => read \in BOOLEAN
      /\ row[4] = "number" => read \in Written
      /\ row[4] = "budget" => read \in {{}} \cup {{n} : n \in Written}
  BY ReadIsOfType, StringsAreSequences
<1> HIDE DEF read
<1> QED
  BY <1>1 DEF TypeFits, Fits, read

\* A file names an interval in a line of its own, and there it is n.
TellsInterval(line, n) ==
  /\ IsSequence(line.value)
  /\ line.key \in IntervalKeys => line.value = <<NumeralOf(n)>>

\* The reader in the middle of a file that tells the interval n.
ReadsDraft(draft) ==
  /\ DOMAIN draft = DOMAIN TargetKeys
  /\ \A key \in {"name", "host"} :
       draft[key] = {} \/ \E text : IsString(text) /\ draft[key] = {text}
  /\ draft.port = {} \/ \E n \in Written : n <= MaxPort /\ draft.port = {n}
ReadsWell(p, n) ==
  /\ DOMAIN p = {"settings", "current", "section", "target_section_seen", "ok"}
  /\ Valued(p.settings)
  /\ p.settings.throughput_every \in {DefaultSettings.throughput_every, n}
  /\ p.current = <<>> \/ (1 \in DOMAIN p.current /\ ReadsDraft(p.current[1]))

LEMMA StartReadsWell == \A n : ReadsWell(StartOfFile, n)
<1>1. Valued(DefaultSettings)
  BY DefaultsAssumption, StorableIs
<1> QED
  BY <1>1 DEF StartOfFile, ReadsWell

LEMMA RefusedReadsWell ==
  ASSUME NEW p, NEW n, ReadsWell(p, n)
  PROVE  ReadsWell(Refused(p), n)
<1> DEFINE q == [p EXCEPT !.ok = FALSE]
<1>1. /\ DOMAIN q = DOMAIN p /\ q.settings = p.settings /\ q.current = p.current
  BY DEF ReadsWell
<1> HIDE DEF q
<1>2. ReadsWell(q, n)
  BY <1>1, Zenon DEF ReadsWell
<1> QED
  BY <1>2 DEF Refused, q

\* A draft that is finished is a target that can be written again.
LEMMA FinishedIsStorable ==
  ASSUME NEW draft, ReadsDraft(draft), Finishes(draft)
  PROVE  StorableTarget(Finished(draft))
<1> DEFINE target == Finished(draft)
<1>1. /\ target = [key \in DOMAIN TargetKeys |-> target[key]]
      /\ target.name = Only(draft.name) /\ target.host = Only(draft.host)
      /\ target.kind = Only(draft.kind)
      /\ target.port = IF draft.kind = {Tcp} THEN draft.port ELSE {}
  BY TargetKeysAre DEF Finished
<1>2. target.verified \in BOOLEAN /\ target.enabled \in BOOLEAN
  BY DEF Finished
<1>3. draft.kind = {Icmp} \/ draft.kind = {Tcp}
  BY DEF Finishes
<1>4. Icmp # Tcp
  BY DEF Icmp, Tcp
<1> HIDE DEF target
<1>5. IsString(target.name) /\ IsString(target.host)
  <2>1. ASSUME NEW key \in {"name", "host"} PROVE IsString(Only(draft[key]))
    <3>1. PICK text : IsString(text) /\ draft[key] = {text}
      BY DEF ReadsDraft, Finishes
    <3> QED
      BY <3>1, OnlyOne
  <2> QED
    BY <1>1, <2>1
<1>6. target.kind \in {Icmp, Tcp}
  BY <1>1, <1>3, OnlyOne
<1>7. target.kind = Icmp => target.port = {}
  <2>1. target.kind = Icmp => draft.kind # {Tcp}
    BY <1>1, <1>4, OnlyOne
  <2> QED
    BY <1>1, <2>1
<1>8. target.kind = Tcp => \E n \in Written : n <= MaxPort /\ target.port = {n}
  <2>1. target.kind = Tcp => draft.kind = {Tcp}
    BY <1>1, <1>3, <1>4, OnlyOne
  <2>2. draft.kind = {Tcp} => draft.port # {}
    BY DEF Finishes
  <2> QED
    BY <1>1, <2>1, <2>2, Zenon DEF ReadsDraft
<1> QED
  BY <1>1, <1>2, <1>5, <1>6, <1>7, <1>8, Zenon DEF StorableTarget, target

\* One target more.
LEMMA TargetsFit ==
  ASSUME NEW targets, Fits("targets", targets), NEW target, StorableTarget(target)
  PROVE  Fits("targets", Append(targets, target)) /\ Fits("targets", <<>>)
<1> DEFINE longer == Append(targets, target)
<1>1. IsSequence(targets) /\ \A t \in ToSet(targets) : StorableTarget(t)
  BY StringsAreSequences DEF Fits
<1>2. /\ IsSequence(longer)
      /\ Len(targets) \in Nat /\ DOMAIN targets = 1..Len(targets)
      /\ Len(longer) = Len(targets) + 1
      /\ \A i \in 1..Len(targets) : longer[i] = targets[i]
      /\ longer[Len(targets) + 1] = target
  BY <1>1, AppendedIsSequence
<1> HIDE DEF longer
<1>3. DOMAIN longer = 1..(Len(targets) + 1)
  BY <1>2, LenProperties DEF IsSequence
<1>4. \A i \in 1..(Len(targets) + 1) : i \in 1..Len(targets) \/ i = Len(targets) + 1
  BY <1>2
<1>5. \A i \in 1..Len(targets) : targets[i] \in ToSet(targets)
  BY <1>2 DEF ToSet
<1>6. \A i \in 1..(Len(targets) + 1) : StorableTarget(longer[i])
  BY <1>1, <1>2, <1>4, <1>5, Zenon
<1>7. \A t \in ToSet(longer) : StorableTarget(t)
  BY <1>3, <1>6 DEF ToSet
<1>8. IsString(<<>>) /\ ToSet(<<>>) = {}
  BY DEF IsString, ToSet
<1>9. IsString(longer)
  BY <1>2, StringsAreSequences
<1> QED
  BY <1>7, <1>8, <1>9 DEF Fits, longer

LEMMA PushedReadsWell ==
  ASSUME NEW p, NEW n, ReadsWell(p, n)
  PROVE  ReadsWell(TargetPushed(p), n)
<1>1. CASE p.current = <<>>
  BY <1>1 DEF TargetPushed
<1>2. CASE p.current # <<>> /\ ~Finishes(p.current[1])
  BY <1>2, RefusedReadsWell DEF TargetPushed
<1>3. CASE p.current # <<>> /\ Finishes(p.current[1])
  <2> DEFINE target == Finished(p.current[1])
             targets == Append(p.settings.targets, target)
             s == [p.settings EXCEPT !.targets = targets]
             q == [p EXCEPT !.settings.targets = targets, !.current = <<>>]
  <2>1. StorableTarget(target)
    BY <1>3, FinishedIsStorable DEF ReadsWell
  <2> HIDE DEF target
  <2>2. Fits("targets", targets)
    <3>1. Fits("targets", p.settings.targets)
      BY DEF ReadsWell, Valued, Fields
    <3> QED
      BY <2>1, <3>1, TargetsFit
  <2> HIDE DEF targets
  <2>3. Valued(s) /\ s.throughput_every = p.settings.throughput_every
    <3>1. "targets" \in Fields /\ "throughput_every" \in Fields /\ Valued(p.settings)
      BY DEF Fields, ReadsWell
    <3> QED
      BY <2>2, <3>1, FieldChanged
  <2>4. DOMAIN q = DOMAIN p /\ q.settings = s /\ q.current = <<>>
    BY DEF ReadsWell
  <2>5. TargetPushed(p) = q
    BY <1>3 DEF TargetPushed, targets, target
  <2> HIDE DEF q, s
  <2>6. ReadsWell(q, n)
    BY <2>3, <2>4, Zenon DEF ReadsWell
  <2> QED
    BY <2>5, <2>6
<1> QED
  BY <1>1, <1>2, <1>3

LEMMA NewTargetReadsWell ==
  ASSUME NEW p, NEW n, ReadsWell(p, n)
  PROVE  ReadsWell(NewTarget(p), n)
<1> DEFINE emptied == [p EXCEPT !.settings.targets = <<>>]
           q == IF p.target_section_seen THEN p ELSE emptied
           pushed == TargetPushed(q)
           r == [pushed EXCEPT !.current = <<TargetDraft>>, !.section = "targets",
                               !.target_section_seen = TRUE]
<1>1. ReadsWell(emptied, n)
  <2> DEFINE s == [p.settings EXCEPT !.targets = <<>>]
  <2>1. Valued(s) /\ s.throughput_every = p.settings.throughput_every
    <3>1. "targets" \in Fields /\ "throughput_every" \in Fields /\ Valued(p.settings)
      BY DEF Fields, ReadsWell
    <3>2. Fits("targets", <<>>)
      BY EmptyIsSequence, StringsAreSequences DEF Fits, ToSet
    <3> QED
      BY <3>1, <3>2, FieldChanged
  <2>2. DOMAIN emptied = DOMAIN p /\ emptied.settings = s /\ emptied.current = p.current
    BY DEF ReadsWell
  <2> HIDE DEF s, emptied
  <2> QED
    BY <2>1, <2>2, Zenon DEF ReadsWell
<1> HIDE DEF emptied
<1>2. ReadsWell(q, n)
  BY <1>1
<1> HIDE DEF q
<1>3. ReadsWell(pushed, n)
  BY <1>2, PushedReadsWell
<1> HIDE DEF pushed
<1>4. ReadsDraft(TargetDraft)
  BY TargetKeysAre DEF ReadsDraft, TargetDraft
<1>5. DOMAIN r = DOMAIN pushed /\ r.settings = pushed.settings /\ r.current = <<TargetDraft>>
  BY <1>3 DEF ReadsWell
<1>6. 1 \in DOMAIN <<TargetDraft>> /\ <<TargetDraft>>[1] = TargetDraft
  OBVIOUS
<1> HIDE DEF r
<1>7. ReadsWell(r, n)
  BY <1>3, <1>4, <1>5, <1>6, Zenon DEF ReadsWell
<1> QED
  BY <1>7 DEF NewTarget, r, pushed, q, emptied

LEMMA SetTargetReadsWell ==
  ASSUME NEW p, NEW n, ReadsWell(p, n), NEW key, NEW value,
         IsSequence(value), Hash \notin ToSet(value)
  PROVE  ReadsWell(SetTarget(p, key, value), n)
<1> DEFINE read == {ValueOf(TargetKeys[key], value)}
           draft == [p.current[1] EXCEPT ![key] = read]
           q == [p EXCEPT !.current[1][key] = read]
<1>1. CASE ~(p.current # <<>> /\ key \in DOMAIN TargetKeys /\ Reads(TargetKeys[key], value))
  BY <1>1, RefusedReadsWell DEF SetTarget
<1>2. CASE p.current # <<>> /\ key \in DOMAIN TargetKeys /\ Reads(TargetKeys[key], value)
  <2>1. 1 \in DOMAIN p.current /\ ReadsDraft(p.current[1])
    BY <1>2 DEF ReadsWell
  <2>2. key = "port" => \E number \in Written : number <= MaxPort /\ read = {number}
    BY <1>2, ReadIsOfType, TargetKeysAre
  <2>3. key \in {"name", "host"} => \E text : IsString(text) /\ read = {text}
    <3>1. key \in {"name", "host"} => TargetKeys[key] = "text"
      BY TargetKeysAre
    <3> QED
      BY <1>2, <3>1, ReadIsOfType, StringsAreSequences
  <2> HIDE DEF read
  <2>4. ReadsDraft(draft)
    <3>1. /\ DOMAIN draft = DOMAIN TargetKeys
          /\ \A other \in DOMAIN TargetKeys :
               draft[other] = IF other = key THEN read ELSE p.current[1][other]
      BY <2>1 DEF ReadsDraft
    <3> HIDE DEF draft
    <3>2. \A other \in {"name", "host"} :
            draft[other] = {} \/ \E text : IsString(text) /\ draft[other] = {text}
      BY <2>1, <2>3, <3>1, TargetKeysAre DEF ReadsDraft
    <3>3. draft.port = {} \/ \E number \in Written : number <= MaxPort /\ draft.port = {number}
      BY <2>1, <2>2, <3>1, TargetKeysAre DEF ReadsDraft
    <3> QED
      BY <3>1, <3>2, <3>3, Zenon DEF ReadsDraft
  <2>5. /\ DOMAIN q = DOMAIN p /\ q.settings = p.settings
        /\ q.current = [p.current EXCEPT ![1] = draft]
    BY DEF ReadsWell
  <2> HIDE DEF draft
  <2>6. 1 \in DOMAIN q.current /\ q.current[1] = draft
    BY <2>1, <2>5
  <2>7. SetTarget(p, key, value) = q
    BY <1>2 DEF SetTarget, read
  <2> HIDE DEF q
  <2>8. ReadsWell(q, n)
    BY <2>4, <2>5, <2>6, Zenon DEF ReadsWell
  <2> QED
    BY <2>7, <2>8
<1> QED
  BY <1>1, <1>2

LEMMA ApplyTopLevelReadsWell ==
  ASSUME NEW p, NEW n, ReadsWell(p, n), n \in Written, NEW key, NEW value,
         IsSequence(value), Hash \notin ToSet(value),
         key \in IntervalKeys => value = <<NumeralOf(n)>>
  PROVE  ReadsWell(ApplyTopLevel(p, key, value), n)
<1> DEFINE entries == {e \in TopLevel : e[1] = p.section /\ e[2] = key /\ Reads(e[4], value)}
           entry == Only(entries)
           read == ValueOf(entry[4], value)
           s == [p.settings EXCEPT ![entry[3]] = read]
           q == [p EXCEPT !.settings[entry[3]] = read]
<1>1. CASE entries = {}
  BY <1>1, RefusedReadsWell DEF ApplyTopLevel
<1>2. CASE entries # {}
  <2>1. entry \in TopLevel /\ entry[2] = key /\ Reads(entry[4], value)
    <3> HIDE DEF entries
    <3>1. entry \in entries
      BY <1>2 DEF Only
    <3> QED
      BY <3>1 DEF entries
  <2> HIDE DEF entries
  <2> DEFINE e == entry
  <2> HIDE DEF entry
  <2>2. TypeFits(e)
    BY <2>1, TypesFit
  <2>3. e[3] = "throughput_every" => read = n
    <3> SUFFICES ASSUME e[3] = "throughput_every" PROVE read = n
      OBVIOUS
    <3>1. value = <<NumeralOf(n)>> /\ entry[4] = "number"
      BY <2>1, <2>2 DEF TypeFits
    <3>2. ValueOf("number", <<NumeralOf(n)>>) = n
      BY NumberIsRead
    <3> QED
      BY <3>1, <3>2, Zenon
  <2>4. Fits(e[3], read)
    BY <2>1, <2>2, ValueFits
  <2> HIDE DEF read
  <2>5. /\ Valued(s)
        /\ s.throughput_every = IF e[3] = "throughput_every" THEN read
                                ELSE p.settings.throughput_every
    <3>1. e[3] \in Fields /\ "throughput_every" \in Fields /\ Valued(p.settings)
      BY <2>2 DEF TypeFits, ReadsWell, Fields
    <3> QED
      BY <2>4, <3>1, FieldChanged
  <2>6. DOMAIN q = DOMAIN p /\ q.settings = s /\ q.current = p.current
    BY DEF ReadsWell
  <2>7. ApplyTopLevel(p, key, value) = q
    BY <1>2 DEF ApplyTopLevel, entries, entry, read
  <2> HIDE DEF s, q
  <2>8. s.throughput_every \in {DefaultSettings.throughput_every, n}
    BY <2>3, <2>5 DEF ReadsWell
  <2>9. ReadsWell(q, n)
    BY <2>5, <2>6, <2>8, Zenon DEF ReadsWell
  <2> QED
    BY <2>7, <2>9
<1> QED
  BY <1>1, <1>2

LEMMA LineReadsWell ==
  ASSUME NEW p, NEW n, ReadsWell(p, n), n \in Written, NEW line, TellsInterval(line, n)
  PROVE  ReadsWell(ReadLine(p, line), n)
<1> DEFINE value == Uncommented(line.value)
<1>1. IsSequence(value) /\ Hash \notin ToSet(value)
  <2>1. PICK S : line.value \in Seq(S)
    BY DEF TellsInterval, IsSequence
  <2>2. value \in Seq(S) /\ Hash \notin ToSet(value)
    BY <2>1, CutHasNoHash
  <2> HIDE DEF value
  <2> QED
    BY <2>2, Zenon DEF IsSequence
<1>2. line.key \in IntervalKeys => value = <<NumeralOf(n)>>
  <2>1. Uncommented(<<NumeralOf(n)>>) = <<NumeralOf(n)>>
    BY NumberIsRead
  <2> QED
    BY <2>1, Zenon DEF TellsInterval
<1>3. CASE ~p.ok
  BY <1>3 DEF ReadLine
<1>4. CASE p.ok /\ line.key = "[[targets]]"
  <2>1. ReadLine(p, line) = NewTarget(p)
    BY <1>4 DEF ReadLine, Headers
  <2> QED
    BY <2>1, NewTargetReadsWell
<1>5. CASE p.ok /\ line.key \in Headers \ {"[[targets]]"}
  <2> DEFINE pushed == TargetPushed(p)
             q == [pushed EXCEPT !.section = SectionOf(line.key)]
  <2>1. ReadsWell(pushed, n)
    BY PushedReadsWell
  <2> HIDE DEF pushed
  <2>2. DOMAIN q = DOMAIN pushed /\ q.settings = pushed.settings /\ q.current = pushed.current
    BY <2>1 DEF ReadsWell
  <2>3. ReadLine(p, line) = q
    BY <1>5 DEF ReadLine, pushed
  <2> HIDE DEF q
  <2>4. ReadsWell(q, n)
    BY <2>1, <2>2, Zenon DEF ReadsWell
  <2> QED
    BY <2>3, <2>4
<1>6. CASE p.ok /\ line.key \notin Headers /\ p.section = "targets"
  <2>1. ReadLine(p, line) = SetTarget(p, line.key, value)
    BY <1>6 DEF ReadLine, Headers
  <2> HIDE DEF value
  <2> QED
    BY <1>1, <2>1, SetTargetReadsWell
<1>7. CASE p.ok /\ line.key \notin Headers /\ p.section # "targets"
  <2>1. ReadLine(p, line) = ApplyTopLevel(p, line.key, value)
    BY <1>7 DEF ReadLine, Headers
  <2> HIDE DEF value
  <2> QED
    BY <1>1, <1>2, <2>1, ApplyTopLevelReadsWell
<1> QED
  BY <1>3, <1>4, <1>5, <1>6, <1>7, Zenon

\* Every line that is written tells the interval, if any.
TellsOf(lines, n) ==
  \E S : lines \in Seq(S) /\ \A line \in S : TellsInterval(line, n)

LEMMA TellsTogether ==
  ASSUME NEW f, NEW g, NEW n, TellsOf(f, n), TellsOf(g, n)
  PROVE  TellsOf(f \o g, n)
<1>1. PICK S : f \in Seq(S) /\ \A line \in S : TellsInterval(line, n)
  BY Zenon DEF TellsOf
<1>2. PICK T : g \in Seq(T) /\ \A line \in T : TellsInterval(line, n)
  BY Zenon DEF TellsOf
<1>3. f \in Seq(S \cup T) /\ g \in Seq(S \cup T)
  BY <1>1, <1>2, SeqMonotonic, Zenon
<1>4. f \o g \in Seq(S \cup T)
  BY <1>3, ConcatProperties, Zenon
<1>5. \A line \in S \cup T : TellsInterval(line, n)
  BY <1>1, <1>2, Zenon
<1> QED
  BY <1>4, <1>5, Zenon DEF TellsOf

LEMMA OtherLineTells ==
  ASSUME NEW key, key \notin IntervalKeys, NEW value, IsSequence(value), NEW n
  PROVE  TellsInterval(Line(key, value), n)
BY DEF TellsInterval, Line

LEMMA OneValueIsSequence == \A x : IsSequence(<<x>>)
<1>1. ASSUME NEW x PROVE <<x>> \in Seq({x})
  OBVIOUS
<1> QED
  BY <1>1, Zenon DEF IsSequence

LEMMA TargetTells ==
  ASSUME NEW target, StorableTarget(target), NEW n
  PROVE  TellsOf(TargetLines(target), n)
<1> DEFINE l1 == Header("[[targets]]")
           l2 == Line("name", Quoted(target.name))
           l3 == Line("kind", Quoted(target.kind))
           l4 == Line("host", Quoted(target.host))
           l5 == Line("verified", <<Flag(target.verified)>>)
           l6 == Line("enabled", <<Flag(target.enabled)>>)
           l7 == Line("port", <<NumeralOf(Only(target.port))>>)
           S == {l1, l2, l3, l4, l5, l6, l7}
           six == <<l1, l2, l3, l4, l5, l6>>
           rest == IF target.kind = Tcp THEN <<l7>> ELSE <<>>
<1>1. TargetLines(target) = six \o rest
  BY DEF TargetLines
<1>2. IsSequence(target.name) /\ IsSequence(target.kind) /\ IsSequence(target.host)
  <2>1. target.kind \in {Icmp, Tcp}
    BY DEF StorableTarget
  <2>2. IsSequence(Icmp) /\ IsSequence(Tcp)
    BY OneValueIsSequence DEF Icmp, Tcp
  <2> QED
    BY <2>1, <2>2, StringsAreSequences DEF StorableTarget
<1>3. {"[[targets]]", "name", "kind", "host", "verified", "enabled", "port"} \cap IntervalKeys = {}
  BY DEF IntervalKeys
<1>4. /\ IsSequence(<<>>) /\ IsSequence(Quoted(target.name)) /\ IsSequence(Quoted(target.kind))
      /\ IsSequence(Quoted(target.host))
  BY <1>2, BetweenQuotes, EmptyIsSequence
<1>5. /\ TellsInterval(l1, n) /\ TellsInterval(l2, n) /\ TellsInterval(l3, n)
      /\ TellsInterval(l4, n) /\ TellsInterval(l5, n) /\ TellsInterval(l6, n)
      /\ TellsInterval(l7, n)
  BY <1>3, <1>4, OneValueIsSequence, OtherLineTells DEF Header
<1> HIDE DEF l1, l2, l3, l4, l5, l6, l7
<1>6. six \in Seq(S) /\ rest \in Seq(S)
  <2>1. six \in Seq(S) /\ <<l7>> \in Seq(S) /\ <<>> \in Seq(S)
    OBVIOUS
  <2> HIDE DEF six, S
  <2> QED
    BY <2>1
<1>7. \A line \in S : TellsInterval(line, n)
  BY <1>5
<1> HIDE DEF S, six, rest
<1> QED
  BY <1>1, <1>6, <1>7, TellsTogether, Zenon DEF TellsOf

LEMMA BeginningTells ==
  ASSUME NEW s, Storable(s)
  PROVE  TellsOf(Beginning(s), s.throughput_every)
<1> DEFINE n == s.throughput_every
           c1 == Line("throughput_every_seconds", <<NumeralOf(n)>>)
           c2 == Line("ping_every_seconds", <<NumeralOf(s.ping_every)>>)
           b1 == Line("daily_budget_bytes", <<NumeralOf(Only(s.daily_budget_bytes))>>)
           l1 == Line("raw_ping_retention_days", <<NumeralOf(s.raw_ping_retention_days)>>)
           l2 == Header("[endpoints]")
           l3 == Line("download_url", Quoted(s.download_url))
           l4 == Line("upload_url", Quoted(s.upload_url))
           l5 == Header("[metrics]")
           l6 == Line("download", <<Flag(s.download)>>)
           l7 == Line("upload", <<Flag(s.upload)>>)
           l8 == Line("ping", <<Flag(s.ping)>>)
           S == {c1, c2, b1, l1, l2, l3, l4, l5, l6, l7, l8}
           first == <<c1, c2>>
           budget == BudgetLines(s.daily_budget_bytes)
           rest == <<l1, l2, l3, l4, l5, l6, l7, l8>>
<1>1. Beginning(s) = (first \o budget) \o rest
  BY DEF Beginning, Cadences, Sections
<1>2. IsSequence(s.download_url) /\ IsSequence(s.upload_url)
  BY StringsAreSequences DEF Storable
<1>3. {"ping_every_seconds", "daily_budget_bytes", "raw_ping_retention_days", "[endpoints]",
       "download_url", "upload_url", "[metrics]", "download", "upload", "ping"}
        \cap IntervalKeys = {}
  BY DEF IntervalKeys
<1>4. /\ IsSequence(<<>>) /\ IsSequence(Quoted(s.download_url))
      /\ IsSequence(Quoted(s.upload_url))
  BY <1>2, BetweenQuotes, EmptyIsSequence
<1>5. TellsInterval(c1, n)
  BY OneValueIsSequence DEF TellsInterval, Line
<1>6. /\ TellsInterval(c2, n) /\ TellsInterval(b1, n)
      /\ TellsInterval(l1, n) /\ TellsInterval(l2, n) /\ TellsInterval(l3, n)
      /\ TellsInterval(l4, n) /\ TellsInterval(l5, n) /\ TellsInterval(l6, n)
      /\ TellsInterval(l7, n) /\ TellsInterval(l8, n)
  <2> HIDE DEF n
  <2> QED
    BY <1>3, <1>4, OneValueIsSequence, OtherLineTells DEF Header
<1>7. budget \in {<<>>, <<b1>>}
  BY DEF BudgetLines
<1> HIDE DEF c1, c2, b1, l1, l2, l3, l4, l5, l6, l7, l8, n, budget
<1>8. first \in Seq(S) /\ budget \in Seq(S) /\ rest \in Seq(S)
  <2>1. first \in Seq(S) /\ <<b1>> \in Seq(S) /\ <<>> \in Seq(S) /\ rest \in Seq(S)
    OBVIOUS
  <2> HIDE DEF first, rest, S
  <2> QED
    BY <1>7, <2>1, Zenon
<1>9. \A line \in S : TellsInterval(line, n)
  BY <1>5, <1>6
<1> HIDE DEF S, first, rest
<1>10. TellsOf(first, n) /\ TellsOf(budget, n) /\ TellsOf(rest, n)
  BY <1>8, <1>9, Zenon DEF TellsOf
<1>11. TellsOf(first \o budget, n)
  BY <1>10, TellsTogether
<1>12. TellsOf((first \o budget) \o rest, n)
  BY <1>10, <1>11, TellsTogether
<1> QED
  BY <1>1, <1>12 DEF n

\* to_toml.
LEMMA FileTellsInterval ==
  ASSUME NEW s, Storable(s)
  PROVE  TellsOf(ToToml(s), s.throughput_every)
<1> DEFINE n == s.throughput_every
           Lines(i) == CHOOSE S : TargetLines(s.targets[i]) \in Seq(S)
                                  /\ \A line \in S : TellsInterval(line, n)
           all == UNION {Lines(i) : i \in DOMAIN s.targets}
           per == PerTarget(s)
<1>1. ToToml(s) = Beginning(s) \o Concat(per)
  BY DEF ToToml, Beginning, Cadences, Sections, PerTarget
<1>2. IsSequence(s.targets) /\ \A i \in DOMAIN s.targets : StorableTarget(s.targets[i])
  BY StringsAreSequences DEF Storable, ToSet
<1>3. TellsOf(Beginning(s), n)
  BY BeginningTells
<1> HIDE DEF n
<1>4. ASSUME NEW i \in DOMAIN s.targets
      PROVE  /\ TargetLines(s.targets[i]) \in Seq(Lines(i))
             /\ \A line \in Lines(i) : TellsInterval(line, n)
  <2>1. TellsOf(TargetLines(s.targets[i]), n)
    BY <1>2, <1>4, TargetTells, Zenon
  <2> QED
    BY <2>1, Zenon DEF TellsOf
<1> HIDE DEF Lines
<1>5. \A i \in DOMAIN s.targets : Lines(i) \subseteq all
  OBVIOUS
<1>6. \A line \in all : TellsInterval(line, n)
  BY <1>4
<1> HIDE DEF all
<1>7. \A i \in DOMAIN s.targets : TargetLines(s.targets[i]) \in Seq(all)
  BY <1>4, <1>5, SeqMonotonic, Zenon
<1>8. Len(s.targets) \in Nat /\ DOMAIN s.targets = 1..Len(s.targets)
  BY <1>2, LenProperties DEF IsSequence
<1>9. per \in Seq(Seq(all))
  BY <1>7, <1>8, IsASeq DEF PerTarget
<1>10. TellsOf(Concat(per), n)
  BY <1>6, <1>9, ConcatIsSeq, Zenon DEF TellsOf
<1> HIDE DEF per
<1> QED
  BY <1>1, <1>3, <1>10, TellsTogether DEF n

\* Whole minutes, which can be written in seconds as well.
WholeMinutes(n) == n \in Written /\ \E minutes \in Written : minutes * 60 = n

\* What a start makes of what it reads.
Loadable(s) == Storable(s) /\ WholeMinutes(s.throughput_every)

LEMMA DefaultsAreLoadable == Loadable(DefaultSettings)
<1>1. DefaultSettings.throughput_every \in Written
  BY DefaultsAssumption DEF Storable
<1> QED
  BY <1>1, DefaultsAssumption DEF Loadable, WholeMinutes

\* Settings::parse of what Settings::to_toml writes, whatever is in the names: the
\* settings a start may go on with.
LEMMA CommittedIsLoadable ==
  ASSUME NEW s, Loadable(s), Parse(ToToml(s)).ok
  PROVE  Loadable(Parse(ToToml(s)).settings)
<1> DEFINE lines == ToToml(s)
           n == s.throughput_every
           p == TargetPushed(Reading(lines))
<1>1. PICK S : lines \in Seq(S) /\ \A line \in S : TellsInterval(line, n)
  BY FileTellsInterval, Zenon DEF TellsOf, Loadable
<1>2. n \in Written /\ WholeMinutes(n)
  BY DEF Loadable, WholeMinutes
<1>3. Parse(lines).settings = p.settings
  BY DEF Parse, Reading
<1>4. p.settings.throughput_every >= MIN_CADENCE /\ p.settings.ping_every >= MIN_CADENCE
  BY DEF Parse, Reading
<1> HIDE DEF lines, n
<1>5. Len(lines) \in Nat /\ \A m \in 1..Len(lines) : TellsInterval(lines[m], n)
  BY <1>1, LenProperties, ElementOfSeq
<1>6. IsSequence(lines)
  BY <1>1, Zenon DEF IsSequence
<1> DEFINE Well(m) == ReadsWell(Reading(SubSeq(lines, 1, m)), n)
           reached == {m \in Nat : m <= Len(lines) => Well(m)}
<1>7. Well(0)
  BY <1>6, PrefixGrows, ReadingGoesOn, StartReadsWell, Zenon
<1>8. ASSUME NEW m \in Nat, m + 1 <= Len(lines), Well(m) PROVE Well(m + 1)
  <2>1. m \in 0..(Len(lines) - 1) /\ m \in 0..Len(lines) /\ m + 1 \in 1..Len(lines)
    BY <1>5, <1>8
  <2>2. /\ SubSeq(lines, 1, m + 1) = Append(SubSeq(lines, 1, m), lines[m + 1])
        /\ IsSequence(SubSeq(lines, 1, m))
    BY <1>6, <2>1, PrefixGrows
  <2>3. Reading(SubSeq(lines, 1, m + 1)) = ReadLine(Reading(SubSeq(lines, 1, m)), lines[m + 1])
    BY <2>2, ReadingGoesOn, Zenon
  <2>4. TellsInterval(lines[m + 1], n)
    BY <1>5, <2>1
  <2> QED
    BY <1>2, <1>8, <2>3, <2>4, LineReadsWell
<1> HIDE DEF Well
<1>9. 0 \in reached
  BY <1>7
<1>10. ASSUME NEW m \in reached PROVE m + 1 \in reached
  BY <1>5, <1>8, <1>10
<1> HIDE DEF reached
<1>11. reached = Nat
  BY <1>9, <1>10, CountedThrough DEF reached
<1>12. ReadsWell(Reading(lines), n)
  <2>1. Well(Len(lines))
    BY <1>5, <1>11 DEF reached
  <2>2. SubSeq(lines, 1, Len(lines)) = lines
    BY <1>6, PrefixGrows
  <2> QED
    BY <2>1, <2>2, Zenon DEF Well
<1>13. ReadsWell(p, n)
  BY <1>12, PushedReadsWell
<1> HIDE DEF p
<1>14. Storable(p.settings)
  BY <1>4, <1>13, StorableIs DEF ReadsWell
<1>15. WholeMinutes(p.settings.throughput_every)
  BY <1>2, <1>13, DefaultsAreLoadable DEF ReadsWell, Loadable
<1> QED
  BY <1>3, <1>14, <1>15 DEF Loadable, lines

-----------------------------------------------------------------------------
(* SettingsScreen: any texts, any number of rows, edits, removals, restarts. *)

\* What the screen works with of a target and of the settings.
HasTarget(target) == {"kind", "port"} \subseteq DOMAIN target
HasSettings(s) ==
  /\ {"throughput_every", "daily_budget_bytes", "targets"} \subseteq DOMAIN s
  /\ IsSequence(s.targets)
  /\ \A i \in DOMAIN s.targets : HasTarget(s.targets[i])

\* A port that can be written.
PortHasNumeral(port) == \E numeral \in DOMAIN NumberOf : port = {NumberOf[numeral]}
TcpHasPort(target) == target.kind = Tcp => PortHasNumeral(target.port)

LEMMA StorableTargetHas ==
  \A target : StorableTarget(target) => HasTarget(target) /\ TcpHasPort(target)
<1> SUFFICES ASSUME NEW target, StorableTarget(target)
             PROVE  HasTarget(target) /\ TcpHasPort(target)
  OBVIOUS
<1>1. target = [key \in DOMAIN TargetKeys |-> target[key]]
  BY DEF StorableTarget
<1>2. DOMAIN target = DOMAIN TargetKeys
  BY <1>1
<1>3. HasTarget(target)
  BY <1>2, TargetKeysAre DEF HasTarget
<1>4. TcpHasPort(target)
  BY DEF StorableTarget, TcpHasPort, PortHasNumeral, Written
<1> QED
  BY <1>3, <1>4

LEMMA StorableHas ==
  ASSUME NEW s, Storable(s)
  PROVE  HasSettings(s) /\ \A i \in DOMAIN s.targets : TcpHasPort(s.targets[i])
<1>1. s = [field \in Fields |-> s[field]]
  BY DEF Storable
<1>2. DOMAIN s = Fields
  BY <1>1
<1>3. IsSequence(s.targets) /\ \A i \in DOMAIN s.targets : StorableTarget(s.targets[i])
  BY StringsAreSequences DEF Storable, ToSet
<1>4. \A i \in DOMAIN s.targets : HasTarget(s.targets[i]) /\ TcpHasPort(s.targets[i])
  BY <1>3, StorableTargetHas
<1> QED
  BY <1>2, <1>3, <1>4 DEF HasSettings, Fields

\* The rows of the table and the texts of their ports go together.
RowAgrees(target, text) ==
  /\ HasTarget(target)
  /\ target.kind = Tcp /\ ParsesPort(text) => target.port = {NumberOf[text]}

RowsAgree(targets, texts) ==
  /\ IsSequence(targets) /\ IsSequence(texts)
  /\ Len(texts) = Len(targets)
  /\ \A i \in 1..Len(targets) : RowAgrees(targets[i], texts[i])

\* What can be undone is a row that was in the table.
OfferAgrees(removed) ==
  /\ removed.index \in Nat \ {0}
  /\ RowAgrees(removed.target, removed.port_text)

IntervalShown ==
  /\ WholeMinutes(settings.throughput_every)
  /\ ParsesMinutes(interval_text) =>
       settings.throughput_every = NumberOf[interval_text] * 60

BudgetShown ==
  settings.daily_budget_bytes # {} /\ ParsesGb(budget_gb_text) =>
    \/ settings.daily_budget_bytes = {GbOf[budget_gb_text].bytes}
    \/ budget_gb_text = GbTextOf[Only(settings.daily_budget_bytes)]

TableInv ==
  /\ {"throughput_every", "daily_budget_bytes", "targets"} \subseteq DOMAIN settings
  /\ RowsAgree(settings.targets, target_port_text)
  /\ \A removed \in removed_target : OfferAgrees(removed)
  /\ UndoIsInverse

ScreenInv == TableInv /\ IntervalShown /\ BudgetShown /\ restarts \in Nat

\* What is committed can be written and read; so can a row that is put back.
StoredInv ==
  /\ Storable(settings) /\ StorableUi(ui_settings)
  /\ \A removed \in removed_target : StorableTarget(removed.target)

LEMMA SequenceDomain ==
  ASSUME NEW seq, IsSequence(seq)
  PROVE  Len(seq) \in Nat /\ DOMAIN seq = 1..Len(seq)
BY LenProperties DEF IsSequence

LEMMA RowsAreTargets ==
  ASSUME ScreenInv
  PROVE  HasSettings(settings) /\ DOMAIN settings.targets = 1..Len(settings.targets)
<1>1. DOMAIN settings.targets = 1..Len(settings.targets)
  BY SequenceDomain DEF ScreenInv, TableInv, RowsAgree
<1> QED
  BY <1>1, Zenon DEF ScreenInv, TableInv, RowsAgree, RowAgrees, HasSettings

LEMMA ScreenShowsIt == ScreenInv => ShownIsUsed
<1> SUFFICES ASSUME ScreenInv PROVE ShownIsUsed
  OBVIOUS
<1>1. DOMAIN settings.targets = 1..Len(settings.targets)
  BY RowsAreTargets
<1> QED
  BY <1>1, Zenon DEF ScreenInv, TableInv, RowsAgree, RowAgrees, IntervalShown, BudgetShown,
                     ShownIsUsed

\* The text of a port that has a numeral is that numeral.
LEMMA PortTextAgrees ==
  ASSUME NEW target, HasTarget(target), TcpHasPort(target)
  PROVE  RowAgrees(target, PortTextFor(target))
<1> SUFFICES ASSUME target.kind = Tcp
             PROVE  target.port = {NumberOf[PortTextFor(target)]}
  BY DEF RowAgrees
<1>1. PICK numeral \in DOMAIN NumberOf : target.port = {NumberOf[numeral]}
  BY DEF TcpHasPort, PortHasNumeral
<1>2. PortTextFor(target) = NumeralOf(NumberOf[numeral])
  BY <1>1, OnlyOne DEF PortTextFor
<1> QED
  BY <1>1, <1>2, NumeralsAreRead

\* App::boot.
LEMMA LoadedIsShown ==
  ASSUME NEW loaded, NEW texts, NEW interval, Loadable(loaded),
         texts = [i \in DOMAIN loaded.targets |-> PortTextFor(loaded.targets[i])],
         interval = NumeralOf(loaded.throughput_every \div 60)
  PROVE  /\ {"throughput_every", "daily_budget_bytes", "targets"} \subseteq DOMAIN loaded
         /\ RowsAgree(loaded.targets, texts)
         /\ WholeMinutes(loaded.throughput_every)
         /\ ParsesMinutes(interval) => loaded.throughput_every = NumberOf[interval] * 60
<1> DEFINE targets == loaded.targets
<1>1. /\ HasSettings(loaded)
      /\ IsSequence(targets)
      /\ \A i \in DOMAIN targets : HasTarget(targets[i]) /\ TcpHasPort(targets[i])
  BY StorableHas DEF Loadable, HasSettings
<1>2. Len(targets) \in Nat /\ DOMAIN targets = 1..Len(targets)
  BY <1>1, SequenceDomain
<1>3. RowsAgree(targets, texts)
  <2> DEFINE S == {PortTextFor(targets[i]) : i \in DOMAIN targets}
  <2>1. texts \in Seq(S) /\ Len(texts) = Len(targets)
    BY <1>2
  <2>2. \A i \in 1..Len(targets) : RowAgrees(targets[i], texts[i])
    BY <1>1, <1>2, PortTextAgrees
  <2> QED
    BY <1>1, <2>1, <2>2, Zenon DEF RowsAgree, IsSequence
<1>4. ParsesMinutes(interval) => loaded.throughput_every = NumberOf[interval] * 60
  <2>1. PICK minutes \in DOMAIN NumberOf : NumberOf[minutes] * 60 = loaded.throughput_every
    BY DEF Loadable, WholeMinutes, Written
  <2>2. loaded.throughput_every \div 60 = NumberOf[minutes]
    BY <2>1, NumeralAssumption
  <2>3. NumberOf[interval] = NumberOf[minutes]
    BY <2>2, NumeralsAreRead
  <2> QED
    BY <2>1, <2>3
<1> QED
  BY <1>1, <1>3, <1>4 DEF Loadable, HasSettings

LEMMA ScreenInvInit == Init => ScreenInv
<1> SUFFICES ASSUME Init PROVE ScreenInv
  OBVIOUS
<1>1. /\ {"throughput_every", "daily_budget_bytes", "targets"} \subseteq DOMAIN settings
      /\ RowsAgree(settings.targets, target_port_text)
      /\ WholeMinutes(settings.throughput_every)
      /\ ParsesMinutes(interval_text) => settings.throughput_every = NumberOf[interval_text] * 60
  BY DefaultsAreLoadable, LoadedIsShown DEF Init
<1>2. settings.daily_budget_bytes = {}
  BY DefaultsAssumption DEF Init
<1>3. TableInv
  BY <1>1 DEF Init, TableInv, UndoIsInverse
<1> QED
  BY <1>1, <1>2, <1>3 DEF Init, ScreenInv, IntervalShown, BudgetShown

-----------------------------------------------------------------------------
\* What is done beside the table leaves it.
LEMMA TableStays ==
  ASSUME TableInv,
         {"throughput_every", "daily_budget_bytes", "targets"} \subseteq DOMAIN settings',
         settings'.targets = settings.targets, target_port_text' = target_port_text,
         removed_target' \subseteq removed_target, before' = before
  PROVE  TableInv'
<1>1. \A removed : Restored(removed)' = Restored(removed)
  BY DEF Restored
<1> QED
  BY <1>1, Zenon DEF TableInv, UndoIsInverse

\* An edit of the rows, other than a removal: what is on offer stays or is taken.
LEMMA TableEdited ==
  ASSUME TableInv, NEW targets, NEW texts, SetRows(targets, texts),
         RowsAgree(targets, texts),
         removed_target' \subseteq removed_target, before' = <<>>
  PROVE  TableInv'
<1>1. /\ {"throughput_every", "daily_budget_bytes", "targets"} \subseteq DOMAIN settings'
      /\ settings'.targets = targets /\ target_port_text' = texts
  BY DEF SetRows, TableInv
<1> QED
  BY <1>1, Zenon DEF TableInv, UndoIsInverse

\* Edits of rows leave the interval and the budget.
LEMMA RestIsShown ==
  ASSUME ScreenInv, NEW targets, NEW texts, SetRows(targets, texts), restarts' = restarts
  PROVE  IntervalShown' /\ BudgetShown' /\ restarts' \in Nat
<1>1. /\ settings'.throughput_every = settings.throughput_every
      /\ settings'.daily_budget_bytes = settings.daily_budget_bytes
      /\ interval_text' = interval_text /\ budget_gb_text' = budget_gb_text
  BY DEF SetRows, ScreenInv, TableInv
<1>2. IntervalShown'
  BY <1>1 DEF ScreenInv, IntervalShown
<1>3. BudgetShown'
  BY <1>1 DEF ScreenInv, BudgetShown
<1> QED
  BY <1>2, <1>3 DEF ScreenInv

LEMMA RowsEdited ==
  ASSUME ScreenInv, NEW targets, NEW texts, SetRows(targets, texts),
         RowsAgree(targets, texts), restarts' = restarts,
         removed_target' \subseteq removed_target, before' = <<>>
  PROVE  ScreenInv'
BY TableEdited, RestIsShown, Zenon DEF ScreenInv

LEMMA TargetAdded ==
  ASSUME ScreenInv, NEW form, AddTarget(form)
  PROVE  ScreenInv'
<1> DEFINE target == NewTargetOf(form)
           text == PortTextFor(target)
           targets == settings.targets
           texts == target_port_text
<1>1. RowAgrees(target, text)
  <2>1. HasTarget(target) /\ TcpHasPort(target)
    BY DEF AddTarget, ValidForm, ParsesPort, NewTargetOf, HasTarget, TcpHasPort, PortHasNumeral
  <2> QED
    BY <2>1, PortTextAgrees
<1> HIDE DEF target, text
<1>2. RowsAgree(targets, texts)
  BY DEF ScreenInv, TableInv
<1>3. /\ SetRows(Append(targets, target), Append(texts, text))
      /\ before' = <<>> /\ removed_target' = removed_target /\ restarts' = restarts
  BY DEF AddTarget, Edit, undo, target, text
<1> HIDE DEF targets, texts
<1>4. RowsAgree(Append(targets, target), Append(texts, text))
  <2>1. /\ IsSequence(Append(targets, target)) /\ Len(targets) \in Nat
        /\ Len(Append(targets, target)) = Len(targets) + 1
        /\ \A i \in 1..Len(targets) : Append(targets, target)[i] = targets[i]
        /\ Append(targets, target)[Len(targets) + 1] = target
    BY <1>2, AppendedIsSequence DEF RowsAgree
  <2>2. /\ IsSequence(Append(texts, text))
        /\ Len(Append(texts, text)) = Len(targets) + 1
        /\ \A i \in 1..Len(targets) : Append(texts, text)[i] = texts[i]
        /\ Append(texts, text)[Len(targets) + 1] = text
    BY <1>2, AppendedIsSequence DEF RowsAgree
  <2>3. \A i \in 1..(Len(targets) + 1) :
          RowAgrees(Append(targets, target)[i], Append(texts, text)[i])
    <3> SUFFICES ASSUME NEW i \in 1..(Len(targets) + 1)
                 PROVE  RowAgrees(Append(targets, target)[i], Append(texts, text)[i])
      OBVIOUS
    <3>1. i \in 1..Len(targets) \/ i = Len(targets) + 1
      BY <2>1
    <3> QED
      BY <1>1, <1>2, <2>1, <2>2, <3>1, Zenon DEF RowsAgree
  <2> QED
    BY <2>1, <2>2, <2>3 DEF RowsAgree
<1> QED
  BY <1>3, <1>4, RowsEdited

\* A row without one of its rows.
LEMMA RowsRemoved ==
  ASSUME NEW targets, NEW texts, RowsAgree(targets, texts), NEW i \in 1..Len(targets)
  PROVE  RowsAgree(RemoveAt(targets, i), RemoveAt(texts, i))
<1>1. Len(targets) \in Nat
  BY SequenceDomain DEF RowsAgree
<1>2. /\ IsSequence(RemoveAt(targets, i)) /\ Len(RemoveAt(targets, i)) = Len(targets) - 1
      /\ \A j \in 1..(Len(targets) - 1) :
           RemoveAt(targets, i)[j] = IF j < i THEN targets[j] ELSE targets[j + 1]
  BY RemovedFromSequence DEF RowsAgree
<1>3. /\ IsSequence(RemoveAt(texts, i)) /\ Len(RemoveAt(texts, i)) = Len(targets) - 1
      /\ \A j \in 1..(Len(targets) - 1) :
           RemoveAt(texts, i)[j] = IF j < i THEN texts[j] ELSE texts[j + 1]
  BY RemovedFromSequence DEF RowsAgree
<1>4. ASSUME NEW j \in 1..(Len(targets) - 1)
      PROVE  RowAgrees(RemoveAt(targets, i)[j], RemoveAt(texts, i)[j])
  <2>1. j \in 1..Len(targets) /\ j + 1 \in 1..Len(targets)
    BY <1>1
  <2> QED
    BY <1>2, <1>3, <2>1, Zenon DEF RowsAgree
<1> QED
  BY <1>2, <1>3, <1>4 DEF RowsAgree

LEMMA RowsRestored ==
  ASSUME NEW targets, NEW texts, RowsAgree(targets, texts), NEW i \in 1..(Len(targets) + 1),
         NEW target, NEW text, RowAgrees(target, text)
  PROVE  RowsAgree(InsertAt(targets, i, target), InsertAt(texts, i, text))
<1>1. Len(targets) \in Nat
  BY SequenceDomain DEF RowsAgree
<1>2. /\ IsSequence(InsertAt(targets, i, target))
      /\ Len(InsertAt(targets, i, target)) = Len(targets) + 1
      /\ \A j \in 1..(Len(targets) + 1) :
           InsertAt(targets, i, target)[j] =
             IF j < i THEN targets[j] ELSE IF j = i THEN target ELSE targets[j - 1]
  BY InsertedIntoSequence DEF RowsAgree
<1>3. /\ IsSequence(InsertAt(texts, i, text))
      /\ Len(InsertAt(texts, i, text)) = Len(targets) + 1
      /\ \A j \in 1..(Len(targets) + 1) :
           InsertAt(texts, i, text)[j] =
             IF j < i THEN texts[j] ELSE IF j = i THEN text ELSE texts[j - 1]
  BY InsertedIntoSequence DEF RowsAgree
<1>4. ASSUME NEW j \in 1..(Len(targets) + 1)
      PROVE  RowAgrees(InsertAt(targets, i, target)[j], InsertAt(texts, i, text)[j])
  <2>1. /\ j < i => j \in 1..Len(targets)
        /\ ~(j < i) /\ j # i => j - 1 \in 1..Len(targets)
    BY <1>1
  <2> QED
    BY <1>2, <1>3, <2>1, Zenon DEF RowsAgree
<1> QED
  BY <1>2, <1>3, <1>4 DEF RowsAgree

LEMMA TargetRemoved ==
  ASSUME ScreenInv, NEW index, RemoveTarget(index)
  PROVE  ScreenInv'
<1> DEFINE targets == settings.targets
           texts == target_port_text
           taken == [index |-> index, target |-> targets[index], port_text |-> texts[index]]
<1>1. /\ SetRows(RemoveAt(targets, index), RemoveAt(texts, index))
      /\ removed_target' = {taken} /\ before' = <<targets, texts>> /\ restarts' = restarts
      /\ index \in 1..Len(targets)
  BY RowsAreTargets DEF RemoveTarget, Offer, Edit, table
<1>2. /\ {"throughput_every", "daily_budget_bytes", "targets"} \subseteq DOMAIN settings'
      /\ settings'.targets = RemoveAt(targets, index)
      /\ target_port_text' = RemoveAt(texts, index)
  BY <1>1 DEF SetRows, ScreenInv, TableInv
<1>3. RowsAgree(targets, texts) /\ Len(targets) \in Nat
  BY SequenceDomain DEF ScreenInv, TableInv, RowsAgree
<1>4. OfferAgrees(taken)
  BY <1>1, <1>3 DEF OfferAgrees, RowsAgree
<1>5. ASSUME NEW removed, removed.index = index, removed.target = targets[index],
             removed.port_text = texts[index]
      PROVE  Restored(removed)' = <<targets, texts>>
  <2>1. Len(RemoveAt(targets, index)) = Len(targets) - 1
    BY <1>1, <1>3, RemovedFromSequence DEF RowsAgree
  <2>2. (IF index <= Len(RemoveAt(targets, index)) THEN index
         ELSE Len(RemoveAt(targets, index)) + 1) = index
    BY <1>1, <1>3, <2>1
  <2>3. /\ InsertAt(RemoveAt(targets, index), index, targets[index]) = targets
        /\ InsertAt(RemoveAt(texts, index), index, texts[index]) = texts
    BY <1>1, <1>3, InsertUndoesRemove DEF RowsAgree
  <2> HIDE DEF targets, texts
  <2> QED
    BY <1>2, <1>5, <2>2, <2>3 DEF Restored
<1>6. RowsAgree(RemoveAt(targets, index), RemoveAt(texts, index))
  BY <1>1, <1>3, RowsRemoved
<1>7. TableInv'
  <2>3. taken.index = index /\ taken.target = targets[index] /\ taken.port_text = texts[index]
    OBVIOUS
  <2> HIDE DEF taken, targets, texts
  <2>1. RowsAgree(settings.targets, target_port_text)'
    BY <1>2, <1>6
  <2>2. UndoIsInverse'
    <3> SUFFICES ASSUME NEW removed \in removed_target' PROVE Restored(removed)' = before'
      BY DEF UndoIsInverse
    <3>1. removed = taken
      BY <1>1
    <3> QED
      BY <1>1, <1>5, <2>3, <3>1
  <2> QED
    BY <1>1, <1>2, <1>4, <2>1, <2>2 DEF TableInv
<1> QED
  BY <1>1, <1>7, RestIsShown, Zenon DEF ScreenInv

LEMMA RemovalUndone ==
  ASSUME ScreenInv, UndoTargetRemoval
  PROVE  ScreenInv'
<1>1. PICK removed \in removed_target : SetRows(Restored(removed)[1], Restored(removed)[2])
  BY DEF UndoTargetRemoval
<1>2. removed_target' = {} /\ before' = <<>> /\ restarts' = restarts
  BY DEF UndoTargetRemoval, Edit
<1> DEFINE targets == settings.targets
           texts == target_port_text
           index == IF removed.index <= Len(targets) THEN removed.index ELSE Len(targets) + 1
<1>3. /\ Restored(removed)[1] = InsertAt(targets, index, removed.target)
      /\ Restored(removed)[2] = InsertAt(texts, index, removed.port_text)
  BY DEF Restored
<1>4. /\ RowsAgree(targets, texts) /\ Len(targets) \in Nat
      /\ removed.index \in Nat \ {0} /\ RowAgrees(removed.target, removed.port_text)
  BY SequenceDomain DEF ScreenInv, TableInv, RowsAgree, OfferAgrees
<1>5. index \in 1..(Len(targets) + 1)
  BY <1>4
<1> HIDE DEF targets, texts, index
<1>6. RowsAgree(Restored(removed)[1], Restored(removed)[2])
  BY <1>3, <1>4, <1>5, RowsRestored
<1> QED
  BY <1>1, <1>2, <1>6, RowsEdited

\* An edit of one row, its text beside it.
LEMMA RowEdited ==
  ASSUME ScreenInv, NEW index \in DOMAIN settings.targets, NEW target, NEW text,
         EditRow(index, target, text), RowAgrees(target, text)
  PROVE  ScreenInv'
<1> DEFINE targets == settings.targets
           texts == target_port_text
<1>1. RowsAgree(targets, texts) /\ index \in 1..Len(targets) /\ Len(targets) \in Nat
  BY RowsAreTargets, SequenceDomain DEF ScreenInv, TableInv, RowsAgree
<1>2. /\ SetRows([targets EXCEPT ![index] = target], [texts EXCEPT ![index] = text])
      /\ before' = <<>> /\ removed_target' = removed_target /\ restarts' = restarts
  BY DEF EditRow, Edit, undo
<1> HIDE DEF targets, texts
<1>3. RowsAgree([targets EXCEPT ![index] = target], [texts EXCEPT ![index] = text])
  <2>1. PICK S, T : targets \in Seq(S) /\ texts \in Seq(T)
    BY <1>1 DEF RowsAgree, IsSequence
  <2>2. targets \in Seq(S \cup {target}) /\ texts \in Seq(T \cup {text})
    BY <2>1, SeqMonotonic, Zenon
  <2>3. Len(texts) = Len(targets)
    BY <1>1 DEF RowsAgree
  <2>4. /\ [targets EXCEPT ![index] = target] \in Seq(S \cup {target})
        /\ Len([targets EXCEPT ![index] = target]) = Len(targets)
        /\ \A i \in 1..Len(targets) :
             [targets EXCEPT ![index] = target][i] = IF i = index THEN target ELSE targets[i]
    BY <1>1, <2>2, ExceptSeq
  <2>5. /\ [texts EXCEPT ![index] = text] \in Seq(T \cup {text})
        /\ Len([texts EXCEPT ![index] = text]) = Len(targets)
        /\ \A i \in 1..Len(targets) :
             [texts EXCEPT ![index] = text][i] = IF i = index THEN text ELSE texts[i]
    BY <1>1, <2>2, <2>3, ExceptSeq
  <2>6. \A i \in 1..Len(targets) :
          RowAgrees([targets EXCEPT ![index] = target][i], [texts EXCEPT ![index] = text][i])
    BY <1>1, <2>4, <2>5, Zenon DEF RowsAgree
  <2> QED
    BY <2>4, <2>5, <2>6, Zenon DEF RowsAgree, IsSequence
<1> QED
  BY <1>2, <1>3, RowsEdited

LEMMA TargetRowKeeps ==
  ASSUME ScreenInv, NEW index \in DOMAIN settings.targets, TargetRow(index)
  PROVE  ScreenInv'
<1> DEFINE target == settings.targets[index]
           text == target_port_text[index]
<1>1. RowAgrees(target, text)
  BY RowsAreTargets DEF ScreenInv, TableInv, RowsAgree
<1>2. {"kind", "port"} \subseteq DOMAIN target
  BY <1>1 DEF RowAgrees, HasTarget
<1>3. CASE RemoveTarget(index)
  BY <1>3, TargetRemoved
<1>4. CASE ToggleTarget(index)
  <2> DEFINE other == [target EXCEPT !.enabled = ~@]
  <2>1. DOMAIN other = DOMAIN target /\ other.kind = target.kind /\ other.port = target.port
    BY <1>2
  <2>2. EditRow(index, other, text)
    BY <1>4 DEF ToggleTarget
  <2> HIDE DEF other, target, text
  <2>3. RowAgrees(other, text)
    BY <1>1, <2>1, Zenon DEF RowAgrees, HasTarget
  <2> QED
    BY <2>2, <2>3, RowEdited
<1>5. ASSUME NEW name \in Names, EditName(index, name) PROVE ScreenInv'
  <2> DEFINE other == [target EXCEPT !.name = name]
  <2>1. DOMAIN other = DOMAIN target /\ other.kind = target.kind /\ other.port = target.port
    BY <1>2
  <2>2. EditRow(index, other, text)
    BY <1>5 DEF EditName
  <2> HIDE DEF other, target, text
  <2>3. RowAgrees(other, text)
    BY <1>1, <2>1, Zenon DEF RowAgrees, HasTarget
  <2> QED
    BY <2>2, <2>3, RowEdited
<1>6. ASSUME NEW host \in Hosts, EditHost(index, host) PROVE ScreenInv'
  <2> DEFINE other == [target EXCEPT !.host = host]
  <2>1. DOMAIN other = DOMAIN target /\ other.kind = target.kind /\ other.port = target.port
    BY <1>2
  <2>2. EditRow(index, other, text)
    BY <1>6 DEF EditHost
  <2> HIDE DEF other, target, text
  <2>3. RowAgrees(other, text)
    BY <1>1, <2>1, Zenon DEF RowAgrees, HasTarget
  <2> QED
    BY <2>2, <2>3, RowEdited
<1>7. ASSUME NEW kind \in Kinds, EditKind(index, kind) PROVE ScreenInv'
  <2> DEFINE other == WithKind(target, kind, text)
  <2>1. /\ DOMAIN other = DOMAIN target /\ other.kind = kind
        /\ kind = Tcp /\ ParsesPort(text) => other.port = {NumberOf[text]}
    <3>1. Icmp # Tcp
      BY DEF Icmp, Tcp
    <3> HIDE DEF target, text
    <3> QED
      BY <1>2, <3>1 DEF WithKind
  <2>2. EditRow(index, other, text)
    BY <1>7 DEF EditKind
  <2> HIDE DEF other, target, text
  <2>3. RowAgrees(other, text)
    BY <1>2, <2>1, Zenon DEF RowAgrees, HasTarget
  <2> QED
    BY <2>2, <2>3, RowEdited
<1>8. ASSUME NEW typed \in PortTexts, EditPort(index, typed) PROVE ScreenInv'
  <2> DEFINE other == IF ParsesPort(typed) THEN [target EXCEPT !.port = {NumberOf[typed]}]
                      ELSE target
  <2>1. /\ DOMAIN other = DOMAIN target
        /\ ParsesPort(typed) => other.port = {NumberOf[typed]}
    BY <1>2
  <2>2. EditRow(index, other, typed)
    BY <1>8 DEF EditPort
  <2> HIDE DEF other, target
  <2>3. RowAgrees(other, typed)
    BY <1>2, <2>1, Zenon DEF RowAgrees, HasTarget
  <2> QED
    BY <2>2, <2>3, RowEdited
<1> QED
  BY <1>3, <1>4, <1>5, <1>6, <1>7, <1>8, Zenon DEF TargetRow

\* apply_setting_change, of one field of the settings.
LEMMA SettingChanged ==
  ASSUME ScreenInv,
         {"throughput_every", "daily_budget_bytes", "targets"} \subseteq DOMAIN settings',
         settings'.targets = settings.targets, UNCHANGED <<target_port_text, undo, before>>,
         IntervalShown', BudgetShown', restarts' = restarts
  PROVE  ScreenInv'
BY TableStays DEF ScreenInv, undo

LEMMA IntervalStays ==
  ASSUME ScreenInv, settings'.throughput_every = settings.throughput_every,
         interval_text' = interval_text
  PROVE  IntervalShown'
BY DEF ScreenInv, IntervalShown

LEMMA BudgetStays ==
  ASSUME ScreenInv, settings'.daily_budget_bytes = settings.daily_budget_bytes,
         budget_gb_text' = budget_gb_text
  PROVE  BudgetShown'
BY DEF ScreenInv, BudgetShown

LEMMA IntervalEdited ==
  ASSUME ScreenInv, NEW text \in IntervalTexts, IntervalMinutes(text)
  PROVE  ScreenInv'
<1> DEFINE n == NumberOf[text] * 60
           s == IF ParsesMinutes(text) THEN [settings EXCEPT !.throughput_every = n]
                ELSE settings
<1>1. /\ settings' = s /\ interval_text' = text /\ budget_gb_text' = budget_gb_text
      /\ UNCHANGED <<target_port_text, undo, before>> /\ restarts' = restarts
  BY DEF IntervalMinutes, KeepRows, Edit
<1>2. {"throughput_every", "daily_budget_bytes", "targets"} \subseteq DOMAIN settings
  BY DEF ScreenInv, TableInv
<1> HIDE DEF n
<1>3. /\ DOMAIN s = DOMAIN settings /\ s.targets = settings.targets
      /\ s.daily_budget_bytes = settings.daily_budget_bytes
      /\ s.throughput_every = IF ParsesMinutes(text) THEN n ELSE settings.throughput_every
  BY <1>2
<1> HIDE DEF s
<1>4. IntervalShown'
  <2>1. ParsesMinutes(text) => WholeMinutes(n)
    BY IntervalAssumption DEF ParsesMinutes, WholeMinutes, Written, n
  <2>2. WholeMinutes(settings.throughput_every)
    BY DEF ScreenInv, IntervalShown
  <2> QED
    BY <1>1, <1>3, <2>1, <2>2 DEF IntervalShown, n
<1>5. BudgetShown'
  BY <1>1, <1>3, BudgetStays
<1> QED
  BY <1>1, <1>2, <1>3, <1>4, <1>5, SettingChanged

LEMMA MetricEdited ==
  ASSUME ScreenInv, NEW metric \in {"download", "upload", "ping"}, NEW checked,
         Metric(metric, checked)
  PROVE  ScreenInv'
<1> DEFINE s == [settings EXCEPT ![metric] = checked]
<1>1. /\ settings' = s /\ UNCHANGED <<interval_text, budget_gb_text>>
      /\ UNCHANGED <<target_port_text, undo, before>> /\ restarts' = restarts
  BY DEF Metric, KeepRows, Edit
<1>2. {"throughput_every", "daily_budget_bytes", "targets"} \subseteq DOMAIN settings
  BY DEF ScreenInv, TableInv
<1>3. /\ DOMAIN s = DOMAIN settings /\ s.targets = settings.targets
      /\ s.daily_budget_bytes = settings.daily_budget_bytes
      /\ s.throughput_every = settings.throughput_every
  BY <1>2
<1> HIDE DEF s
<1> QED
  BY <1>1, <1>2, <1>3, IntervalStays, BudgetStays, SettingChanged

LEMMA BudgetEdited ==
  ASSUME ScreenInv, BudgetSection
  PROVE  ScreenInv'
<1>1. {"throughput_every", "daily_budget_bytes", "targets"} \subseteq DOMAIN settings
  BY DEF ScreenInv, TableInv
<1>2. ASSUME NEW on \in BOOLEAN, BudgetEnabled(on) PROVE ScreenInv'
  <2> DEFINE bytes == CASE ~on -> {}
                        [] on /\ ParsesGb(budget_gb_text) -> {GbOf[budget_gb_text].bytes}
                        [] OTHER -> {FiveGb}
             s == [settings EXCEPT !.daily_budget_bytes = bytes]
  <2>1. /\ settings' = s /\ UNCHANGED <<interval_text, budget_gb_text>>
        /\ UNCHANGED <<target_port_text, undo, before>> /\ restarts' = restarts
    BY <1>2 DEF BudgetEnabled, KeepRows, Edit
  <2>2. bytes # {} /\ ParsesGb(budget_gb_text) => bytes = {GbOf[budget_gb_text].bytes}
    OBVIOUS
  <2> HIDE DEF bytes
  <2>3. /\ DOMAIN s = DOMAIN settings /\ s.targets = settings.targets
        /\ s.daily_budget_bytes = bytes /\ s.throughput_every = settings.throughput_every
    BY <1>1
  <2> HIDE DEF s
  <2>4. BudgetShown'
    BY <2>1, <2>2, <2>3 DEF BudgetShown, ParsesGb
  <2> QED
    BY <1>1, <2>1, <2>3, <2>4, IntervalStays, SettingChanged
<1>3. ASSUME NEW text \in GbTexts, BudgetGb(text) PROVE ScreenInv'
  <2> DEFINE bytes == {GbOf[text].bytes}
             s == IF ParsesGb(text) THEN [settings EXCEPT !.daily_budget_bytes = bytes]
                  ELSE settings
  <2>1. /\ settings' = s /\ budget_gb_text' = text /\ interval_text' = interval_text
        /\ UNCHANGED <<target_port_text, undo, before>> /\ restarts' = restarts
    BY <1>3 DEF BudgetGb, KeepRows, Edit
  <2> HIDE DEF bytes
  <2>2. /\ DOMAIN s = DOMAIN settings /\ s.targets = settings.targets
        /\ ParsesGb(text) => s.daily_budget_bytes = bytes
        /\ s.throughput_every = settings.throughput_every
    BY <1>1
  <2> HIDE DEF s
  <2>3. BudgetShown'
    BY <2>1, <2>2 DEF BudgetShown, ParsesGb, bytes
  <2> QED
    BY <1>1, <2>1, <2>2, <2>3, IntervalStays, SettingChanged
<1> QED
  BY <1>2, <1>3 DEF BudgetSection

\* A start after the program has ended.
LEMMA Restarted ==
  ASSUME ScreenInv, StoredInv, Restart
  PROVE  ScreenInv' /\ Loadable(settings')
<1> DEFINE file == Parse(ToToml(settings))
           loaded == IF file.ok THEN file.settings ELSE DefaultSettings
<1>1. Loadable(loaded)
  <2>1. Loadable(settings)
    BY DEF ScreenInv, IntervalShown, StoredInv, Loadable
  <2>2. file.ok => Loadable(file.settings)
    BY <2>1, CommittedIsLoadable
  <2> HIDE DEF file
  <2> QED
    BY <2>2, DefaultsAreLoadable
<1>2. /\ settings' = loaded
      /\ target_port_text' = [i \in DOMAIN loaded.targets |-> PortTextFor(loaded.targets[i])]
      /\ interval_text' = NumeralOf(loaded.throughput_every \div 60)
      /\ budget_gb_text' = IF loaded.daily_budget_bytes = {} THEN "5.0"
                           ELSE GbTextOf[Only(loaded.daily_budget_bytes)]
      /\ removed_target' = {} /\ before' = <<>> /\ restarts' = restarts + 1
  BY DEF Restart, Booted
<1> HIDE DEF loaded
<1>3. /\ {"throughput_every", "daily_budget_bytes", "targets"} \subseteq DOMAIN loaded
      /\ RowsAgree(loaded.targets, target_port_text')
      /\ WholeMinutes(loaded.throughput_every)
      /\ ParsesMinutes(interval_text') =>
           loaded.throughput_every = NumberOf[interval_text'] * 60
  BY <1>1, <1>2, LoadedIsShown
<1>4. TableInv'
  BY <1>2, <1>3 DEF TableInv, UndoIsInverse
<1>5. IntervalShown'
  BY <1>2, <1>3 DEF IntervalShown, ParsesMinutes
<1>6. BudgetShown'
  BY <1>2 DEF BudgetShown
<1>7. restarts' \in Nat
  BY <1>2 DEF ScreenInv
<1> QED
  BY <1>1, <1>2, <1>4, <1>5, <1>6, <1>7 DEF ScreenInv

\* The offer may end, help be opened, a preference changed: the table, the
\* interval and the budget stay.
LEMMA RestStays ==
  ASSUME ScreenInv,
         UNCHANGED <<settings, target_port_text, interval_text, budget_gb_text, restarts, before>>,
         removed_target' \subseteq removed_target
  PROVE  ScreenInv'
<1>1. TableInv'
  BY TableStays DEF ScreenInv, TableInv
<1> QED
  BY <1>1, IntervalStays, BudgetStays DEF ScreenInv

LEMMA ScreenInvStep == ScreenInv /\ StoredInv /\ [Next]_vars => ScreenInv'
<1> SUFFICES ASSUME ScreenInv, StoredInv, [Next]_vars PROVE ScreenInv'
  OBVIOUS
<1>1. ASSUME NEW index \in DOMAIN settings.targets, TargetRow(index) PROVE ScreenInv'
  BY <1>1, TargetRowKeeps
<1>2. CASE AddTargetRow
  BY <1>2, TargetAdded DEF AddTargetRow
<1>3. CASE UndoTargetRemoval
  BY <1>3, RemovalUndone
<1>4. ASSUME NEW timer \in timers, UndoRemovalExpired(timer) PROVE ScreenInv'
  <2>1. removed_target' \subseteq removed_target
    BY <1>4 DEF UndoRemovalExpired
  <2> QED
    BY <1>4, <2>1, RestStays DEF UndoRemovalExpired
<1>5. CASE Escape_
  <2>1. removed_target' \subseteq removed_target
    BY <1>5 DEF Escape_
  <2> QED
    BY <1>5, <2>1, RestStays DEF Escape_
<1>6. CASE OpenHelp
  BY <1>6, RestStays DEF OpenHelp, undo
<1>7. CASE IntervalRow
  BY <1>7, IntervalEdited DEF IntervalRow
<1>8. CASE MetricsRow
  BY <1>8, MetricEdited DEF MetricsRow
<1>9. CASE BudgetSection
  BY <1>9, BudgetEdited
<1>10. CASE ThemeRow \/ NotificationsSection
  <2>1. PICK field, value : UiSetting(field, value)
    BY <1>10, Zenon DEF ThemeRow, NotificationsSection
  <2> QED
    BY <2>1, RestStays DEF UiSetting, Edit, undo
<1>11. CASE Restart
  BY <1>11, Restarted
<1>12. CASE UNCHANGED vars
  BY <1>12, RestStays DEF vars, undo
<1> QED
  BY <1>1, <1>2, <1>3, <1>4, <1>5, <1>6, <1>7, <1>8, <1>9, <1>10, <1>11, <1>12, Zenon DEF Next

-----------------------------------------------------------------------------
\* One setting is changed to what it can hold.
LEMMA SettingStored ==
  ASSUME NEW s, Storable(s), NEW field \in Fields, NEW value, Fits(field, value),
         field \in {"throughput_every", "ping_every"} => value >= MIN_CADENCE
  PROVE  Storable([s EXCEPT ![field] = value])
<1> DEFINE t == [s EXCEPT ![field] = value]
<1>1. Valued(s) /\ s.throughput_every >= MIN_CADENCE /\ s.ping_every >= MIN_CADENCE
  BY StorableIs
<1>2. /\ Valued(t)
      /\ \A other \in Fields : t[other] = IF other = field THEN value ELSE s[other]
  BY <1>1, FieldChanged
<1> HIDE DEF t
<1>3. t.throughput_every >= MIN_CADENCE /\ t.ping_every >= MIN_CADENCE
  BY <1>1, <1>2 DEF Fields
<1> QED
  BY <1>2, <1>3, StorableIs DEF t

\* Rows, all of which can be written.
Rows(targets) ==
  IsSequence(targets) /\ \A i \in 1..Len(targets) : StorableTarget(targets[i])

LEMMA RowsFit == \A targets : Fits("targets", targets) <=> Rows(targets)
<1> SUFFICES ASSUME NEW targets PROVE Fits("targets", targets) <=> Rows(targets)
  OBVIOUS
<1>1. IsSequence(targets) => DOMAIN targets = 1..Len(targets)
  BY SequenceDomain
<1>2. IsString(targets) <=> IsSequence(targets)
  BY StringsAreSequences, Zenon
<1>3. (\A target \in ToSet(targets) : StorableTarget(target))
        <=> \A i \in DOMAIN targets : StorableTarget(targets[i])
  BY DEF ToSet
<1>4. Fits("targets", targets)
        <=> IsString(targets) /\ \A target \in ToSet(targets) : StorableTarget(target)
  BY DEF Fits
<1> QED
  BY <1>1, <1>2, <1>3, <1>4, Zenon DEF Rows

LEMMA RowsOfSettings ==
  ASSUME NEW s, Storable(s)
  PROVE  Rows(s.targets) /\ DOMAIN s.targets = 1..Len(s.targets)
<1>1. Fits("targets", s.targets)
  BY DEF Storable, Fits
<1> QED
  BY <1>1, RowsFit, SequenceDomain, Zenon DEF Rows

LEMMA RowsStored ==
  ASSUME StoredInv, NEW targets, NEW texts, SetRows(targets, texts), Rows(targets),
         \A removed \in removed_target' : StorableTarget(removed.target)
  PROVE  StoredInv'
<1>1. Storable([settings EXCEPT !.targets = targets])
  <2>1. Fits("targets", targets) /\ "targets" \in Fields
    BY RowsFit DEF Fields
  <2> QED
    BY <2>1, SettingStored DEF StoredInv
<1>2. settings' = [settings EXCEPT !.targets = targets] /\ ui_settings' = ui_settings
  BY DEF SetRows
<1> QED
  BY <1>1, <1>2 DEF StoredInv

LEMMA RowAdded ==
  ASSUME NEW targets, Rows(targets), NEW target, StorableTarget(target)
  PROVE  Rows(Append(targets, target))
BY RowsFit, TargetsFit, Zenon

LEMMA RowTaken ==
  ASSUME NEW targets, Rows(targets), NEW i \in 1..Len(targets)
  PROVE  Rows(RemoveAt(targets, i))
<1>1. Len(targets) \in Nat
  BY SequenceDomain DEF Rows
<1>2. /\ IsSequence(RemoveAt(targets, i)) /\ Len(RemoveAt(targets, i)) = Len(targets) - 1
      /\ \A j \in 1..(Len(targets) - 1) :
           RemoveAt(targets, i)[j] = IF j < i THEN targets[j] ELSE targets[j + 1]
  BY RemovedFromSequence DEF Rows
<1>3. ASSUME NEW j \in 1..(Len(targets) - 1) PROVE StorableTarget(RemoveAt(targets, i)[j])
  <2>1. j \in 1..Len(targets) /\ j + 1 \in 1..Len(targets)
    BY <1>1
  <2> QED
    BY <1>2, <2>1, Zenon DEF Rows
<1> QED
  BY <1>2, <1>3 DEF Rows

LEMMA RowPutBack ==
  ASSUME NEW targets, Rows(targets), NEW i \in 1..(Len(targets) + 1),
         NEW target, StorableTarget(target)
  PROVE  Rows(InsertAt(targets, i, target))
<1>1. Len(targets) \in Nat
  BY SequenceDomain DEF Rows
<1>2. /\ IsSequence(InsertAt(targets, i, target))
      /\ Len(InsertAt(targets, i, target)) = Len(targets) + 1
      /\ \A j \in 1..(Len(targets) + 1) :
           InsertAt(targets, i, target)[j] =
             IF j < i THEN targets[j] ELSE IF j = i THEN target ELSE targets[j - 1]
  BY InsertedIntoSequence DEF Rows
<1>3. ASSUME NEW j \in 1..(Len(targets) + 1)
      PROVE  StorableTarget(InsertAt(targets, i, target)[j])
  <2>1. /\ j < i => j \in 1..Len(targets)
        /\ ~(j < i) /\ j # i => j - 1 \in 1..Len(targets)
    BY <1>1
  <2> QED
    BY <1>2, <2>1, Zenon DEF Rows
<1> QED
  BY <1>2, <1>3 DEF Rows

LEMMA RowReplaced ==
  ASSUME NEW targets, Rows(targets), NEW i \in 1..Len(targets),
         NEW target, StorableTarget(target)
  PROVE  Rows([targets EXCEPT ![i] = target])
<1>1. PICK S : targets \in Seq(S)
  BY DEF Rows, IsSequence
<1>2. targets \in Seq(S \cup {target})
  BY <1>1, SeqMonotonic, Zenon
<1>3. /\ [targets EXCEPT ![i] = target] \in Seq(S \cup {target})
      /\ Len([targets EXCEPT ![i] = target]) = Len(targets)
      /\ \A j \in 1..Len(targets) :
           [targets EXCEPT ![i] = target][j] = IF j = i THEN target ELSE targets[j]
  BY <1>2, ExceptSeq
<1>4. \A j \in 1..Len(targets) : StorableTarget([targets EXCEPT ![i] = target][j])
  BY <1>3, Zenon DEF Rows
<1> QED
  BY <1>3, <1>4, Zenon DEF Rows, IsSequence

\* What a target that can be written is made of.
LEMMA TargetIsRecord ==
  ASSUME NEW target, StorableTarget(target)
  PROVE  /\ target = [key \in DOMAIN TargetKeys |-> target[key]]
         /\ DOMAIN target = {"name", "kind", "host", "port", "verified", "enabled"}
<1>1. target = [key \in DOMAIN TargetKeys |-> target[key]]
  BY DEF StorableTarget
<1>2. DOMAIN target = DOMAIN TargetKeys
  BY <1>1
<1> QED
  BY <1>1, <1>2, TargetKeysAre

\* A target but for one of its keys.
KeyIsSet(t, target, key, value) ==
  /\ t = [k \in DOMAIN TargetKeys |-> t[k]]
  /\ \A k \in DOMAIN TargetKeys : t[k] = IF k = key THEN value ELSE target[k]

LEMMA KeyChanged ==
  ASSUME NEW target, StorableTarget(target), NEW key \in DOMAIN TargetKeys, NEW value
  PROVE  KeyIsSet([target EXCEPT ![key] = value], target, key, value)
<1>1. target = [k \in DOMAIN TargetKeys |-> target[k]]
  BY DEF StorableTarget
<1> QED
  BY <1>1 DEF KeyIsSet

LEMMA TextChanged ==
  ASSUME NEW target, StorableTarget(target), NEW text, IsString(text)
  PROVE  /\ StorableTarget([target EXCEPT !.name = text])
         /\ StorableTarget([target EXCEPT !.host = text])
<1>1. \A key \in {"name", "host"} : StorableTarget([target EXCEPT ![key] = text])
  <2> SUFFICES ASSUME NEW key \in {"name", "host"}
               PROVE  StorableTarget([target EXCEPT ![key] = text])
    OBVIOUS
  <2> DEFINE t == [target EXCEPT ![key] = text]
  <2>1. /\ t = [k \in DOMAIN TargetKeys |-> t[k]]
        /\ \A k \in DOMAIN TargetKeys : t[k] = IF k = key THEN text ELSE target[k]
    <3>1. key \in DOMAIN TargetKeys
      BY TargetKeysAre
    <3>2. KeyIsSet(t, target, key, text)
      BY <3>1, KeyChanged, Zenon
    <3> QED
      BY <3>2, Zenon DEF KeyIsSet
  <2> HIDE DEF t
  <2>2. /\ t.name \in {text, target.name} /\ t.host \in {text, target.host}
        /\ t.kind = target.kind /\ t.port = target.port
        /\ t.verified = target.verified /\ t.enabled = target.enabled
    BY <2>1, TargetKeysAre
  <2>3. StorableTarget(t)
    BY <2>1, <2>2, Zenon DEF StorableTarget
  <2> QED
    BY <2>3 DEF t
<1> QED
  BY <1>1

LEMMA Toggled ==
  ASSUME NEW target, StorableTarget(target)
  PROVE  StorableTarget([target EXCEPT !.enabled = ~@])
<1> DEFINE other == ~target.enabled
           t == [target EXCEPT !.enabled = other]
<1>1. other \in BOOLEAN
  BY DEF StorableTarget
<1> HIDE DEF other
<1>2. /\ t = [k \in DOMAIN TargetKeys |-> t[k]]
      /\ \A k \in DOMAIN TargetKeys : t[k] = IF k = "enabled" THEN other ELSE target[k]
  <2>1. "enabled" \in DOMAIN TargetKeys
    BY TargetKeysAre
  <2>2. KeyIsSet(t, target, "enabled", other)
    BY <2>1, KeyChanged, Zenon
  <2> QED
    BY <2>2, Zenon DEF KeyIsSet
<1> HIDE DEF t
<1>3. /\ t.name = target.name /\ t.host = target.host
      /\ t.kind = target.kind /\ t.port = target.port
      /\ t.verified = target.verified /\ t.enabled = other
  BY <1>2, TargetKeysAre
<1>4. StorableTarget(t)
  BY <1>1, <1>2, <1>3, Zenon DEF StorableTarget
<1>5. t = [target EXCEPT !.enabled = ~@]
  BY DEF t, other
<1> QED
  BY <1>4, <1>5

\* A port a row can have.
IsPort(port) == \E n \in Written : n <= MaxPort /\ port = {n}

LEMMA PortsOfTexts ==
  /\ \A text : ParsesPort(text) => IsPort({NumberOf[text]})
  /\ IsPort({DefaultTcpPort})
<1>1. \A text : ParsesPort(text) => IsPort({NumberOf[text]})
  BY DEF ParsesPort, IsPort, Written
<1>2. IsPort({DefaultTcpPort})
  BY FallbackAssumption DEF IsPort, DefaultTcpPort, MaxPort
<1> QED
  BY <1>1, <1>2

\* A target with a port of its kind.
LEMMA PortChanged ==
  ASSUME NEW target, StorableTarget(target), NEW kind \in Kinds, NEW port,
         kind = Icmp => port = {}, kind = Tcp => IsPort(port)
  PROVE  StorableTarget([target EXCEPT !.kind = kind, !.port = port])
<1> DEFINE t == [target EXCEPT !.kind = kind, !.port = port]
<1>1. /\ target = [key \in DOMAIN TargetKeys |-> target[key]]
      /\ DOMAIN target = {"name", "kind", "host", "port", "verified", "enabled"}
  BY TargetIsRecord
<1>2. /\ t = [key \in DOMAIN TargetKeys |-> t[key]]
      /\ t.name = target.name /\ t.host = target.host
      /\ t.kind = kind /\ t.port = port
      /\ t.verified = target.verified /\ t.enabled = target.enabled
  BY <1>1, TargetKeysAre
<1> HIDE DEF t
<1>3. StorableTarget(t)
  BY <1>2, Zenon DEF StorableTarget, Kinds, IsPort
<1> QED
  BY <1>3 DEF t

LEMMA KindChanged ==
  ASSUME NEW target, StorableTarget(target), NEW kind \in Kinds, NEW text
  PROVE  StorableTarget(WithKind(target, kind, text))
<1> DEFINE port == CASE kind = Icmp -> {}
                     [] kind = Tcp /\ ParsesPort(text) -> {NumberOf[text]}
                     [] OTHER -> {DefaultTcpPort}
<1>1. Icmp # Tcp
  BY DEF Icmp, Tcp
<1>2. kind = Icmp => port = {}
  BY <1>1
<1>3. kind = Tcp => port \in {{NumberOf[text]}, {DefaultTcpPort}}
                    /\ (~ParsesPort(text) => port = {DefaultTcpPort})
  BY <1>1
<1> HIDE DEF port
<1>4. kind = Tcp => IsPort(port)
  BY <1>3, PortsOfTexts, Zenon
<1>5. WithKind(target, kind, text) = [target EXCEPT !.kind = kind, !.port = port]
  BY DEF WithKind, port
<1>6. StorableTarget([target EXCEPT !.kind = kind, !.port = port])
  BY <1>2, <1>4, PortChanged
<1> QED
  BY <1>5, <1>6

LEMMA PortTyped ==
  ASSUME NEW target, StorableTarget(target), target.kind = Tcp, NEW text, ParsesPort(text)
  PROVE  StorableTarget([target EXCEPT !.port = {NumberOf[text]}])
<1> DEFINE port == {NumberOf[text]}
<1>1. IsPort(port) /\ Icmp # Tcp /\ Tcp \in Kinds
  BY PortsOfTexts DEF Icmp, Tcp, Kinds
<1> HIDE DEF port
<1>2. StorableTarget([target EXCEPT !.kind = Tcp, !.port = port])
  BY <1>1, PortChanged
<1>3. [target EXCEPT !.kind = Tcp, !.port = port] = [target EXCEPT !.port = port]
  BY TargetIsRecord
<1> QED
  BY <1>2, <1>3 DEF port

LEMMA FormIsStorable ==
  ASSUME NEW form \in Forms, ValidForm(form)
  PROVE  StorableTarget(NewTargetOf(form))
<1> DEFINE port == IF form.kind = Tcp THEN {NumberOf[form.port]} ELSE {}
           t == NewTargetOf(form)
<1>1. form.kind = Tcp => IsPort(port)
  BY PortsOfTexts DEF ValidForm
<1>2. form.kind \in {Icmp, Tcp} /\ Icmp # Tcp /\ (form.kind = Icmp => port = {})
  BY DEF Forms, Kinds, Icmp, Tcp
<1>3. IsString(form.name) /\ IsString(form.host)
  BY TextAssumption DEF Forms
<1>4. t = [name |-> form.name, kind |-> form.kind, host |-> form.host, port |-> port,
           verified |-> TRUE, enabled |-> TRUE]
  BY DEF NewTargetOf
<1> HIDE DEF port, t
<1>5. /\ t = [key \in DOMAIN TargetKeys |-> t[key]]
      /\ t.name = form.name /\ t.host = form.host /\ t.kind = form.kind /\ t.port = port
      /\ t.verified = TRUE /\ t.enabled = TRUE
  BY <1>4, TargetKeysAre
<1>6. StorableTarget(t)
  BY <1>1, <1>2, <1>3, <1>5, Zenon DEF StorableTarget, IsPort
<1> QED
  BY <1>6 DEF t

\* The preferences, one of them changed.
IsPreference(field, value) ==
  \/ field = "theme" /\ value \in Themes
  \/ field \in UiFlags /\ value \in BOOLEAN
  \/ field \in UiNumbers /\ value \in Written

LEMMA PreferenceStored ==
  ASSUME NEW ui, StorableUi(ui), NEW field, NEW value, IsPreference(field, value)
  PROVE  StorableUi([ui EXCEPT ![field] = value])
<1> DEFINE t == [ui EXCEPT ![field] = value]
           keys == ToSet(UiKeys)
<1>1. ui = [key \in keys |-> ui[key]]
  BY DEF StorableUi
<1>2. keys = {"theme"} \cup UiFlags \cup UiNumbers
  BY UiKeysAre
<1> HIDE DEF keys
<1>3. field \in keys
  BY <1>2 DEF IsPreference
<1>4. /\ t = [key \in keys |-> t[key]]
      /\ \A key \in keys : t[key] = IF key = field THEN value ELSE ui[key]
  BY <1>1, <1>3
<1>5. /\ "theme" \notin UiFlags \cup UiNumbers
      /\ UiFlags \cap UiNumbers = {}
  BY DEF UiFlags, UiNumbers
<1> HIDE DEF t
<1>6. /\ ui.theme \in Themes
      /\ \A key \in UiFlags : ui[key] \in BOOLEAN
      /\ \A key \in UiNumbers : ui[key] \in Written
  BY DEF StorableUi
<1>7. t.theme \in Themes
  BY <1>2, <1>4, <1>5, <1>6 DEF IsPreference
<1>8. ASSUME NEW key \in UiFlags PROVE t[key] \in BOOLEAN
  <2>1. key \in keys /\ key # "theme" /\ key \notin UiNumbers
    BY <1>2, <1>5
  <2>2. CASE key = field
    BY <1>4, <2>1, <2>2, Zenon DEF IsPreference
  <2>3. CASE key # field
    BY <1>4, <1>6, <2>1, <2>3, Zenon
  <2> QED
    BY <2>2, <2>3
<1>9. ASSUME NEW key \in UiNumbers PROVE t[key] \in Written
  <2>1. key \in keys /\ key # "theme" /\ key \notin UiFlags
    BY <1>2, <1>5
  <2>2. CASE key = field
    BY <1>4, <2>1, <2>2, Zenon DEF IsPreference
  <2>3. CASE key # field
    BY <1>4, <1>6, <2>1, <2>3, Zenon
  <2> QED
    BY <2>2, <2>3
<1>10. StorableUi(t)
  BY <1>4, <1>7, <1>8, <1>9, Zenon DEF StorableUi, keys
<1> QED
  BY <1>10 DEF t

LEMMA StoredInvInit == Init => StoredInv
BY DefaultsAssumption DEF Init, StoredInv

LEMMA TargetAddedStored ==
  ASSUME StoredInv, NEW form \in Forms, AddTarget(form)
  PROVE  StoredInv'
<1> DEFINE target == NewTargetOf(form)
           text == PortTextFor(target)
<1>1. StorableTarget(target)
  BY FormIsStorable DEF AddTarget
<1>2. /\ SetRows(Append(settings.targets, target), Append(target_port_text, text))
      /\ removed_target' = removed_target
  BY DEF AddTarget, undo
<1> HIDE DEF target, text
<1>3. Rows(Append(settings.targets, target))
  BY <1>1, RowsOfSettings, RowAdded DEF StoredInv
<1>4. \A removed \in removed_target' : StorableTarget(removed.target)
  BY <1>2 DEF StoredInv
<1> QED
  BY <1>2, <1>3, <1>4, RowsStored

LEMMA TargetRemovedStored ==
  ASSUME StoredInv, NEW index \in DOMAIN settings.targets, RemoveTarget(index)
  PROVE  StoredInv'
<1> DEFINE taken == [index |-> index, target |-> settings.targets[index],
                     port_text |-> target_port_text[index]]
<1>1. Rows(settings.targets) /\ index \in 1..Len(settings.targets)
  BY RowsOfSettings DEF StoredInv
<1>2. Rows(RemoveAt(settings.targets, index))
  BY <1>1, RowTaken
<1>3. /\ SetRows(RemoveAt(settings.targets, index), RemoveAt(target_port_text, index))
      /\ removed_target' = {taken}
  BY DEF RemoveTarget, Offer
<1>4. taken.target = settings.targets[index]
  OBVIOUS
<1> HIDE DEF taken
<1>5. \A removed \in removed_target' : StorableTarget(removed.target)
  BY <1>1, <1>3, <1>4 DEF Rows
<1> QED
  BY <1>2, <1>3, <1>5, RowsStored

LEMMA RemovalUndoneStored ==
  ASSUME ScreenInv, StoredInv, UndoTargetRemoval
  PROVE  StoredInv'
<1>1. PICK removed \in removed_target : SetRows(Restored(removed)[1], Restored(removed)[2])
  BY DEF UndoTargetRemoval
<1> DEFINE targets == settings.targets
           index == IF removed.index <= Len(targets) THEN removed.index ELSE Len(targets) + 1
<1>2. Restored(removed)[1] = InsertAt(targets, index, removed.target)
  BY DEF Restored
<1>3. Rows(targets) /\ Len(targets) \in Nat
  BY RowsOfSettings, SequenceDomain DEF StoredInv, Rows
<1>4. StorableTarget(removed.target) /\ removed.index \in Nat \ {0}
  BY DEF StoredInv, ScreenInv, TableInv, OfferAgrees
<1>5. index \in 1..(Len(targets) + 1)
  BY <1>3, <1>4
<1> HIDE DEF targets, index
<1>6. Rows(Restored(removed)[1])
  BY <1>2, <1>3, <1>4, <1>5, RowPutBack
<1>7. removed_target' = {}
  BY DEF UndoTargetRemoval
<1> QED
  BY <1>1, <1>6, <1>7, RowsStored

LEMMA RowEditedStored ==
  ASSUME StoredInv, NEW index \in DOMAIN settings.targets, NEW target, NEW text,
         EditRow(index, target, text), StorableTarget(target)
  PROVE  StoredInv'
<1>1. Rows(settings.targets) /\ index \in 1..Len(settings.targets)
  BY RowsOfSettings DEF StoredInv
<1>2. Rows([settings.targets EXCEPT ![index] = target])
  BY <1>1, RowReplaced
<1>3. /\ SetRows([settings.targets EXCEPT ![index] = target],
                 [target_port_text EXCEPT ![index] = text])
      /\ removed_target' = removed_target
  BY DEF EditRow, undo
<1>4. \A removed \in removed_target' : StorableTarget(removed.target)
  BY <1>3 DEF StoredInv
<1> QED
  BY <1>2, <1>3, <1>4, RowsStored

LEMMA TargetRowStored ==
  ASSUME StoredInv, NEW index \in DOMAIN settings.targets, TargetRow(index)
  PROVE  StoredInv'
<1> DEFINE target == settings.targets[index]
           text == target_port_text[index]
<1>1. StorableTarget(target)
  BY RowsOfSettings DEF StoredInv, Rows
<1>2. CASE RemoveTarget(index)
  BY <1>2, TargetRemovedStored
<1>3. CASE ToggleTarget(index)
  <2>1. EditRow(index, [target EXCEPT !.enabled = ~@], text)
    BY <1>3 DEF ToggleTarget
  <2> HIDE DEF target, text
  <2>2. StorableTarget([target EXCEPT !.enabled = ~@])
    BY <1>1, Toggled
  <2> QED
    BY <2>1, <2>2, RowEditedStored
<1>4. ASSUME NEW name \in Names, EditName(index, name) PROVE StoredInv'
  <2>1. EditRow(index, [target EXCEPT !.name = name], text)
    BY <1>4 DEF EditName
  <2> HIDE DEF target, text
  <2>2. StorableTarget([target EXCEPT !.name = name])
    BY <1>1, TextAssumption, TextChanged
  <2> QED
    BY <2>1, <2>2, RowEditedStored
<1>5. ASSUME NEW host \in Hosts, EditHost(index, host) PROVE StoredInv'
  <2>1. EditRow(index, [target EXCEPT !.host = host], text)
    BY <1>5 DEF EditHost
  <2> HIDE DEF target, text
  <2>2. StorableTarget([target EXCEPT !.host = host])
    BY <1>1, TextAssumption, TextChanged
  <2> QED
    BY <2>1, <2>2, RowEditedStored
<1>6. ASSUME NEW kind \in Kinds, EditKind(index, kind) PROVE StoredInv'
  <2>1. EditRow(index, WithKind(target, kind, text), text)
    BY <1>6 DEF EditKind
  <2> HIDE DEF target, text
  <2>2. StorableTarget(WithKind(target, kind, text))
    BY <1>1, KindChanged
  <2> QED
    BY <2>1, <2>2, RowEditedStored
<1>7. ASSUME NEW typed \in PortTexts, EditPort(index, typed) PROVE StoredInv'
  <2> DEFINE other == IF ParsesPort(typed) THEN [target EXCEPT !.port = {NumberOf[typed]}]
                      ELSE target
  <2>1. EditRow(index, other, typed) /\ target.kind = Tcp
    BY <1>7 DEF EditPort
  <2> HIDE DEF target
  <2>2. StorableTarget(other)
    BY <1>1, <2>1, PortTyped
  <2> HIDE DEF other
  <2> QED
    BY <2>1, <2>2, RowEditedStored
<1> QED
  BY <1>2, <1>3, <1>4, <1>5, <1>6, <1>7, Zenon DEF TargetRow

LEMMA IntervalStored ==
  ASSUME StoredInv, NEW text \in IntervalTexts, IntervalMinutes(text)
  PROVE  StoredInv'
<1> DEFINE n == NumberOf[text] * 60
<1>1. UNCHANGED <<ui_settings, removed_target>>
  BY DEF IntervalMinutes, KeepRows, undo
<1>2. CASE ~ParsesMinutes(text)
  <2>1. settings' = settings
    BY <1>2 DEF IntervalMinutes
  <2> QED
    BY <1>1, <2>1 DEF StoredInv
<1>3. CASE ParsesMinutes(text)
  <2>1. n \in Written /\ n >= MIN_CADENCE
    BY <1>3, IntervalAssumption DEF ParsesMinutes
  <2>2. settings' = [settings EXCEPT !.throughput_every = n]
    BY <1>3 DEF IntervalMinutes
  <2> HIDE DEF n
  <2>3. "throughput_every" \in Fields /\ Fits("throughput_every", n)
    BY <2>1 DEF Fits, Fields
  <2>4. Storable([settings EXCEPT !.throughput_every = n])
    BY <2>1, <2>3, SettingStored DEF StoredInv
  <2> QED
    BY <1>1, <2>2, <2>4 DEF StoredInv
<1> QED
  BY <1>2, <1>3

LEMMA MetricStored ==
  ASSUME StoredInv, NEW metric \in {"download", "upload", "ping"}, NEW checked \in BOOLEAN,
         Metric(metric, checked)
  PROVE  StoredInv'
<1>1. UNCHANGED <<ui_settings, removed_target>>
  BY DEF Metric, KeepRows, undo
<1>2. settings' = [settings EXCEPT ![metric] = checked]
  BY DEF Metric
<1>3. metric \in Fields /\ metric \notin {"throughput_every", "ping_every"}
  BY DEF Fields
<1>4. Fits(metric, checked)
  <2>1. /\ metric \notin {"throughput_every", "ping_every", "raw_ping_retention_days"}
        /\ metric # "daily_budget_bytes" /\ metric \notin {"download_url", "upload_url"}
        /\ metric # "targets"
    OBVIOUS
  <2> QED
    BY <2>1, Zenon DEF Fits
<1>5. Storable([settings EXCEPT ![metric] = checked])
  BY <1>3, <1>4, SettingStored, Zenon DEF StoredInv
<1> QED
  BY <1>1, <1>2, <1>5 DEF StoredInv

\* A budget that can be written, or none.
LEMMA BudgetStored ==
  ASSUME StoredInv, NEW bytes, bytes = {} \/ \E n \in Written : bytes = {n},
         settings' \in {settings, [settings EXCEPT !.daily_budget_bytes = bytes]},
         UNCHANGED <<ui_settings, removed_target>>
  PROVE  StoredInv'
<1>1. "daily_budget_bytes" \in Fields /\ Fits("daily_budget_bytes", bytes)
  BY DEF Fits, Fields
<1>2. Storable([settings EXCEPT !.daily_budget_bytes = bytes])
  BY <1>1, SettingStored DEF StoredInv
<1> QED
  BY <1>2 DEF StoredInv

LEMMA BudgetSectionStored ==
  ASSUME StoredInv, BudgetSection
  PROVE  StoredInv'
<1>1. \A text : ParsesGb(text) => GbOf[text].bytes \in Written
  BY BudgetAssumption DEF ParsesGb
<1>2. FiveGb \in Written
  BY FallbackAssumption DEF FiveGb
<1>3. ASSUME NEW on \in BOOLEAN, BudgetEnabled(on) PROVE StoredInv'
  <2> DEFINE bytes == CASE ~on -> {}
                        [] on /\ ParsesGb(budget_gb_text) -> {GbOf[budget_gb_text].bytes}
                        [] OTHER -> {FiveGb}
  <2>1. settings' = [settings EXCEPT !.daily_budget_bytes = bytes]
    BY <1>3 DEF BudgetEnabled
  <2>2. UNCHANGED <<ui_settings, removed_target>>
    BY <1>3 DEF BudgetEnabled, KeepRows, undo
  <2>3. bytes = {} \/ \E n \in Written : bytes = {n}
    BY <1>1, <1>2
  <2> HIDE DEF bytes
  <2> QED
    BY <2>1, <2>2, <2>3, BudgetStored
<1>4. ASSUME NEW text \in GbTexts, BudgetGb(text) PROVE StoredInv'
  <2>1. UNCHANGED <<ui_settings, removed_target>>
    BY <1>4 DEF BudgetGb, KeepRows, undo
  <2>2. CASE ~ParsesGb(text)
    <3>1. settings' = settings
      BY <1>4, <2>2 DEF BudgetGb
    <3> QED
      BY <2>1, <3>1 DEF StoredInv
  <2>3. CASE ParsesGb(text)
    <3> DEFINE bytes == {GbOf[text].bytes}
    <3>1. settings' = [settings EXCEPT !.daily_budget_bytes = bytes]
      BY <1>4, <2>3 DEF BudgetGb
    <3>2. bytes = {} \/ \E n \in Written : bytes = {n}
      BY <1>1, <2>3
    <3> HIDE DEF bytes
    <3> QED
      BY <2>1, <3>1, <3>2, BudgetStored
  <2> QED
    BY <2>2, <2>3
<1> QED
  BY <1>3, <1>4 DEF BudgetSection

LEMMA UiSettingStored ==
  ASSUME StoredInv, NEW change \in UiChanges, UiSetting(change[1], change[2])
  PROVE  StoredInv'
<1>1. IsPreference(change[1], change[2])
  BY UiAssumption, Zenon DEF IsPreference
<1>2. /\ ui_settings' = [ui_settings EXCEPT ![change[1]] = change[2]]
      /\ settings' = settings /\ removed_target' = removed_target
  BY DEF UiSetting, undo
<1>3. StorableUi([ui_settings EXCEPT ![change[1]] = change[2]])
  BY <1>1, PreferenceStored, Zenon DEF StoredInv
<1> QED
  BY <1>2, <1>3 DEF StoredInv

LEMMA RestartedStored ==
  ASSUME ScreenInv, StoredInv, Restart
  PROVE  StoredInv'
<1> DEFINE read == ParseUi(UiToToml(ui_settings))
           ui == IF read.ok THEN read.ui ELSE DefaultUi
<1>1. Storable(settings')
  BY Restarted DEF Loadable
<1>2. read = [ok |-> TRUE, ui |-> ui_settings]
  BY UiFileIsRead DEF StoredInv
<1>3. ui = ui_settings
  BY <1>2
<1>4. /\ ui_settings' = IF ThemeFlag = "" THEN ui ELSE [ui EXCEPT !.theme = ThemeFlag]
      /\ removed_target' = {}
  BY DEF Restart, Booted
<1> HIDE DEF ui, read
<1>5. StorableUi(ui_settings')
  <2>1. CASE ThemeFlag = ""
    BY <1>3, <1>4, <2>1 DEF StoredInv
  <2>2. CASE ThemeFlag # ""
    <3>1. IsPreference("theme", ThemeFlag)
      BY <2>2, UiAssumption DEF IsPreference
    <3>2. StorableUi([ui_settings EXCEPT !["theme"] = ThemeFlag])
      BY <3>1, PreferenceStored DEF StoredInv
    <3> QED
      BY <1>3, <1>4, <2>2, <3>2
  <2> QED
    BY <2>1, <2>2
<1> QED
  BY <1>1, <1>4, <1>5 DEF StoredInv

LEMMA OfferShrinksStored ==
  ASSUME StoredInv, UNCHANGED <<settings, ui_settings>>, removed_target' \subseteq removed_target
  PROVE  StoredInv'
BY DEF StoredInv

LEMMA StoredInvStep == ScreenInv /\ StoredInv /\ [Next]_vars => StoredInv'
<1> SUFFICES ASSUME ScreenInv, StoredInv, [Next]_vars PROVE StoredInv'
  OBVIOUS
<1>1. ASSUME NEW index \in DOMAIN settings.targets, TargetRow(index) PROVE StoredInv'
  BY <1>1, TargetRowStored
<1>2. CASE AddTargetRow
  BY <1>2, TargetAddedStored DEF AddTargetRow
<1>3. CASE UndoTargetRemoval
  BY <1>3, RemovalUndoneStored
<1>4. ASSUME NEW timer \in timers, UndoRemovalExpired(timer) PROVE StoredInv'
  <2>1. removed_target' \subseteq removed_target
    BY <1>4 DEF UndoRemovalExpired
  <2> QED
    BY <1>4, <2>1, OfferShrinksStored DEF UndoRemovalExpired
<1>5. CASE Escape_
  <2>1. removed_target' \subseteq removed_target
    BY <1>5 DEF Escape_
  <2> QED
    BY <1>5, <2>1, OfferShrinksStored DEF Escape_
<1>6. CASE OpenHelp
  BY <1>6, OfferShrinksStored DEF OpenHelp, undo
<1>7. CASE IntervalRow
  BY <1>7, IntervalStored DEF IntervalRow
<1>8. CASE MetricsRow
  BY <1>8, MetricStored DEF MetricsRow
<1>9. CASE BudgetSection
  BY <1>9, BudgetSectionStored
<1>10. CASE ThemeRow \/ NotificationsSection
  BY <1>10, UiSettingStored, Zenon DEF ThemeRow, NotificationsSection
<1>11. CASE Restart
  BY <1>11, RestartedStored
<1>12. CASE UNCHANGED vars
  BY <1>12, OfferShrinksStored DEF vars, undo
<1> QED
  BY <1>1, <1>2, <1>3, <1>4, <1>5, <1>6, <1>7, <1>8, <1>9, <1>10, <1>11, <1>12, Zenon DEF Next

LEMMA StoredIsReadBack == StoredInv => CommittedIsReadBack
<1> SUFFICES ASSUME StoredInv PROVE CommittedIsReadBack
  OBVIOUS
<1>1. ParseUi(UiToToml(ui_settings)) = [ok |-> TRUE, ui |-> ui_settings]
  BY UiFileIsRead DEF StoredInv
<1>2. ASSUME settings.targets # <<>>,
             \A i \in DOMAIN settings.targets :
               Hash \notin ToSet(settings.targets[i].name) \cup ToSet(settings.targets[i].host)
      PROVE  Parse(ToToml(settings)) = [ok |-> TRUE, settings |-> settings]
  <2>1. \A i \in DOMAIN settings.targets : StorableTarget(settings.targets[i])
    BY RowsOfSettings DEF StoredInv, Rows
  <2>2. AllPlain(settings)
    BY <1>2, <2>1, Zenon DEF AllPlain, Plain, StoredInv
  <2> QED
    BY <1>2, <2>2, FileIsRead, Zenon
<1> QED
  BY <1>1, <1>2, Zenon DEF CommittedIsReadBack

\* The inputs show the values in force, whatever is typed, removed, taken back
\* and read from the file at a start (state.rs, edit_target, remove_target,
\* undo_target_removal, apply_setting_change, boot).
THEOREM InputsShowWhatIsUsed == Spec => []ShownIsUsed
<1> QED
  BY ScreenInvInit, ScreenInvStep, StoredInvInit, StoredInvStep, ScreenShowsIt, PTL DEF Spec

\* Undo gives back the rows and the texts of their ports as they were
\* (undo_target_removal), however many rows there are.
THEOREM UndoGivesBack == Spec => []UndoIsInverse
<1>1. ScreenInv => UndoIsInverse
  BY DEF ScreenInv, TableInv
<1> QED
  BY <1>1, ScreenInvInit, ScreenInvStep, StoredInvInit, StoredInvStep, PTL DEF Spec

\* A generation stands for one removal, and the removal that may still be taken
\* back is the last one or none.
UndoInv ==
  /\ removals \in Nat /\ removal_generation = removals
  /\ \A timer \in timers : timer.generation = timer.removal /\ timer.removal \in 1..removals
  /\ offered \in {0, removals}
  /\ UndoLastsItsTenSeconds

\* A row is removed: the offer is of this removal.
LEMMA RemovalOffered ==
  ASSUME UndoInv, NEW index, RemoveTarget(index)
  PROVE  UndoInv'
<1> DEFINE timer == [generation |-> removal_generation', removal |-> removals']
<1>1. /\ removal_generation' = removal_generation + 1 /\ removals' = removals + 1
      /\ timers' = timers \cup {timer} /\ offered' = removals' /\ removed_target' # {}
  BY DEF RemoveTarget, Offer
<1>2. timer.generation = removal_generation' /\ timer.removal = removals'
  OBVIOUS
<1> HIDE DEF timer
<1>3. removals \in Nat /\ removals' \in Nat \ {0} /\ removal_generation' = removals'
  BY <1>1 DEF UndoInv
<1>4. \A other \in timers' :
        other.generation = other.removal /\ other.removal \in 1..removals'
  BY <1>1, <1>2, <1>3 DEF UndoInv
<1> QED
  BY <1>1, <1>3, <1>4 DEF UndoInv, UndoLastsItsTenSeconds

\* The ten seconds of one removal are over: its generation says which.
LEMMA RemovalExpires ==
  ASSUME UndoInv, NEW timer \in timers, UndoRemovalExpired(timer)
  PROVE  UndoInv'
<1>1. /\ timers' = timers \ {timer}
      /\ UNCHANGED <<removals, removal_generation>>
      /\ removed_target' = IF timer.generation = removal_generation THEN {} ELSE removed_target
      /\ offered' = IF timer.removal = offered THEN 0 ELSE offered
  BY DEF UndoRemovalExpired
<1>2. timer.generation = timer.removal /\ timer.removal \in 1..removals
  BY DEF UndoInv
<1>3. timer.generation = removal_generation => offered' = 0
  BY <1>1, <1>2 DEF UndoInv
<1>4. timer.generation # removal_generation => offered' = offered
  BY <1>1, <1>2 DEF UndoInv
<1> QED
  BY <1>1, <1>3, <1>4 DEF UndoInv, UndoLastsItsTenSeconds

\* Every step keeps the offer that of the last removal.
LEMMA UndoStep == UndoInv /\ [Next]_vars => UndoInv'
<1> SUFFICES ASSUME UndoInv, [Next]_vars PROVE UndoInv'
  OBVIOUS
<1>0. UNCHANGED undo => UndoInv'
  BY DEF undo, UndoInv, UndoLastsItsTenSeconds
<1>1. ASSUME NEW index \in DOMAIN settings.targets, TargetRow(index) PROVE UndoInv'
  <2>1. RemoveTarget(index) \/ UNCHANGED undo
    BY <1>1 DEF TargetRow, ToggleTarget, EditName, EditHost, EditKind, EditPort, EditRow
  <2> QED
    BY <1>0, <2>1, RemovalOffered
<1>2. CASE UndoTargetRemoval \/ Escape_
  <2>1. /\ UNCHANGED <<removals, removal_generation, timers>>
        /\ \/ removed_target' = {} /\ offered' = 0
           \/ UNCHANGED <<removed_target, offered>>
    BY <1>2 DEF UndoTargetRemoval, Escape_
  <2> QED
    BY <2>1 DEF UndoInv, UndoLastsItsTenSeconds
<1>3. ASSUME NEW timer \in timers, UndoRemovalExpired(timer) PROVE UndoInv'
  BY <1>3, RemovalExpires
<1>4. CASE AddTargetRow \/ OpenHelp \/ IntervalRow \/ MetricsRow \/ BudgetSection
           \/ ThemeRow \/ NotificationsSection \/ UNCHANGED vars
  <2>1. UNCHANGED undo
    BY <1>4 DEF AddTargetRow, AddTarget, OpenHelp, IntervalRow, IntervalMinutes, MetricsRow,
                Metric, BudgetSection, BudgetEnabled, BudgetGb, ThemeRow,
                NotificationsSection, UiSetting, KeepRows, vars
  <2> QED
    BY <1>0, <2>1
<1>5. CASE Restart
  <2>1. removals' = 0 /\ removal_generation' = 0 /\ timers' = {} /\ offered' = 0
        /\ removed_target' = {}
    BY <1>5 DEF Restart, Booted
  <2> QED
    BY <2>1 DEF UndoInv, UndoLastsItsTenSeconds
<1> QED
  BY <1>1, <1>2, <1>3, <1>4, <1>5, Zenon DEF Next

\* However many removals follow each other, and whatever else is done, the last
\* one can be taken back exactly until it is taken back, dismissed, or its own
\* ten seconds are over (UndoRemovalExpired, the removal generation).
THEOREM UndoLastsLongEnough == Spec => []UndoLastsItsTenSeconds
<1>1. Init => UndoInv
  BY DEF Init, UndoInv, UndoLastsItsTenSeconds
<1>2. UndoInv => UndoLastsItsTenSeconds
  BY DEF UndoInv
<1> QED
  BY <1>1, <1>2, UndoStep, PTL DEF Spec

\* Whatever is typed, removed, taken back and chosen, what is committed is read
\* back as it was, character by character, whenever there is a target and no #
\* in a name or host; the preferences always are (Settings::to_toml,
\* Settings::parse, UiSettings::to_toml, UiSettings::parse).
THEOREM CommittedSettingsAreReadBack == Spec => []CommittedIsReadBack
<1> QED
  BY ScreenInvInit, ScreenInvStep, StoredInvInit, StoredInvStep, StoredIsReadBack,
     PTL DEF Spec

=============================================================================
