------------------------ MODULE SettingsFileProofs -------------------------
(***************************************************************************)
(* Proofs about SettingsFile: each of the two files implements the register *)
(* of SettingsRegister, a start replaces nothing, and the window shows what *)
(* it wrote.                                                               *)
(***************************************************************************)
EXTENDS SettingsFile, FiniteSetTheorems, TLAPS

-----------------------------------------------------------------------------
(* The invariant *)

Steps == {"idle", "create", "write", "sync", "rename"}

FileTypeOK ==
  /\ dest \in [Files -> Inodes \cup {None}]
  /\ scratch \in [Files -> Inodes \cup {None}]
  /\ content \in [Inodes -> Contents]
  /\ synced \in [Inodes -> Contents]
  /\ older \in [Files -> SUBSET (Contents \cup {None})]
  /\ asked \in [Files -> [Writers -> Values \cup {None}]]
  /\ step \in [Writers -> Steps]
  /\ handle \in [Writers -> Inodes \cup {None}]
  /\ boot \in [Programs -> {"off", "saving", "settings", "ui", "up"}]
  /\ memory \in [Files -> Values]
  /\ commits \in Nat /\ faults \in Nat /\ boots \in Nat
  /\ shared \in [Files -> BOOLEAN]
  /\ sure \in [Files -> BOOLEAN]

\* The paths name inodes of their own, and an open file is none that another
\* settings file goes by.
PathsApart ==
  \A f, g \in Files :
    /\ dest[f] # None => dest[f] # scratch[g]
    /\ dest[f] # None /\ f # g => dest[f] # dest[g]
    /\ scratch[f] # None /\ f # g => scratch[f] # scratch[g]

OpenFiles ==
  \A w \in Writers :
    /\ handle[w] # None <=> step[w] \in {"write", "sync"}
    /\ Idle(w) <=> step[w] = "idle"
    /\ \A f \in Files : handle[w] # None /\ f # File(w)
                          => handle[w] # dest[f] /\ handle[w] # scratch[f]

DiskInv == FileTypeOK /\ PathsApart /\ OpenFiles

\* A save no other has overlapped has the scratch file for itself, and what it
\* has put there is on the disk when it renames it.
Alone(w, f) ==
  /\ \A v \in Writers : Wants(v, f) => v = w
  /\ File(w) = f =>
       /\ step[w] \in {"write", "sync"} => handle[w] = scratch[f]
       /\ step[w] = "write" => content[scratch[f]] = Torn
       /\ step[w] = "sync" => content[scratch[f]] = asked[f][w]
       /\ step[w] = "rename" =>
            /\ scratch[f] # None
            /\ content[scratch[f]] = asked[f][w] /\ synced[scratch[f]] = asked[f][w]

LoneSaves == \A f \in Files, w \in Writers : Wants(w, f) /\ ~shared[f] => Alone(w, f)

\* Where there is no file, none can come back.
NothingOlder == \A f \in Files : dest[f] = None => older[f] = {}

\* A start saves the settings only, and saves them where there is no file.
StartsSave ==
  \A p \in Programs :
    /\ ~Wants(p, "ui")
    /\ Wants(p, "settings") => boot[p] = "saving"
    /\ Wants(p, "settings") /\ ~shared["settings"] => dest["settings"] = None

SaveInv == LoneSaves /\ NothingOlder /\ StartsSave

\* The window has read this file since its start.
HasRead(f) == boot[App] = "up" \/ (boot[App] = "ui" /\ f = "settings")

WindowSaves ==
  \A w \in Saves, f \in Files :
    Wants(w, f) =>
      /\ boot[App] = "up"
      /\ ~shared[f] => asked[f][w] = memory[f]

SureOfIt ==
  \A f \in Files : sure[f] =>
    /\ dest[f] # None
    /\ ~Wants(Cli, f)
    /\ Saving(f) # {} => ~shared[f]
    /\ HasRead(f) /\ Saving(f) = {} => Stored(f) = memory[f]

FileInv == DiskInv /\ SaveInv /\ WindowSaves /\ SureOfIt

-----------------------------------------------------------------------------
(* Writers and inodes *)

\* None is no inode, no content and no value.
LEMMA NoneIsApart ==
  /\ Cardinality(Writers) \in Nat /\ IsFiniteSet(Writers)
  /\ None \notin Inodes /\ None \notin Contents /\ None \notin Values
  /\ Inodes \subseteq Nat
<1>1. Writers = (Saves \cup {App}) \cup {Cli}
  BY DEF Writers, Programs
<1>2. IsFiniteSet(Writers)
  BY <1>1, WriterAssumption, FS_AddElement
<1>3. Cardinality(Writers) \in Nat
  BY <1>2, FS_CardinalityType
<1>4. MaxCommits \in Nat /\ Values \subseteq Nat
  BY BoundAssumption DEF Values
<1>5. Inodes \subseteq Nat
  BY <1>3 DEF Inodes
<1>6. None \notin Nat /\ None # Torn /\ None # Broken
  BY NoneAssumption
<1> QED
  BY <1>2, <1>3, <1>4, <1>5, <1>6 DEF Contents

\* A writer that is not idle is saving the file it has to save first.
LEMMA FileOfWriter ==
  ASSUME NEW w \in Writers
  PROVE  /\ File(w) \in Files
         /\ ~Idle(w) => Wants(w, File(w))
         /\ Wants(w, File(w)) => Value(w) # None
         /\ ~Wants(w, "ui") => (~Idle(w) => File(w) = "settings")
BY DEF File, Files, Idle, Wants, Value

\* There is an inode left for a writer that has no file open.
LEMMA FreshIsFree ==
  ASSUME FileTypeOK, NEW w \in Writers, handle[w] = None
  PROVE  Fresh \in Inodes /\ Fresh \notin Used
<1> DEFINE n == Cardinality(Writers)
           handles == {handle[v] : v \in Writers}
           two == {dest["settings"]} \cup {dest["ui"]}
           four == (two \cup {scratch["settings"]}) \cup {scratch["ui"]}
<1>1. n \in Nat /\ IsFiniteSet(Writers) /\ None \notin Inodes
  BY NoneIsApart
<1>2. IsFiniteSet(two) /\ Cardinality(two) <= 2
  <2>1. IsFiniteSet({dest["settings"]}) /\ Cardinality({dest["settings"]}) = 1
    BY FS_Singleton
  <2> QED
    BY <2>1, FS_AddElement
<1>3. IsFiniteSet(four) /\ Cardinality(four) <= 4
  <2>1. IsFiniteSet(two \cup {scratch["settings"]}) /\ Cardinality(two \cup {scratch["settings"]}) <= 3
    <3> HIDE DEF two
    <3>1. Cardinality(two) \in Nat
      BY <1>2, FS_CardinalityType
    <3> QED
      BY <1>2, <3>1, FS_AddElement
  <2> DEFINE three == two \cup {scratch["settings"]}
  <2> HIDE DEF two
  <2>2. Cardinality(three) \in Nat
    BY <2>1, FS_CardinalityType
  <2> HIDE DEF three
  <2>3. IsFiniteSet(three \cup {scratch["ui"]}) /\ Cardinality(three \cup {scratch["ui"]}) <= 4
    BY <2>1, <2>2, FS_AddElement DEF three
  <2> QED
    BY <2>3 DEF three
<1>4. IsFiniteSet(handles) /\ Cardinality(handles) <= n
  <2>1. handle \in Surjection(Writers, handles)
    BY DEF FileTypeOK, Surjection
  <2> QED
    BY <1>1, <2>1, FS_Surjection
<1>5. Used = four \cup handles
  BY DEF Used, Files
<1>6. IsFiniteSet(Used) /\ Cardinality(Used) <= 4 + n
  <2>1. IsFiniteSet(four \cap handles) /\ Cardinality(four \cap handles) \in Nat
    BY <1>3, FS_Subset, FS_CardinalityType
  <2>2. Cardinality(four) \in Nat /\ Cardinality(handles) \in Nat
    BY <1>3, <1>4, FS_CardinalityType
  <2> HIDE DEF four, handles, n
  <2>3. /\ IsFiniteSet(four \cup handles)
        /\ Cardinality(four \cup handles)
             = Cardinality(four) + Cardinality(handles) - Cardinality(four \cap handles)
    BY <1>3, <1>4, FS_Union
  <2> QED
    BY <1>1, <1>3, <1>4, <1>5, <2>1, <2>2, <2>3
<1>7. IsFiniteSet(Inodes \cup {None}) /\ Cardinality(Inodes \cup {None}) = 5 + n
  <2>1. IsFiniteSet(Inodes) /\ Cardinality(Inodes) = 4 + n
    BY <1>1, FS_Interval DEF Inodes
  <2> QED
    BY <1>1, <2>1, FS_AddElement
<1>8. None \in Used
  BY DEF Used
<1>9. \E inode \in Inodes : inode \notin Used
  <2> SUFFICES ASSUME \A inode \in Inodes : inode \in Used PROVE FALSE
    OBVIOUS
  <2>1. Inodes \cup {None} \in SUBSET Used
    BY <1>8
  <2>2. Cardinality(Inodes \cup {None}) <= Cardinality(Used)
    BY <1>6, <2>1, FS_Subset
  <2>3. Cardinality(Used) \in Nat
    BY <1>6, FS_CardinalityType
  <2> HIDE DEF n
  <2> QED
    BY <1>1, <1>6, <1>7, <2>2, <2>3
<1> QED
  BY <1>9 DEF Fresh

-----------------------------------------------------------------------------
(* What the steps of the tasks come to *)

\* What asking comes to; it leaves the other writers alone.
Asked(w, files, values) ==
  /\ asked' \in [Files -> [Writers -> Values \cup {None}]]
  /\ step' \in [Writers -> Steps]
  /\ shared' \in [Files -> BOOLEAN] /\ sure' \in [Files -> BOOLEAN]
  /\ \A v \in Writers, f \in Files :
       asked'[f][v] = IF v = w /\ f \in files THEN values[f] ELSE asked[f][v]
  /\ \A v \in Writers :
       /\ step'[v] = IF v = w THEN "create" ELSE step[v]
       /\ handle'[v] = handle[v]
       /\ v # w => File(v)' = File(v) /\ Idle(v)' = Idle(v)
  /\ ~Idle(w)' /\ handle[w] = None
  /\ \A f \in Files :
       /\ shared'[f] <=> IF f \in files THEN Saving(f) # {} ELSE shared[f]
       /\ sure'[f] <=> sure[f] /\ (f \in files => Saving(f) = {})

LEMMA AskTasks ==
  ASSUME FileTypeOK, OpenFiles, NEW w \in Writers, Idle(w),
         NEW files \in SUBSET Files, files # {},
         NEW values, \A f \in files : values[f] \in Values,
         Ask(w, files, values)
  PROVE  Asked(w, files, values)
<1>0. None \notin Values
  BY NoneIsApart
<1>1. /\ asked' = [f \in Files |-> IF f \in files THEN [asked[f] EXCEPT ![w] = values[f]] ELSE asked[f]]
      /\ step' = [step EXCEPT ![w] = "create"]
      /\ shared' = [f \in Files |-> IF f \in files THEN Saving(f) # {} ELSE shared[f]]
      /\ sure' = [f \in Files |-> sure[f] /\ (f \in files => Saving(f) = {})]
      /\ handle' = handle
  BY DEF Ask
<1>2. asked' \in [Files -> [Writers -> Values \cup {None}]]
  BY <1>1 DEF FileTypeOK
<1>3. step' \in [Writers -> Steps] /\ handle[w] = None
  BY <1>1 DEF FileTypeOK, Steps, OpenFiles
<1>4. shared' \in [Files -> BOOLEAN] /\ sure' \in [Files -> BOOLEAN]
  BY <1>1 DEF FileTypeOK
<1>5. \A v \in Writers, f \in Files :
        asked'[f][v] = IF v = w /\ f \in files THEN values[f] ELSE asked[f][v]
  BY <1>1 DEF FileTypeOK
<1>6. \A v \in Writers : /\ step'[v] = IF v = w THEN "create" ELSE step[v]
                         /\ handle'[v] = handle[v]
  BY <1>1 DEF FileTypeOK
<1>7. \A v \in Writers : v # w => File(v)' = File(v) /\ Idle(v)' = Idle(v)
  BY <1>5 DEF File, Idle, Wants, Files
<1>8. ~Idle(w)'
  BY <1>0, <1>5 DEF Idle, Wants
<1>9. \A f \in Files :
        /\ shared'[f] <=> IF f \in files THEN Saving(f) # {} ELSE shared[f]
        /\ sure'[f] <=> sure[f] /\ (f \in files => Saving(f) = {})
  BY <1>1
<1> QED
  BY <1>2, <1>3, <1>4, <1>5, <1>6, <1>7, <1>8, <1>9 DEF Asked

\* A save that stops is lost like the saves of a program that ends.
LEMMA GiveUpLoses ==
  ASSUME FileTypeOK, NEW w \in Writers, GiveUp(w)
  PROVE  Lose({w}) /\ sure' = [f \in Files |-> sure[f] /\ ~Wants(w, f)]
<1>1. asked' = [f \in Files |-> [v \in Writers |-> IF v \in {w} THEN None ELSE asked[f][v]]]
  BY DEF GiveUp, FileTypeOK
<1>2. step' = [v \in Writers |-> IF v \in {w} THEN "idle" ELSE step[v]]
  BY DEF GiveUp, FileTypeOK
<1>3. handle' = [v \in Writers |-> IF v \in {w} THEN None ELSE handle[v]]
  BY DEF GiveUp, FileTypeOK
<1> QED
  BY <1>1, <1>2, <1>3 DEF Lose, GiveUp

LEMMA LoseTasks ==
  ASSUME FileTypeOK, NEW W \in SUBSET Writers, Lose(W)
  PROVE  /\ asked' \in [Files -> [Writers -> Values \cup {None}]]
         /\ step' \in [Writers -> Steps]
         /\ handle' \in [Writers -> Inodes \cup {None}]
         /\ \A v \in Writers, f \in Files :
              asked'[f][v] = IF v \in W THEN None ELSE asked[f][v]
         /\ \A v \in Writers :
              /\ step'[v] = IF v \in W THEN "idle" ELSE step[v]
              /\ handle'[v] = IF v \in W THEN None ELSE handle[v]
              /\ v \in W => Idle(v)'
              /\ v \notin W => File(v)' = File(v) /\ Idle(v)' = Idle(v)
<1>1. asked' \in [Files -> [Writers -> Values \cup {None}]]
  BY DEF Lose, FileTypeOK
<1>2. step' \in [Writers -> Steps]
  BY DEF Lose, FileTypeOK, Steps
<1>3. handle' \in [Writers -> Inodes \cup {None}]
  BY DEF Lose, FileTypeOK
<1>4. \A v \in Writers, f \in Files : asked'[f][v] = IF v \in W THEN None ELSE asked[f][v]
  BY DEF Lose
<1>5. \A v \in Writers : /\ step'[v] = IF v \in W THEN "idle" ELSE step[v]
                         /\ handle'[v] = IF v \in W THEN None ELSE handle[v]
  BY DEF Lose
<1>6. \A v \in Writers : v \in W => Idle(v)'
  BY <1>4 DEF Idle, Wants
<1>7. \A v \in Writers : v \notin W => File(v)' = File(v) /\ Idle(v)' = Idle(v)
  BY <1>4 DEF File, Idle, Wants, Files
<1> QED
  BY <1>1, <1>2, <1>3, <1>4, <1>5, <1>6, <1>7

-----------------------------------------------------------------------------
(* Every step keeps the inodes apart *)

\* What no task of a settings file has to do with.
BootTypeOK ==
  /\ boot \in [Programs -> {"off", "saving", "settings", "ui", "up"}]
  /\ memory \in [Files -> Values]
  /\ commits \in Nat /\ faults \in Nat /\ boots \in Nat

LEMMA AskDisk ==
  ASSUME DiskInv, NEW w \in Writers, Idle(w),
         NEW files \in SUBSET Files, files # {},
         NEW values, \A f \in files : values[f] \in Values,
         Ask(w, files, values), UNCHANGED disk, BootTypeOK'
  PROVE  DiskInv'
<1>1. FileTypeOK /\ PathsApart /\ OpenFiles
  BY DEF DiskInv
<1>2. /\ asked' \in [Files -> [Writers -> Values \cup {None}]]
      /\ step' \in [Writers -> Steps]
      /\ shared' \in [Files -> BOOLEAN] /\ sure' \in [Files -> BOOLEAN]
      /\ \A v \in Writers :
           /\ step'[v] = IF v = w THEN "create" ELSE step[v]
           /\ handle'[v] = handle[v]
           /\ v # w => File(v)' = File(v) /\ Idle(v)' = Idle(v)
      /\ ~Idle(w)' /\ handle[w] = None
  <2>1. Asked(w, files, values)
    BY <1>1, AskTasks, Zenon
  <2> QED
    BY <2>1 DEF Asked
<1>3. /\ dest' = dest /\ scratch' = scratch /\ content' = content
      /\ synced' = synced /\ older' = older /\ handle' = handle
  BY DEF disk, Ask
<1>4. FileTypeOK'
  BY <1>1, <1>2, <1>3 DEF FileTypeOK, BootTypeOK
<1>5. PathsApart'
  BY <1>1, <1>3 DEF PathsApart
<1>6. OpenFiles'
  BY <1>1, <1>2, <1>3 DEF OpenFiles
<1> QED
  BY <1>4, <1>5, <1>6 DEF DiskInv

LEMMA LoseDisk ==
  ASSUME DiskInv, NEW W \in SUBSET Writers, Lose(W),
         dest' \in [Files -> Inodes \cup {None}], \A f \in Files : dest'[f] \in {dest[f], None},
         scratch' = scratch,
         content' \in [Inodes -> Contents], synced' \in [Inodes -> Contents],
         older' \in [Files -> SUBSET (Contents \cup {None})],
         shared' = shared, sure' \in [Files -> BOOLEAN], BootTypeOK'
  PROVE  DiskInv'
<1>1. FileTypeOK /\ PathsApart /\ OpenFiles
  BY DEF DiskInv
<1>2. /\ asked' \in [Files -> [Writers -> Values \cup {None}]]
      /\ step' \in [Writers -> Steps]
      /\ handle' \in [Writers -> Inodes \cup {None}]
      /\ \A v \in Writers :
           /\ step'[v] = IF v \in W THEN "idle" ELSE step[v]
           /\ handle'[v] = IF v \in W THEN None ELSE handle[v]
           /\ v \in W => Idle(v)'
           /\ v \notin W => File(v)' = File(v) /\ Idle(v)' = Idle(v)
  BY <1>1, LoseTasks
<1>3. FileTypeOK'
  BY <1>1, <1>2 DEF FileTypeOK, BootTypeOK
<1>4. PathsApart'
  BY <1>1 DEF PathsApart
<1>5. OpenFiles'
  <2> SUFFICES ASSUME NEW v \in Writers
      PROVE  /\ handle'[v] # None <=> step'[v] \in {"write", "sync"}
             /\ Idle(v)' <=> step'[v] = "idle"
             /\ \A f \in Files : handle'[v] # None /\ f # File(v)'
                                   => handle'[v] # dest'[f] /\ handle'[v] # scratch'[f]
    BY DEF OpenFiles
  <2>1. CASE v \in W
    BY <1>2, <2>1
  <2>2. CASE v \notin W
    BY <1>1, <1>2, <2>2 DEF OpenFiles
  <2> QED
    BY <2>1, <2>2
<1> QED
  BY <1>3, <1>4, <1>5 DEF DiskInv

LEMMA CreateDisk ==
  ASSUME DiskInv, NEW w \in Writers, ~Idle(w), Create(w)
  PROVE  /\ DiskInv'
         /\ handle'[w] \in Inodes /\ handle'[w] = scratch'[File(w)]
         /\ content' = [content EXCEPT ![handle'[w]] = Torn]
         /\ synced' = [synced EXCEPT ![handle'[w]] = Torn]
         /\ \A v \in Writers : v # w => handle'[v] = handle[v] /\ step'[v] = step[v]
         /\ step'[w] = "write"
         /\ \A f \in Files : /\ handle'[w] # dest[f]
                             /\ f # File(w) => scratch'[f] = scratch[f]
                             /\ f # File(w) => handle'[w] # scratch[f]
         /\ \A v \in Writers : handle[v] = handle'[w] => File(v) = File(w)
<1> DEFINE F == File(w)
           inode == IF scratch[F] = None THEN Fresh ELSE scratch[F]
<1>1. FileTypeOK /\ PathsApart /\ OpenFiles
  BY DEF DiskInv
<1>2. /\ step[w] = "create"
      /\ scratch' = [scratch EXCEPT ![F] = inode]
      /\ content' = [content EXCEPT ![inode] = Torn]
      /\ synced' = [synced EXCEPT ![inode] = Torn]
      /\ handle' = [handle EXCEPT ![w] = inode]
      /\ step' = [step EXCEPT ![w] = "write"]
      /\ UNCHANGED <<dest, older, asked, boot, memory, bounds, shared, sure>>
  BY DEF Create
<1>3. dest' = dest /\ asked' = asked /\ UNCHANGED <<older, boot, memory, commits, faults, boots, shared, sure>>
  BY <1>2 DEF bounds
<1>4. handle[w] = None
  BY <1>1, <1>2 DEF OpenFiles
<1>5. F \in Files /\ None \notin Inodes
  BY FileOfWriter, NoneIsApart
<1>6. Fresh \in Inodes /\ Fresh \notin Used
  BY <1>1, <1>4, FreshIsFree
<1>7. inode \in Inodes
  BY <1>1, <1>5, <1>6 DEF FileTypeOK
<1>8. \A f \in Files : inode # dest[f] /\ (f # F => inode # scratch[f])
  <2> SUFFICES ASSUME NEW f \in Files PROVE inode # dest[f] /\ (f # F => inode # scratch[f])
    OBVIOUS
  <2>1. CASE scratch[F] = None
    BY <1>6, <2>1 DEF Used
  <2>2. CASE scratch[F] # None
    BY <1>1, <1>5, <2>2 DEF PathsApart
  <2> QED
    BY <2>1, <2>2
<1>9. \A v \in Writers : handle[v] = inode => File(v) = F
  <2> SUFFICES ASSUME NEW v \in Writers, handle[v] = inode PROVE File(v) = F
    OBVIOUS
  <2>1. scratch[F] # None
    BY <1>6 DEF Used
  <2> QED
    BY <1>1, <1>5, <1>7, <2>1 DEF OpenFiles
<1> HIDE DEF inode
<1>10. /\ \A f \in Files : scratch'[f] = IF f = F THEN inode ELSE scratch[f]
       /\ \A v \in Writers : handle'[v] = IF v = w THEN inode ELSE handle[v]
       /\ \A v \in Writers : step'[v] = IF v = w THEN "write" ELSE step[v]
       /\ \A v \in Writers : File(v)' = File(v) /\ Idle(v)' = Idle(v)
  BY <1>1, <1>2, <1>3, <1>5 DEF FileTypeOK, File, Idle, Wants
<1>11. FileTypeOK'
  <2>1. scratch' \in [Files -> Inodes \cup {None}] /\ handle' \in [Writers -> Inodes \cup {None}]
    BY <1>1, <1>2, <1>7 DEF FileTypeOK
  <2>2. content' \in [Inodes -> Contents] /\ synced' \in [Inodes -> Contents]
    BY <1>1, <1>2, <1>7 DEF FileTypeOK, Contents
  <2>3. step' \in [Writers -> Steps]
    BY <1>1, <1>2 DEF FileTypeOK, Steps
  <2> QED
    BY <1>1, <1>3, <2>1, <2>2, <2>3 DEF FileTypeOK
<1>12. PathsApart'
  BY <1>1, <1>3, <1>8, <1>10 DEF PathsApart
<1>13. OpenFiles'
  <2> SUFFICES ASSUME NEW v \in Writers
      PROVE  /\ handle'[v] # None <=> step'[v] \in {"write", "sync"}
             /\ Idle(v)' <=> step'[v] = "idle"
             /\ \A f \in Files : handle'[v] # None /\ f # File(v)'
                                   => handle'[v] # dest'[f] /\ handle'[v] # scratch'[f]
    BY DEF OpenFiles
  <2>1. CASE v = w
    BY <1>3, <1>5, <1>7, <1>8, <1>10, <2>1
  <2>2. CASE v # w
    BY <1>1, <1>3, <1>9, <1>10, <2>2 DEF OpenFiles
  <2> QED
    BY <2>1, <2>2
<1>14. DiskInv'
  BY <1>11, <1>12, <1>13 DEF DiskInv
<1> QED
  BY <1>2, <1>5, <1>7, <1>8, <1>9, <1>10, <1>14

\* A step of a task that touches no path and opens or closes no other file.
LEMMA TaskDisk ==
  ASSUME DiskInv, NEW w \in Writers, ~Idle(w), NEW next \in Steps \ {"idle"},
         step' = [step EXCEPT ![w] = next],
         handle' = [handle EXCEPT ![w] = IF next \in {"write", "sync"} THEN handle[w] ELSE None],
         next \in {"write", "sync"} => handle[w] # None,
         dest' = dest, scratch' = scratch, asked' = asked, older' = older,
         content' \in [Inodes -> Contents], synced' \in [Inodes -> Contents],
         shared' = shared, sure' = sure, BootTypeOK'
  PROVE  DiskInv'
<1>1. FileTypeOK /\ PathsApart /\ OpenFiles
  BY DEF DiskInv
<1>2. /\ \A v \in Writers : step'[v] = IF v = w THEN next ELSE step[v]
      /\ \A v \in Writers : v # w => handle'[v] = handle[v]
      /\ handle'[w] = IF next \in {"write", "sync"} THEN handle[w] ELSE None
      /\ \A v \in Writers : File(v)' = File(v) /\ Idle(v)' = Idle(v)
  BY <1>1 DEF FileTypeOK, File, Idle, Wants
<1>3. FileTypeOK'
  <2>1. step' \in [Writers -> Steps]
    BY <1>1 DEF FileTypeOK
  <2>2. handle' \in [Writers -> Inodes \cup {None}]
    BY <1>1 DEF FileTypeOK
  <2> QED
    BY <1>1, <2>1, <2>2 DEF FileTypeOK, BootTypeOK
<1>4. PathsApart'
  BY <1>1 DEF PathsApart
<1>5. OpenFiles'
  <2> SUFFICES ASSUME NEW v \in Writers
      PROVE  /\ handle'[v] # None <=> step'[v] \in {"write", "sync"}
             /\ Idle(v)' <=> step'[v] = "idle"
             /\ \A f \in Files : handle'[v] # None /\ f # File(v)'
                                   => handle'[v] # dest'[f] /\ handle'[v] # scratch'[f]
    BY DEF OpenFiles
  <2>1. CASE v = w
    BY <1>1, <1>2, <2>1 DEF OpenFiles
  <2>2. CASE v # w
    BY <1>1, <1>2, <2>2 DEF OpenFiles
  <2> QED
    BY <2>1, <2>2
<1> QED
  BY <1>3, <1>4, <1>5 DEF DiskInv

LEMMA WriteDisk ==
  ASSUME DiskInv, NEW w \in Writers, ~Idle(w), Write(w)
  PROVE  /\ DiskInv'
         /\ handle[w] \in Inodes /\ handle'[w] = handle[w] /\ step'[w] = "sync"
         /\ content'[handle[w]] \in Contents
         /\ content[handle[w]] = Torn => content'[handle[w]] = Value(w)
         /\ \A i \in Inodes : i # handle[w] => content'[i] = content[i]
         /\ \A v \in Writers : v # w => handle'[v] = handle[v] /\ step'[v] = step[v]
<1>1. FileTypeOK /\ OpenFiles
  BY DEF DiskInv
<1>2. /\ step[w] = "write"
      /\ step' = [step EXCEPT ![w] = "sync"]
      /\ dest' = dest /\ scratch' = scratch /\ synced' = synced /\ older' = older
      /\ asked' = asked /\ handle' = handle /\ shared' = shared /\ sure' = sure
      /\ UNCHANGED <<boot, memory, commits, faults, boots>>
  BY DEF Write, bounds
<1>3. handle[w] # None /\ handle[w] \in Inodes
  BY <1>1, <1>2 DEF OpenFiles, FileTypeOK
<1>4. Value(w) \in Values
  <2>1. File(w) \in Files /\ Wants(w, File(w))
    BY FileOfWriter
  <2> QED
    BY <1>1, <2>1 DEF FileTypeOK, Value, Wants
<1>5. PICK result \in {Value(w)} \cup (IF content[handle[w]] = Torn THEN {} ELSE {Torn}) :
        content' = [content EXCEPT ![handle[w]] = result]
  BY DEF Write
<1>6. result \in Contents /\ (content[handle[w]] = Torn => result = Value(w))
  BY <1>4, <1>5 DEF Contents
<1>7. content' \in [Inodes -> Contents]
  BY <1>1, <1>5, <1>6 DEF FileTypeOK
<1>8. /\ content'[handle[w]] = result
      /\ \A i \in Inodes : i # handle[w] => content'[i] = content[i]
  BY <1>1, <1>3, <1>5 DEF FileTypeOK
<1>9. handle' = [handle EXCEPT ![w] = IF "sync" \in {"write", "sync"} THEN handle[w] ELSE None]
  BY <1>1, <1>2 DEF FileTypeOK
<1>10. synced' \in [Inodes -> Contents] /\ BootTypeOK'
  BY <1>1, <1>2 DEF FileTypeOK, BootTypeOK
<1>11. "sync" \in Steps \ {"idle"}
  BY DEF Steps
<1>12. DiskInv'
  BY <1>2, <1>3, <1>7, <1>9, <1>10, <1>11, TaskDisk
<1>13. \A v \in Writers : /\ step'[v] = IF v = w THEN "sync" ELSE step[v]
                          /\ handle'[v] = handle[v]
  BY <1>1, <1>2 DEF FileTypeOK
<1> QED
  BY <1>3, <1>6, <1>8, <1>12, <1>13

LEMMA SyncDisk ==
  ASSUME DiskInv, NEW w \in Writers, ~Idle(w), Sync(w)
  PROVE  /\ DiskInv'
         /\ handle[w] \in Inodes /\ handle'[w] = None /\ step'[w] = "rename"
         /\ synced'[handle[w]] = content[handle[w]]
         /\ \A i \in Inodes : i # handle[w] => synced'[i] = synced[i]
         /\ \A v \in Writers : v # w => handle'[v] = handle[v] /\ step'[v] = step[v]
<1>1. FileTypeOK /\ OpenFiles
  BY DEF DiskInv
<1>2. /\ step[w] = "sync"
      /\ synced' = [synced EXCEPT ![handle[w]] = content[handle[w]]]
      /\ step' = [step EXCEPT ![w] = "rename"]
      /\ handle' = [handle EXCEPT ![w] = None]
      /\ dest' = dest /\ scratch' = scratch /\ content' = content /\ older' = older
      /\ asked' = asked /\ shared' = shared /\ sure' = sure
      /\ UNCHANGED <<boot, memory, commits, faults, boots>>
  BY DEF Sync, bounds
<1>3. handle[w] # None /\ handle[w] \in Inodes
  BY <1>1, <1>2 DEF OpenFiles, FileTypeOK
<1>4. content[handle[w]] \in Contents
  BY <1>1, <1>3 DEF FileTypeOK
<1>5. synced' \in [Inodes -> Contents]
  BY <1>1, <1>2, <1>4 DEF FileTypeOK
<1>6. /\ synced'[handle[w]] = content[handle[w]]
      /\ \A i \in Inodes : i # handle[w] => synced'[i] = synced[i]
  BY <1>1, <1>2, <1>3 DEF FileTypeOK
<1>7. handle' = [handle EXCEPT ![w] = IF "rename" \in {"write", "sync"} THEN handle[w] ELSE None]
  BY <1>2
<1>8. content' \in [Inodes -> Contents] /\ BootTypeOK'
  BY <1>1, <1>2 DEF FileTypeOK, BootTypeOK
<1>9. "rename" \in Steps \ {"idle"} /\ "rename" \notin {"write", "sync"}
  BY DEF Steps
<1>10. DiskInv'
  BY <1>2, <1>5, <1>7, <1>8, <1>9, TaskDisk
<1>11. \A v \in Writers : /\ step'[v] = IF v = w THEN "rename" ELSE step[v]
                          /\ handle'[v] = IF v = w THEN None ELSE handle[v]
  BY <1>1, <1>2 DEF FileTypeOK
<1> QED
  BY <1>3, <1>6, <1>10, <1>11

\* What renaming the scratch file of F comes to.
Renamed(w, F) ==
  /\ DiskInv'
  /\ F \in Files /\ Wants(w, F)
  /\ scratch[F] \in Inodes
  /\ \A f \in Files :
       /\ dest'[f] = IF f = F THEN scratch[f] ELSE dest[f]
       /\ scratch'[f] = IF f = F THEN None ELSE scratch[f]
       /\ older'[f] = IF f = F THEN older[f] \cup {Durable(f)} ELSE older[f]
       /\ sure'[f] <=> IF f = F THEN ~shared[f] /\ w # Cli ELSE sure[f]
  /\ \A i \in Inodes : i # dest[F] => content'[i] = content[i] /\ synced'[i] = synced[i]
  /\ \A v \in Writers, f \in Files :
       asked'[f][v] = IF v = w /\ f = F THEN None ELSE asked[f][v]
  /\ \A v \in Writers :
       v # w => step'[v] = step[v] /\ File(v)' = File(v) /\ Idle(v)' = Idle(v)
  /\ step'[w] \in {"create", "idle"}

LEMMA RenameDisk ==
  ASSUME DiskInv, NEW w \in Writers, ~Idle(w), Rename(w)
  PROVE  Renamed(w, File(w))
<1> DEFINE F == File(w)
<1>1. FileTypeOK /\ PathsApart /\ OpenFiles
  BY DEF DiskInv
<1>2. /\ step[w] = "rename"
      /\ scratch[F] # None
      /\ dest' = [dest EXCEPT ![F] = scratch[F]]
      /\ scratch' = [scratch EXCEPT ![F] = None]
      /\ older' = [older EXCEPT ![F] = older[F] \cup {Durable(F)}]
      /\ content' = Forgotten(content, dest[F])
      /\ synced' = Forgotten(synced, dest[F])
      /\ asked' = [asked EXCEPT ![F][w] = None]
      /\ step' = [step EXCEPT ![w] = IF \E g \in Files \ {F} : Wants(w, g) THEN "create" ELSE "idle"]
      /\ sure' = [sure EXCEPT ![F] = ~shared[F] /\ w # Cli]
      /\ handle' = handle /\ shared' = shared
      /\ UNCHANGED <<boot, memory, commits, faults, boots>>
  BY DEF Rename, bounds
<1>3. F \in Files /\ Wants(w, F) /\ None \notin Inodes
  BY FileOfWriter, NoneIsApart
<1>4. handle[w] = None
  BY <1>1, <1>2 DEF OpenFiles
<1>5. scratch[F] \in Inodes
  BY <1>1, <1>2, <1>3 DEF FileTypeOK
<1>6. Durable(F) \in Contents \cup {None}
  BY <1>1, <1>3 DEF FileTypeOK, Durable
<1>7. \A f \in Files :
        /\ dest'[f] = IF f = F THEN scratch[f] ELSE dest[f]
        /\ scratch'[f] = IF f = F THEN None ELSE scratch[f]
        /\ older'[f] = IF f = F THEN older[f] \cup {Durable(f)} ELSE older[f]
        /\ sure'[f] <=> IF f = F THEN ~shared[f] /\ w # Cli ELSE sure[f]
  BY <1>1, <1>2 DEF FileTypeOK
<1>8. /\ content' \in [Inodes -> Contents] /\ synced' \in [Inodes -> Contents]
      /\ \A i \in Inodes : i # dest[F] => content'[i] = content[i] /\ synced'[i] = synced[i]
  BY <1>1, <1>2 DEF FileTypeOK, Forgotten, Contents
<1>9. \A v \in Writers, f \in Files :
        asked'[f][v] = IF v = w /\ f = F THEN None ELSE asked[f][v]
  BY <1>1, <1>2, <1>3 DEF FileTypeOK
<1>10. \A v \in Writers : v # w => File(v)' = File(v) /\ Idle(v)' = Idle(v)
  BY <1>9 DEF File, Idle, Wants, Files
<1>11. Idle(w)' <=> ~\E g \in Files \ {F} : Wants(w, g)
  BY <1>3, <1>9 DEF Idle, Wants
<1>12. \A v \in Writers : v # w => step'[v] = step[v]
  BY <1>1, <1>2 DEF FileTypeOK
<1>13. /\ step'[w] \in {"create", "idle"} /\ (Idle(w)' <=> step'[w] = "idle")
  BY <1>1, <1>2, <1>11 DEF FileTypeOK
<1>14. FileTypeOK'
  <2>1. dest' \in [Files -> Inodes \cup {None}] /\ scratch' \in [Files -> Inodes \cup {None}]
    BY <1>1, <1>2, <1>5 DEF FileTypeOK
  <2>2. older' \in [Files -> SUBSET (Contents \cup {None})]
    BY <1>1, <1>2, <1>6 DEF FileTypeOK
  <2>3. asked' \in [Files -> [Writers -> Values \cup {None}]]
    BY <1>1, <1>2 DEF FileTypeOK
  <2>4. step' \in [Writers -> Steps]
    BY <1>1, <1>2 DEF FileTypeOK, Steps
  <2>5. sure' \in [Files -> BOOLEAN]
    BY <1>1, <1>2 DEF FileTypeOK
  <2> QED
    BY <1>1, <1>2, <1>8, <2>1, <2>2, <2>3, <2>4, <2>5 DEF FileTypeOK
<1>15. PathsApart'
  <2> SUFFICES ASSUME NEW f \in Files, NEW g \in Files
      PROVE  /\ dest'[f] # None => dest'[f] # scratch'[g]
             /\ dest'[f] # None /\ f # g => dest'[f] # dest'[g]
             /\ scratch'[f] # None /\ f # g => scratch'[f] # scratch'[g]
    BY DEF PathsApart
  <2>1. CASE f = F /\ g # F
    BY <1>1, <1>2, <1>3, <1>7, <2>1 DEF PathsApart
  <2>2. CASE f # F /\ g = F
    BY <1>1, <1>2, <1>3, <1>7, <2>2 DEF PathsApart
  <2>3. CASE f = F /\ g = F
    BY <1>7, <2>3
  <2>4. CASE f # F /\ g # F
    BY <1>1, <1>7, <2>4 DEF PathsApart
  <2> QED
    BY <2>1, <2>2, <2>3, <2>4
<1>16. OpenFiles'
  <2> SUFFICES ASSUME NEW v \in Writers
      PROVE  /\ handle'[v] # None <=> step'[v] \in {"write", "sync"}
             /\ Idle(v)' <=> step'[v] = "idle"
             /\ \A f \in Files : handle'[v] # None /\ f # File(v)'
                                   => handle'[v] # dest'[f] /\ handle'[v] # scratch'[f]
    BY DEF OpenFiles
  <2>1. CASE v = w
    BY <1>2, <1>4, <1>13, <2>1
  <2>2. CASE v # w
    BY <1>1, <1>2, <1>7, <1>10, <1>12, <2>2 DEF OpenFiles
  <2> QED
    BY <2>1, <2>2
<1>17. DiskInv'
  BY <1>14, <1>15, <1>16 DEF DiskInv
<1> QED
  BY <1>3, <1>5, <1>7, <1>8, <1>9, <1>10, <1>12, <1>13, <1>17 DEF Renamed

-----------------------------------------------------------------------------
(* A save that is alone has the scratch file for itself *)

LEMMA AskLone ==
  ASSUME DiskInv, LoneSaves, NEW w \in Writers, Idle(w),
         NEW files \in SUBSET Files, NEW values,
         Asked(w, files, values), UNCHANGED disk
  PROVE  LoneSaves'
<1>1. /\ dest' = dest /\ scratch' = scratch /\ content' = content /\ synced' = synced
      /\ \A v \in Writers, f \in Files :
           asked'[f][v] = IF v = w /\ f \in files THEN values[f] ELSE asked[f][v]
      /\ \A v \in Writers :
           /\ step'[v] = IF v = w THEN "create" ELSE step[v]
           /\ handle'[v] = handle[v]
           /\ v # w => File(v)' = File(v)
      /\ \A f \in Files : shared'[f] <=> IF f \in files THEN Saving(f) # {} ELSE shared[f]
  BY DEF disk, Asked
<1> SUFFICES ASSUME NEW f \in Files, NEW v \in Writers, Wants(v, f)', ~shared'[f]
    PROVE  Alone(v, f)'
  BY DEF LoneSaves
<1>2. CASE f \in files
  <2>1. \A u \in Writers : ~Wants(u, f)
    BY <1>1, <1>2 DEF Saving
  <2>2. \A u \in Writers : Wants(u, f)' => u = w
    BY <1>1, <2>1 DEF Wants
  <2>3. v = w /\ step'[v] = "create"
    BY <1>1, <2>2
  <2> QED
    BY <2>2, <2>3 DEF Alone
<1>3. CASE f \notin files
  <2>1. \A u \in Writers : Wants(u, f)' <=> Wants(u, f)
    BY <1>1, <1>3 DEF Wants
  <2>2. v # w /\ Wants(v, f) /\ ~shared[f]
    BY <1>1, <1>3, <2>1 DEF Idle
  <2>3. Alone(v, f)
    BY <2>2 DEF LoneSaves
  <2>4. /\ File(v)' = File(v) /\ step'[v] = step[v] /\ handle'[v] = handle[v]
        /\ asked'[f][v] = asked[f][v]
    BY <1>1, <1>3, <2>2
  <2> QED
    BY <1>1, <2>1, <2>3, <2>4 DEF Alone
<1> QED
  BY <1>2, <1>3

\* Saves that end, all of them or none, leave the others as they were.
LEMMA LoseLone ==
  ASSUME DiskInv, LoneSaves, NEW W \in SUBSET Writers,
         \A v \in Writers, f \in Files :
           asked'[f][v] = IF v \in W THEN None ELSE asked[f][v],
         \A v \in Writers : v \notin W =>
           step'[v] = step[v] /\ handle'[v] = handle[v] /\ File(v)' = File(v),
         scratch' = scratch, shared' = shared,
         \A v \in Writers \ W : \A f \in Files :
           Wants(v, f) /\ ~shared[f] /\ File(v) = f /\ scratch[f] # None
             => /\ content'[scratch[f]] = content[scratch[f]]
                /\ synced'[scratch[f]] = synced[scratch[f]]
  PROVE  LoneSaves'
<1> SUFFICES ASSUME NEW f \in Files, NEW v \in Writers, Wants(v, f)', ~shared'[f]
    PROVE  Alone(v, f)'
  BY DEF LoneSaves
<1>1. \A u \in Writers : Wants(u, f)' => Wants(u, f) /\ u \notin W
  BY DEF Wants
<1>2. Wants(v, f) /\ ~shared[f] /\ v \notin W
  BY <1>1
<1>3. Alone(v, f)
  BY <1>2 DEF LoneSaves
<1>4. /\ File(v)' = File(v) /\ step'[v] = step[v] /\ handle'[v] = handle[v]
      /\ asked'[f][v] = asked[f][v]
  BY <1>2
<1>5. \A u \in Writers : Wants(u, f)' => u = v
  BY <1>1, <1>3 DEF Alone
<1>6. File(v)' = f => /\ step'[v] \in {"write", "sync"} => handle'[v] = scratch'[f]
                      /\ step'[v] = "write" => content'[scratch'[f]] = Torn
                      /\ step'[v] = "sync" => content'[scratch'[f]] = asked'[f][v]
                      /\ step'[v] = "rename" =>
                           /\ scratch'[f] # None
                           /\ content'[scratch'[f]] = asked'[f][v]
                           /\ synced'[scratch'[f]] = asked'[f][v]
  <2> SUFFICES ASSUME File(v) = f PROVE
        /\ step[v] \in {"write", "sync"} => handle[v] = scratch[f]
        /\ step[v] = "write" => content'[scratch[f]] = Torn
        /\ step[v] = "sync" => content'[scratch[f]] = asked[f][v]
        /\ step[v] = "rename" =>
             /\ scratch[f] # None
             /\ content'[scratch[f]] = asked[f][v]
             /\ synced'[scratch[f]] = asked[f][v]
    BY <1>4
  <2>1. step[v] \in {"write", "sync"} => handle[v] = scratch[f] /\ scratch[f] # None
    BY <1>3 DEF Alone, DiskInv, OpenFiles
  <2>2. step[v] = "rename" => scratch[f] # None
    BY <1>3 DEF Alone
  <2>3. scratch[f] # None => /\ content'[scratch[f]] = content[scratch[f]]
                             /\ synced'[scratch[f]] = synced[scratch[f]]
    BY <1>2
  <2> QED
    BY <1>3, <2>1, <2>2, <2>3 DEF Alone
<1> QED
  BY <1>5, <1>6 DEF Alone

\* A step of a task on one file leaves the saves of the other as they were.
LEMMA TaskLone ==
  ASSUME DiskInv, LoneSaves, NEW w \in Writers, ~Idle(w), NEW F \in Files, F = File(w),
         \A v \in Writers, f \in Files : f # F => asked'[f][v] = asked[f][v],
         \A v \in Writers, f \in Files : Wants(v, f)' => Wants(v, f),
         \A v \in Writers : v # w =>
           step'[v] = step[v] /\ handle'[v] = handle[v] /\ File(v)' = File(v),
         shared' = shared,
         \A f \in Files : f # F =>
           /\ scratch'[f] = scratch[f]
           /\ scratch[f] # None => /\ content'[scratch[f]] = content[scratch[f]]
                                   /\ synced'[scratch[f]] = synced[scratch[f]],
         Wants(w, F)' /\ ~shared[F] /\ Alone(w, F) => Alone(w, F)',
         File(w)' # F => step'[w] \in {"create", "idle"}
  PROVE  LoneSaves'
<1> SUFFICES ASSUME NEW f \in Files, NEW v \in Writers, Wants(v, f)', ~shared'[f]
    PROVE  Alone(v, f)'
  BY DEF LoneSaves
<1>1. Wants(v, f) /\ ~shared[f]
  OBVIOUS
<1>2. Alone(v, f)
  BY <1>1 DEF LoneSaves
<1>3. Wants(w, F)
  BY FileOfWriter
<1>4. CASE f = F
  <2>1. v = w
    BY <1>2, <1>3, <1>4 DEF Alone
  <2> QED
    BY <1>1, <1>2, <1>4, <2>1
<1>5. CASE f # F
  <2>1. \A u \in Writers : Wants(u, f)' => u = v
    BY <1>2 DEF Alone
  <2>2. asked'[f][v] = asked[f][v]
    BY <1>5
  <2>3. CASE v = w
    <3>1. File(v)' = f => step'[v] \in {"create", "idle"}
      BY <1>5, <2>3
    <3> QED
      BY <2>1, <3>1 DEF Alone
  <2>4. CASE v # w
    <3>1. File(v)' = File(v) /\ step'[v] = step[v] /\ handle'[v] = handle[v] /\ scratch'[f] = scratch[f]
      BY <1>5, <2>4
    <3>2. scratch[f] # None => /\ content'[scratch[f]] = content[scratch[f]]
                               /\ synced'[scratch[f]] = synced[scratch[f]]
      BY <1>5
    <3>3. File(v) = f /\ step[v] \in {"write", "sync", "rename"} => scratch[f] # None
      BY <1>2 DEF Alone, DiskInv, OpenFiles
    <3> QED
      BY <1>2, <2>1, <2>2, <3>1, <3>2, <3>3 DEF Alone
  <2> QED
    BY <2>3, <2>4
<1> QED
  BY <1>4, <1>5

-----------------------------------------------------------------------------
(* The steps of a register *)

Register(f) == INSTANCE SettingsRegister WITH
  Askers <- Writers, Values <- Values, Absent <- None, Broken <- Broken,
  stored <- Stored(f), durable <- Durable(f), earlier <- older[f],
  asked <- asked[f], shared <- shared[f]

RegisterStep(f) == Register(f)!NextRegister \/ UNCHANGED Register(f)!register

\* What is on the disk under the name of a file.
SameOnDisk(f) ==
  Stored(f)' = Stored(f) /\ Durable(f)' = Durable(f) /\ older'[f] = older[f]

LEMMA QuietRegister ==
  ASSUME NEW f \in Files, SameOnDisk(f), asked'[f] = asked[f], shared'[f] = shared[f]
  PROVE  RegisterStep(f)
BY DEF RegisterStep, Register!register, SameOnDisk

LEMMA OverlapRegister ==
  ASSUME NEW f \in Files, shared[f], shared' = shared,
         \A w \in Writers : asked'[f][w] \in {asked[f][w], None}
  PROVE  RegisterStep(f)
<1>1. Register(f)!Overlap
  BY DEF Register!Overlap
<1> QED
  BY <1>1 DEF RegisterStep, Register!NextRegister

LEMMA AskRegister ==
  ASSUME NEW f \in Files, NEW w \in Writers, asked[f][w] = None, NEW value \in Values,
         asked'[f] = [asked[f] EXCEPT ![w] = value],
         shared'[f] = (Saving(f) # {}), SameOnDisk(f)
  PROVE  RegisterStep(f)
<1>1. Register(f)!Ask(w)
  BY DEF Register!Ask, Register!Saving, Saving, Wants, SameOnDisk
<1> QED
  BY <1>1 DEF RegisterStep, Register!NextRegister

LEMMA StoreRegister ==
  ASSUME NEW f \in Files, NEW w \in Writers, asked[f][w] # None,
         Stored(f)' = asked[f][w], Durable(f)' = asked[f][w],
         older'[f] = older[f] \cup {Durable(f)},
         asked'[f] = [asked[f] EXCEPT ![w] = None], shared'[f] = shared[f]
  PROVE  RegisterStep(f)
<1>1. Register(f)!Store(w)
  BY DEF Register!Store
<1> QED
  BY <1>1 DEF RegisterStep, Register!NextRegister

LEMMA AbortRegister ==
  ASSUME FileTypeOK, NEW f \in Files, NEW W \in SUBSET Writers, Lose(W),
         SameOnDisk(f), shared'[f] = shared[f]
  PROVE  RegisterStep(f)
<1> DEFINE gone == W \cap Saving(f)
<1>1. asked'[f] = [w \in Writers |-> IF w \in gone THEN None ELSE asked[f][w]]
  BY DEF Lose, Saving, Wants
<1>2. gone \in SUBSET Register(f)!Saving
  BY DEF Register!Saving, Saving, Wants
<1> HIDE DEF gone
<1>3. Register(f)!Abort
  BY <1>1, <1>2 DEF Register!Abort, SameOnDisk
<1> QED
  BY <1>3 DEF RegisterStep, Register!NextRegister

LEMMA SettleRegister ==
  ASSUME NEW f \in Files, Stored(f)' = Stored(f), Durable(f)' = Durable(f), older'[f] = {},
         asked'[f] = asked[f], shared'[f] = shared[f]
  PROVE  RegisterStep(f)
<1>1. Register(f)!Settle
  BY DEF Register!Settle
<1> QED
  BY <1>1 DEF RegisterStep, Register!NextRegister

LEMMA PowerCutRegister ==
  ASSUME NEW f \in Files, Stored(f)' \in older[f] \cup {Durable(f)},
         Durable(f)' = Stored(f)', older'[f] = {},
         asked'[f] = [w \in Writers |-> None], shared'[f] = shared[f]
  PROVE  RegisterStep(f)
<1>1. Register(f)!PowerCut
  BY DEF Register!PowerCut
<1> QED
  BY <1>1 DEF RegisterStep, Register!NextRegister

LEMMA HandEditRegister ==
  ASSUME NEW f \in Files, Stored(f) # None, Stored(f)' \in Values \cup {Broken},
         Durable(f)' = Stored(f)', older'[f] = {}, asked'[f] = asked[f], shared'[f] = shared[f]
  PROVE  RegisterStep(f)
<1>1. Register(f)!HandEdit
  BY DEF Register!HandEdit
<1> QED
  BY <1>1 DEF RegisterStep, Register!NextRegister

-----------------------------------------------------------------------------
(* Each step of a save keeps the invariant, and is a step of each register *)

\* StartsReplaceNothing, of one step.
StartStep ==
  \A f \in Files :
    Stored(f) # None /\ Stored(f)' # Stored(f) /\ (\A w \in Saves : Idle(w))
    => shared[f] \/ faults' # faults

Kept == FileInv' /\ (\A f \in Files : RegisterStep(f)) /\ StartStep

\* A file that is open under its own name has been renamed by another save.
LEMMA OpenIsShared ==
  ASSUME DiskInv, LoneSaves, NEW w \in Writers, NEW f \in Files,
         handle[w] # None, handle[w] = dest[f]
  PROVE  shared[f] /\ Wants(w, f) /\ f = File(w) /\ ~Idle(w)
<1>1. step[w] \in {"write", "sync"} /\ ~Idle(w) /\ f = File(w)
  BY DEF DiskInv, OpenFiles
<1>2. Wants(w, f)
  BY <1>1, FileOfWriter
<1>3. shared[f]
  <2> SUFFICES ASSUME ~shared[f] PROVE FALSE
    OBVIOUS
  <2>1. Alone(w, f)
    BY <1>2 DEF LoneSaves
  <2>2. handle[w] = scratch[f]
    BY <1>1, <2>1 DEF Alone
  <2> QED
    BY <2>2 DEF DiskInv, PathsApart
<1> QED
  BY <1>1, <1>2, <1>3

\* What a step keeps that neither asks nor ends a save.
LEMMA TaskRest ==
  ASSUME FileInv, dest' = dest, older' = older, asked' = asked, boot' = boot,
         memory' = memory, shared' = shared, sure' = sure,
         \A f \in Files : sure[f] => Stored(f)' = Stored(f)
  PROVE  NothingOlder' /\ StartsSave' /\ WindowSaves' /\ SureOfIt'
<1>1. NothingOlder /\ StartsSave /\ WindowSaves /\ SureOfIt
  BY DEF FileInv, SaveInv
<1>2. NothingOlder'
  BY <1>1 DEF NothingOlder
<1>3. StartsSave'
  BY <1>1 DEF StartsSave, Wants
<1>4. WindowSaves'
  BY <1>1 DEF WindowSaves, Wants
<1>5. \A f \in Files : Saving(f)' = Saving(f) /\ (HasRead(f)' <=> HasRead(f))
  BY DEF Saving, Wants, HasRead
<1>6. SureOfIt'
  BY <1>1, <1>5 DEF SureOfIt, Wants
<1> QED
  BY <1>2, <1>3, <1>4, <1>6

LEMMA CreateKept ==
  ASSUME FileInv, NEW w \in Writers, ~Idle(w), Create(w)
  PROVE  Kept
<1>0. PICK F \in Files : F = File(w)
  BY FileOfWriter
<1>1. DiskInv /\ LoneSaves /\ FileTypeOK
  BY DEF FileInv, SaveInv, DiskInv
<1>2. /\ DiskInv'
      /\ handle'[w] \in Inodes /\ handle'[w] = scratch'[F]
      /\ content' = [content EXCEPT ![handle'[w]] = Torn]
      /\ synced' = [synced EXCEPT ![handle'[w]] = Torn]
      /\ \A v \in Writers : v # w => handle'[v] = handle[v] /\ step'[v] = step[v]
      /\ step'[w] = "write"
      /\ \A f \in Files : /\ handle'[w] # dest[f]
                          /\ f # F => scratch'[f] = scratch[f]
                          /\ f # F => handle'[w] # scratch[f]
  BY <1>0, <1>1, CreateDisk
<1>3. /\ dest' = dest /\ older' = older /\ asked' = asked /\ boot' = boot
      /\ memory' = memory /\ shared' = shared /\ sure' = sure
  BY DEF Create
<1>4. \A v \in Writers : File(v)' = File(v)
  BY <1>3 DEF File, Wants
<1>5. /\ \A i \in Inodes : i # handle'[w] => content'[i] = content[i] /\ synced'[i] = synced[i]
      /\ content'[handle'[w]] = Torn
  BY <1>1, <1>2 DEF FileTypeOK
<1>6. \A f \in Files : SameOnDisk(f)
  <2> SUFFICES ASSUME NEW f \in Files PROVE SameOnDisk(f)
    OBVIOUS
  <2>1. dest[f] # None => dest[f] \in Inodes /\ dest[f] # handle'[w]
    BY <1>1, <1>2 DEF FileTypeOK
  <2> QED
    BY <1>3, <1>5, <2>1 DEF SameOnDisk, Stored, Durable
<1>7. LoneSaves'
  <2>1. \A f \in Files : f # F =>
          /\ scratch'[f] = scratch[f]
          /\ scratch[f] # None => /\ content'[scratch[f]] = content[scratch[f]]
                                  /\ synced'[scratch[f]] = synced[scratch[f]]
    BY <1>1, <1>2, <1>5 DEF FileTypeOK
  <2>2. \A v \in Writers : Wants(v, F)' <=> Wants(v, F)
    BY <1>3 DEF Wants
  <2>3. content'[scratch'[F]] = Torn
    BY <1>2, <1>5
  <2>4. File(w)' = F
    BY <1>0, <1>4
  <2>5. Alone(w, F) => Alone(w, F)'
    BY <1>2, <2>2, <2>3, <2>4 DEF Alone
  <2>6. \A v \in Writers, f \in Files : Wants(v, f)' => Wants(v, f)
    BY <1>3 DEF Wants
  <2> QED
    BY <1>0, <1>1, <1>2, <1>3, <1>4, <2>1, <2>4, <2>5, <2>6, TaskLone
<1>8. NothingOlder' /\ StartsSave' /\ WindowSaves' /\ SureOfIt'
  BY <1>3, <1>6, TaskRest DEF SameOnDisk
<1>9. FileInv'
  BY <1>2, <1>7, <1>8 DEF FileInv, SaveInv
<1>10. \A f \in Files : RegisterStep(f)
  BY <1>3, <1>6, QuietRegister
<1>11. StartStep
  BY <1>6 DEF StartStep, SameOnDisk
<1> QED
  BY <1>9, <1>10, <1>11 DEF Kept

LEMMA WriteKept ==
  ASSUME FileInv, NEW w \in Writers, ~Idle(w), Write(w)
  PROVE  Kept
<1>0. PICK F \in Files : F = File(w)
  BY FileOfWriter
<1>1. DiskInv /\ LoneSaves /\ FileTypeOK /\ SureOfIt
  BY DEF FileInv, SaveInv, DiskInv
<1>2. /\ DiskInv'
      /\ handle[w] \in Inodes /\ handle'[w] = handle[w] /\ step'[w] = "sync"
      /\ content[handle[w]] = Torn => content'[handle[w]] = Value(w)
      /\ \A i \in Inodes : i # handle[w] => content'[i] = content[i]
      /\ \A v \in Writers : v # w => handle'[v] = handle[v] /\ step'[v] = step[v]
  BY <1>1, WriteDisk
<1>3. /\ dest' = dest /\ older' = older /\ asked' = asked /\ boot' = boot
      /\ memory' = memory /\ shared' = shared /\ sure' = sure
      /\ scratch' = scratch /\ synced' = synced /\ step[w] = "write"
  BY DEF Write
<1>4. \A v \in Writers : File(v)' = File(v)
  BY <1>3 DEF File, Wants
<1>5. handle[w] # None
  BY <1>2, NoneIsApart
<1>6. \A f \in Files : SameOnDisk(f) \/ (shared[f] /\ Wants(w, f))
  <2> SUFFICES ASSUME NEW f \in Files PROVE SameOnDisk(f) \/ (shared[f] /\ Wants(w, f))
    OBVIOUS
  <2>1. CASE dest[f] = handle[w]
    BY <1>1, <1>5, <2>1, OpenIsShared
  <2>2. CASE dest[f] # handle[w]
    <3>1. dest[f] # None => dest[f] \in Inodes
      BY <1>1 DEF FileTypeOK
    <3> QED
      BY <1>2, <1>3, <2>2, <3>1 DEF SameOnDisk, Stored, Durable
  <2> QED
    BY <2>1, <2>2
<1>7. LoneSaves'
  <2>1. \A f \in Files : f # F /\ scratch[f] # None =>
          content'[scratch[f]] = content[scratch[f]] /\ synced'[scratch[f]] = synced[scratch[f]]
    BY <1>0, <1>1, <1>2, <1>3, <1>5 DEF FileTypeOK, DiskInv, OpenFiles
  <2>2. \A v \in Writers : Wants(v, F)' <=> Wants(v, F)
    BY <1>3 DEF Wants
  <2>3. File(w)' = F
    BY <1>0, <1>4
  <2>4. ASSUME Alone(w, F) PROVE Alone(w, F)'
    <3>1. handle[w] = scratch[F] /\ content[scratch[F]] = Torn
      BY <1>0, <1>3, <2>4 DEF Alone
    <3>2. content'[scratch'[F]] = asked'[F][w] /\ handle'[w] = scratch'[F]
      BY <1>0, <1>2, <1>3, <3>1 DEF Value
    <3> QED
      BY <1>2, <2>2, <2>3, <2>4, <3>2 DEF Alone
  <2>5. \A v \in Writers, f \in Files : Wants(v, f)' => Wants(v, f)
    BY <1>3 DEF Wants
  <2> QED
    BY <1>0, <1>1, <1>2, <1>3, <1>4, <2>1, <2>3, <2>4, <2>5, TaskLone
<1>8. \A f \in Files : sure[f] => Stored(f)' = Stored(f)
  BY <1>1, <1>6 DEF SureOfIt, SameOnDisk, Saving
<1>9. NothingOlder' /\ StartsSave' /\ WindowSaves' /\ SureOfIt'
  BY <1>3, <1>8, TaskRest
<1>10. FileInv'
  BY <1>2, <1>7, <1>9 DEF FileInv, SaveInv
<1>11. \A f \in Files : RegisterStep(f)
  BY <1>3, <1>6, QuietRegister, OverlapRegister
<1>12. StartStep
  BY <1>6 DEF StartStep, SameOnDisk
<1> QED
  BY <1>10, <1>11, <1>12 DEF Kept

LEMMA SyncKept ==
  ASSUME FileInv, NEW w \in Writers, ~Idle(w), Sync(w)
  PROVE  Kept
<1>0. PICK F \in Files : F = File(w)
  BY FileOfWriter
<1>1. DiskInv /\ LoneSaves /\ FileTypeOK
  BY DEF FileInv, SaveInv, DiskInv
<1>2. /\ DiskInv'
      /\ handle[w] \in Inodes /\ handle'[w] = None /\ step'[w] = "rename"
      /\ synced'[handle[w]] = content[handle[w]]
      /\ \A i \in Inodes : i # handle[w] => synced'[i] = synced[i]
      /\ \A v \in Writers : v # w => handle'[v] = handle[v] /\ step'[v] = step[v]
  BY <1>1, SyncDisk
<1>3. /\ dest' = dest /\ older' = older /\ asked' = asked /\ boot' = boot
      /\ memory' = memory /\ shared' = shared /\ sure' = sure
      /\ scratch' = scratch /\ content' = content /\ step[w] = "sync"
  BY DEF Sync
<1>4. \A v \in Writers : File(v)' = File(v)
  BY <1>3 DEF File, Wants
<1>5. handle[w] # None
  BY <1>2, NoneIsApart
<1>6. \A f \in Files : SameOnDisk(f) \/ shared[f]
  <2> SUFFICES ASSUME NEW f \in Files PROVE SameOnDisk(f) \/ shared[f]
    OBVIOUS
  <2>1. CASE dest[f] = handle[w]
    BY <1>1, <1>5, <2>1, OpenIsShared
  <2>2. CASE dest[f] # handle[w]
    <3>1. dest[f] # None => dest[f] \in Inodes
      BY <1>1 DEF FileTypeOK
    <3> QED
      BY <1>2, <1>3, <2>2, <3>1 DEF SameOnDisk, Stored, Durable
  <2> QED
    BY <2>1, <2>2
<1>7. LoneSaves'
  <2>1. \A f \in Files : f # F /\ scratch[f] # None =>
          content'[scratch[f]] = content[scratch[f]] /\ synced'[scratch[f]] = synced[scratch[f]]
    BY <1>0, <1>1, <1>2, <1>3, <1>5 DEF FileTypeOK, DiskInv, OpenFiles
  <2>2. \A v \in Writers : Wants(v, F)' <=> Wants(v, F)
    BY <1>3 DEF Wants
  <2>3. File(w)' = F
    BY <1>0, <1>4
  <2>4. ASSUME Alone(w, F) PROVE Alone(w, F)'
    <3>1. handle[w] = scratch[F] /\ content[scratch[F]] = asked[F][w]
      BY <1>0, <1>3, <2>4 DEF Alone
    <3>2. /\ content'[scratch'[F]] = asked'[F][w] /\ synced'[scratch'[F]] = asked'[F][w]
          /\ scratch'[F] # None
      BY <1>2, <1>3, <1>5, <3>1
    <3> QED
      BY <1>2, <2>2, <2>3, <2>4, <3>2 DEF Alone
  <2>5. \A v \in Writers, f \in Files : Wants(v, f)' => Wants(v, f)
    BY <1>3 DEF Wants
  <2> QED
    BY <1>0, <1>1, <1>2, <1>3, <1>4, <2>1, <2>3, <2>4, <2>5, TaskLone
<1>8. \A f \in Files : Stored(f)' = Stored(f)
  BY <1>3 DEF Stored
<1>9. NothingOlder' /\ StartsSave' /\ WindowSaves' /\ SureOfIt'
  BY <1>3, <1>8, TaskRest
<1>10. FileInv'
  BY <1>2, <1>7, <1>9 DEF FileInv, SaveInv
<1>11. \A f \in Files : RegisterStep(f)
  BY <1>3, <1>6, QuietRegister, OverlapRegister
<1>12. StartStep
  BY <1>8 DEF StartStep
<1> QED
  BY <1>10, <1>11, <1>12 DEF Kept

LEMMA RenameKept ==
  ASSUME FileInv, NEW w \in Writers, ~Idle(w), Rename(w)
  PROVE  Kept
<1>0. PICK F \in Files : F = File(w)
  BY FileOfWriter
<1>1. /\ DiskInv /\ LoneSaves /\ FileTypeOK /\ PathsApart
      /\ NothingOlder /\ StartsSave /\ WindowSaves /\ SureOfIt
  BY DEF FileInv, SaveInv, DiskInv
<1>2. /\ DiskInv' /\ Wants(w, F) /\ scratch[F] \in Inodes
      /\ \A f \in Files :
           /\ dest'[f] = IF f = F THEN scratch[f] ELSE dest[f]
           /\ scratch'[f] = IF f = F THEN None ELSE scratch[f]
           /\ older'[f] = IF f = F THEN older[f] \cup {Durable(f)} ELSE older[f]
           /\ sure'[f] <=> IF f = F THEN ~shared[f] /\ w # Cli ELSE sure[f]
      /\ \A i \in Inodes : i # dest[F] => content'[i] = content[i] /\ synced'[i] = synced[i]
      /\ \A v \in Writers, f \in Files :
           asked'[f][v] = IF v = w /\ f = F THEN None ELSE asked[f][v]
      /\ \A v \in Writers :
           v # w => step'[v] = step[v] /\ File(v)' = File(v) /\ Idle(v)' = Idle(v)
      /\ step'[w] \in {"create", "idle"}
  <2>1. Renamed(w, File(w))
    BY <1>1, RenameDisk, Zenon
  <2>2. Renamed(w, F)
    BY <1>0, <2>1
  <2> QED
    BY <2>2 DEF Renamed
<1>3. /\ handle' = handle /\ shared' = shared /\ boot' = boot /\ memory' = memory
      /\ faults' = faults /\ step[w] = "rename"
      /\ asked' = [asked EXCEPT ![F][w] = None]
  BY <1>0 DEF Rename, bounds
<1>4. scratch[F] # None
  BY <1>2, NoneIsApart
<1>5. \A f \in Files : f # F => SameOnDisk(f)
  <2> SUFFICES ASSUME NEW f \in Files, f # F PROVE SameOnDisk(f)
    OBVIOUS
  <2>1. dest[f] # None => dest[f] \in Inodes /\ dest[f] # dest[F]
    BY <1>1 DEF FileTypeOK, PathsApart
  <2>2. dest'[f] = dest[f] /\ older'[f] = older[f]
    BY <1>2
  <2> QED
    BY <1>2, <2>1, <2>2 DEF SameOnDisk, Stored, Durable
<1>6. Stored(F)' = content[scratch[F]] /\ Durable(F)' = synced[scratch[F]]
  <2>1. dest'[F] = scratch[F] /\ scratch[F] # dest[F]
    BY <1>1, <1>2, <1>4 DEF PathsApart
  <2> QED
    BY <1>2, <1>4, <2>1 DEF Stored, Durable
<1>7. ~shared[F] => /\ content[scratch[F]] = asked[F][w] /\ synced[scratch[F]] = asked[F][w]
                    /\ \A v \in Writers : Wants(v, F) => v = w
  BY <1>0, <1>1, <1>2, <1>3 DEF LoneSaves, Alone
<1>8. \A v \in Writers, f \in Files : Wants(v, f)' <=> Wants(v, f) /\ ~(v = w /\ f = F)
  BY <1>2 DEF Wants
<1>9. LoneSaves'
  <2>1. \A f \in Files : f # F =>
          /\ scratch'[f] = scratch[f]
          /\ scratch[f] # None => /\ content'[scratch[f]] = content[scratch[f]]
                                  /\ synced'[scratch[f]] = synced[scratch[f]]
    <3> SUFFICES ASSUME NEW f \in Files, f # F
        PROVE  /\ scratch'[f] = scratch[f]
               /\ scratch[f] # None => /\ content'[scratch[f]] = content[scratch[f]]
                                       /\ synced'[scratch[f]] = synced[scratch[f]]
      OBVIOUS
    <3>1. scratch[f] # None => scratch[f] \in Inodes /\ scratch[f] # dest[F]
      BY <1>1 DEF FileTypeOK, PathsApart
    <3> QED
      BY <1>2, <3>1
  <2>2. ~Wants(w, F)'
    BY <1>8
  <2> QED
    BY <1>0, <1>1, <1>2, <1>3, <1>8, <2>1, <2>2, TaskLone
<1>10. NothingOlder'
  BY <1>1, <1>2, <1>4 DEF NothingOlder
<1>11. StartsSave'
  <2> SUFFICES ASSUME NEW p \in Programs
      PROVE  /\ ~Wants(p, "ui")'
             /\ Wants(p, "settings")' => boot'[p] = "saving"
             /\ Wants(p, "settings")' /\ ~shared'["settings"] => dest'["settings"] = None
    BY DEF StartsSave
  <2>1. p \in Writers /\ "ui" \in Files /\ "settings" \in Files
    BY DEF Writers, Files
  <2>2. ~Wants(p, "ui")' /\ (Wants(p, "settings")' => boot'[p] = "saving")
    BY <1>1, <1>3, <1>8, <2>1 DEF StartsSave
  <2>3. ASSUME Wants(p, "settings")', ~shared["settings"] PROVE dest'["settings"] = None
    <3>1. F # "settings"
      BY <1>7, <1>8, <2>1, <2>3
    <3> QED
      BY <1>1, <1>2, <1>8, <2>1, <2>3, <3>1 DEF StartsSave
  <2> QED
    BY <1>3, <2>2, <2>3
<1>12. WindowSaves'
  <2>1. \A v \in Saves, f \in Files : Wants(v, f)' => Wants(v, f) /\ asked'[f][v] = asked[f][v]
    BY <1>2, <1>8 DEF Writers
  <2> QED
    BY <1>1, <1>3, <2>1 DEF WindowSaves
<1>13. SureOfIt'
  <2> SUFFICES ASSUME NEW f \in Files, sure'[f]
      PROVE  /\ dest'[f] # None
             /\ ~Wants(Cli, f)'
             /\ Saving(f)' # {} => ~shared'[f]
             /\ HasRead(f)' /\ Saving(f)' = {} => Stored(f)' = memory'[f]
    BY DEF SureOfIt
  <2>1. Cli \in Writers /\ (HasRead(f)' <=> HasRead(f))
    BY <1>3 DEF Writers, Programs, HasRead
  <2>2. CASE f # F
    <3>1. \A v \in Writers : Wants(v, f)' <=> Wants(v, f)
      BY <1>8, <2>2
    <3>2. Saving(f)' = Saving(f)
      BY <3>1 DEF Saving
    <3>3. sure[f] /\ dest'[f] = dest[f] /\ Stored(f)' = Stored(f)
      BY <1>2, <1>5, <2>2 DEF SameOnDisk
    <3> QED
      BY <1>1, <1>3, <2>1, <3>1, <3>2, <3>3 DEF SureOfIt
  <2>3. CASE f = F
    <3>1. ~shared[F] /\ w # Cli
      BY <1>2, <2>3
    <3>2. \A v \in Writers : ~Wants(v, F)'
      BY <1>7, <1>8, <3>1
    <3>3. dest'[F] # None
      BY <1>2, <1>4
    <3>4. ASSUME HasRead(F) PROVE Stored(F)' = memory[F]
      <4>1. w # App
        <5> SUFFICES ASSUME w = App PROVE FALSE
          OBVIOUS
        <5>1. App \in Programs /\ (F = "ui" \/ F = "settings")
          BY DEF Programs, Files
        <5>2. boot[App] = "saving"
          BY <1>1, <1>2, <5>1 DEF StartsSave
        <5> QED
          BY <3>4, <5>2 DEF HasRead
      <4>2. w \in Saves
        BY <3>1, <4>1 DEF Writers, Programs
      <4> QED
        BY <1>1, <1>2, <1>6, <1>7, <3>1, <4>2 DEF WindowSaves
    <3> QED
      BY <1>3, <2>1, <2>3, <3>1, <3>2, <3>3, <3>4 DEF HasRead
  <2> QED
    BY <2>2, <2>3
<1>14. FileInv'
  BY <1>2, <1>9, <1>10, <1>11, <1>12, <1>13 DEF FileInv, SaveInv
<1>15. \A f \in Files : RegisterStep(f)
  <2> SUFFICES ASSUME NEW f \in Files PROVE RegisterStep(f)
    OBVIOUS
  <2>1. CASE f # F
    <3>1. asked'[f] = asked[f]
      BY <1>1, <1>3, <2>1 DEF FileTypeOK
    <3> QED
      BY <1>3, <1>5, <2>1, <3>1, QuietRegister
  <2>2. CASE f = F /\ shared[f]
    BY <1>2, <1>3, <2>2, OverlapRegister
  <2>3. CASE f = F /\ ~shared[f]
    <3>1. /\ asked'[F] = [asked[F] EXCEPT ![w] = None]
          /\ asked[F][w] # None
      BY <1>1, <1>2, <1>3 DEF FileTypeOK, Wants
    <3>2. /\ Stored(F)' = asked[F][w] /\ Durable(F)' = asked[F][w]
          /\ older'[F] = older[F] \cup {Durable(F)}
      BY <1>2, <1>6, <1>7, <2>3
    <3> QED
      BY <1>3, <2>3, <3>1, <3>2, StoreRegister
  <2> QED
    BY <2>1, <2>2, <2>3
<1>16. StartStep
  <2> SUFFICES ASSUME NEW f \in Files, Stored(f) # None, Stored(f)' # Stored(f),
                      \A v \in Saves : Idle(v), ~shared[f]
      PROVE  FALSE
    BY DEF StartStep
  <2>1. f = F
    BY <1>5 DEF SameOnDisk
  <2>2. w \in Programs
    BY DEF Writers
  <2>3. F = "settings"
    BY <1>1, <1>2, <2>2 DEF StartsSave, Files
  <2> QED
    BY <1>1, <1>2, <2>1, <2>2, <2>3 DEF StartsSave, Stored
<1> QED
  BY <1>14, <1>15, <1>16 DEF Kept

-----------------------------------------------------------------------------
(* Saves that fail, crashes and power cuts *)

LEMMA EndKept ==
  ASSUME FileInv, NEW w \in Writers, ~Idle(w), Lose({w}), StartWithout(w),
         sure' = [f \in Files |-> sure[f] /\ ~Wants(w, f)],
         dest' = dest, scratch' = scratch, synced' = synced, older' = older, shared' = shared,
         content' \in [Inodes -> Contents],
         \A i \in Inodes : i # handle[w] => content'[i] = content[i],
         content' = content \/ faults' # faults,
         faults' \in Nat, commits' \in Nat, boots' \in Nat
  PROVE  Kept
<1>1. /\ DiskInv /\ LoneSaves /\ FileTypeOK /\ OpenFiles
      /\ NothingOlder /\ StartsSave /\ WindowSaves /\ SureOfIt
  BY DEF FileInv, SaveInv, DiskInv
<1>2. App # Cli /\ App \in Programs /\ Cli \in Programs /\ App \notin Saves /\ Cli \notin Saves
  BY WriterAssumption DEF Programs
<1>3. {w} \in SUBSET Writers
  OBVIOUS
<1>4. /\ \A v \in Writers, f \in Files : asked'[f][v] = IF v \in {w} THEN None ELSE asked[f][v]
      /\ \A v \in Writers :
           /\ step'[v] = IF v \in {w} THEN "idle" ELSE step[v]
           /\ handle'[v] = IF v \in {w} THEN None ELSE handle[v]
           /\ v \notin {w} => File(v)' = File(v) /\ Idle(v)' = Idle(v)
  BY <1>1, <1>3, LoseTasks
<1>5. \A v \in Writers, f \in Files : Wants(v, f)' <=> Wants(v, f) /\ v # w
  BY <1>4 DEF Wants
<1>6. w = App => Wants(App, "settings") /\ boot[App] = "saving" /\ ~Wants(App, "ui")
  BY <1>1, <1>2 DEF StartsSave, Idle, Files
<1>7. /\ \A p \in Programs : p # w => boot'[p] = boot[p]
      /\ w = App => boot'[App] = "ui"
      /\ w # App => boot'[App] = boot[App] /\ memory' = memory
      /\ memory'["ui"] = memory["ui"]
      /\ boot' \in [Programs -> {"off", "saving", "settings", "ui", "up"}]
      /\ memory' \in [Files -> Values]
  <2>1. Defaults \in Values
    BY BoundAssumption DEF Defaults, Values
  <2>2. CASE w = App
    <3>1. boot' = [boot EXCEPT ![App] = "ui"] /\ memory' = [memory EXCEPT !["settings"] = Defaults]
      BY <1>2, <2>2 DEF StartWithout
    <3> QED
      BY <1>1, <1>2, <2>1, <2>2, <3>1 DEF FileTypeOK, Files
  <2>3. CASE w = Cli
    <3>1. boot' = [boot EXCEPT ![Cli] = "off"] /\ memory' = memory
      BY <1>2, <2>3 DEF StartWithout
    <3> QED
      BY <1>1, <1>2, <2>3, <3>1 DEF FileTypeOK
  <2>4. CASE w # App /\ w # Cli
    <3>1. boot' = boot /\ memory' = memory
      BY <2>4 DEF StartWithout
    <3> QED
      BY <1>1, <2>4, <3>1 DEF FileTypeOK
  <2> QED
    BY <2>2, <2>3, <2>4
<1>8. \A f \in Files : SameOnDisk(f) \/ (shared[f] /\ Wants(w, f))
  <2> SUFFICES ASSUME NEW f \in Files PROVE SameOnDisk(f) \/ (shared[f] /\ Wants(w, f))
    OBVIOUS
  <2>1. dest[f] # None => dest[f] \in Inodes
    BY <1>1 DEF FileTypeOK
  <2>2. CASE dest[f] = handle[w] /\ handle[w] # None
    BY <1>1, <2>2, OpenIsShared
  <2>3. CASE dest[f] # handle[w] \/ handle[w] = None
    BY <2>1, <2>3 DEF SameOnDisk, Stored, Durable
  <2> QED
    BY <2>2, <2>3
<1>9. DiskInv'
  <2>1. sure' \in [Files -> BOOLEAN]
    BY <1>1 DEF FileTypeOK
  <2>2. BootTypeOK'
    BY <1>7 DEF BootTypeOK
  <2>3. /\ dest' \in [Files -> Inodes \cup {None}] /\ \A f \in Files : dest'[f] \in {dest[f], None}
        /\ synced' \in [Inodes -> Contents] /\ older' \in [Files -> SUBSET (Contents \cup {None})]
    BY <1>1 DEF FileTypeOK
  <2> QED
    BY <1>1, <1>3, <2>1, <2>2, <2>3, LoseDisk
<1>10. LoneSaves'
  <2>1. ASSUME NEW v \in Writers \ {w}, NEW f \in Files,
               Wants(v, f), ~shared[f], File(v) = f, scratch[f] # None
        PROVE  content'[scratch[f]] = content[scratch[f]] /\ synced'[scratch[f]] = synced[scratch[f]]
    <3>1. Alone(v, f)
      BY <1>1, <2>1 DEF LoneSaves
    <3>2. ~Wants(w, f)
      BY <3>1 DEF Alone
    <3>3. f # File(w)
      BY <3>2, FileOfWriter
    <3>4. scratch[f] # handle[w] /\ scratch[f] \in Inodes
      BY <1>1, <2>1, <3>3 DEF OpenFiles, FileTypeOK
    <3> QED
      BY <3>4
  <2>2. \A v \in Writers : v \notin {w} =>
          step'[v] = step[v] /\ handle'[v] = handle[v] /\ File(v)' = File(v)
    BY <1>4
  <2> QED
    BY <1>1, <1>3, <1>4, <2>1, <2>2, LoseLone
<1>11. NothingOlder'
  BY <1>1 DEF NothingOlder
<1>12. StartsSave'
  <2>1. \A p \in Programs : p \in Writers
    BY DEF Writers
  <2> QED
    BY <1>1, <1>5, <1>7, <2>1 DEF StartsSave, Files
<1>13. WindowSaves'
  <2> SUFFICES ASSUME NEW v \in Saves, NEW f \in Files, Wants(v, f)'
      PROVE  boot'[App] = "up" /\ (~shared'[f] => asked'[f][v] = memory'[f])
    BY DEF WindowSaves
  <2>1. v \in Writers /\ Wants(v, f) /\ v # w
    BY <1>5 DEF Writers
  <2>2. boot[App] = "up" /\ (~shared[f] => asked[f][v] = memory[f])
    BY <1>1, <2>1 DEF WindowSaves
  <2>3. w # App
    BY <1>6, <2>2
  <2> QED
    BY <1>4, <1>7, <2>1, <2>2, <2>3
<1>14. SureOfIt'
  <2> SUFFICES ASSUME NEW f \in Files, sure'[f]
      PROVE  /\ dest'[f] # None
             /\ ~Wants(Cli, f)'
             /\ Saving(f)' # {} => ~shared'[f]
             /\ HasRead(f)' /\ Saving(f)' = {} => Stored(f)' = memory'[f]
    BY DEF SureOfIt
  <2>1. sure[f] /\ ~Wants(w, f)
    OBVIOUS
  <2>2. \A v \in Writers : Wants(v, f)' <=> Wants(v, f)
    BY <1>5, <2>1
  <2>3. Saving(f)' = Saving(f) /\ Cli \in Writers
    BY <1>2, <2>2 DEF Saving, Writers
  <2>4. Stored(f)' = Stored(f)
    BY <1>8, <2>1 DEF SameOnDisk
  <2>5. w = App => f = "ui" /\ ~HasRead(f)'
    BY <1>6, <1>7, <2>1 DEF Files, HasRead
  <2>6. w # App => (HasRead(f)' <=> HasRead(f)) /\ memory' = memory
    BY <1>7 DEF HasRead
  <2> QED
    BY <1>1, <2>1, <2>2, <2>3, <2>4, <2>5, <2>6 DEF SureOfIt
<1>15. FileInv'
  BY <1>9, <1>10, <1>11, <1>12, <1>13, <1>14 DEF FileInv, SaveInv
<1>16. \A f \in Files : RegisterStep(f)
  <2> SUFFICES ASSUME NEW f \in Files PROVE RegisterStep(f)
    OBVIOUS
  <2>1. CASE SameOnDisk(f)
    BY <1>1, <1>3, <2>1, AbortRegister
  <2>2. CASE shared[f]
    BY <1>4, <2>2, OverlapRegister
  <2> QED
    BY <1>8, <2>1, <2>2
<1>17. StartStep
  <2>1. content' = content => \A f \in Files : Stored(f)' = Stored(f)
    BY DEF Stored
  <2> QED
    BY <2>1 DEF StartStep
<1> QED
  BY <1>15, <1>16, <1>17 DEF Kept

LEMMA SaveFailsKept ==
  ASSUME FileInv, NEW w \in Writers, SaveFails(w)
  PROVE  Kept
<1>1. FileTypeOK /\ OpenFiles
  BY DEF FileInv, DiskInv
<1>2. /\ ~Idle(w) /\ faults' = faults + 1 /\ GiveUp(w) /\ StartWithout(w)
      /\ content' = IF step[w] = "write" THEN [content EXCEPT ![handle[w]] = Torn] ELSE content
      /\ dest' = dest /\ scratch' = scratch /\ synced' = synced /\ older' = older
      /\ commits' = commits /\ boots' = boots /\ shared' = shared
  BY DEF SaveFails
<1>3. Lose({w}) /\ sure' = [f \in Files |-> sure[f] /\ ~Wants(w, f)]
  BY <1>1, <1>2, GiveUpLoses
<1>4. faults' # faults /\ faults' \in Nat /\ commits' \in Nat /\ boots' \in Nat
  BY <1>1, <1>2 DEF FileTypeOK
<1>5. /\ content' \in [Inodes -> Contents]
      /\ \A i \in Inodes : i # handle[w] => content'[i] = content[i]
  BY <1>1, <1>2 DEF FileTypeOK, Contents
<1> QED
  BY <1>2, <1>3, <1>4, <1>5, EndKept

LEMMA NothingToRenameKept ==
  ASSUME FileInv, NEW w \in Writers, ~Idle(w), NothingToRename(w)
  PROVE  Kept
<1>1. FileTypeOK
  BY DEF FileInv, DiskInv
<1>2. /\ GiveUp(w) /\ StartWithout(w)
      /\ content' = content
      /\ dest' = dest /\ scratch' = scratch /\ synced' = synced /\ older' = older
      /\ commits' = commits /\ boots' = boots /\ faults' = faults /\ shared' = shared
  BY DEF NothingToRename, disk, bounds
<1>3. Lose({w}) /\ sure' = [f \in Files |-> sure[f] /\ ~Wants(w, f)]
  BY <1>1, <1>2, GiveUpLoses
<1>4. /\ content' \in [Inodes -> Contents]
      /\ \A i \in Inodes : i # handle[w] => content'[i] = content[i]
      /\ faults' \in Nat /\ commits' \in Nat /\ boots' \in Nat
  BY <1>1, <1>2 DEF FileTypeOK
<1> QED
  BY <1>2, <1>3, <1>4, EndKept

LEMMA CrashKept ==
  ASSUME FileInv, NEW p \in Programs, Crash(p)
  PROVE  Kept
<1> DEFINE W == IF p = App THEN Saves \cup {App} ELSE {Cli}
<1>1. /\ DiskInv /\ LoneSaves /\ FileTypeOK
      /\ NothingOlder /\ StartsSave /\ WindowSaves /\ SureOfIt
  BY DEF FileInv, SaveInv, DiskInv
<1>2. /\ Lose(W) /\ faults' = faults + 1 /\ commits' = commits /\ boots' = boots
      /\ boot' = [boot EXCEPT ![p] = "off"]
      /\ IF p = App THEN Forget ELSE UNCHANGED <<memory, sure>>
      /\ dest' = dest /\ scratch' = scratch /\ content' = content /\ synced' = synced
      /\ older' = older /\ shared' = shared
  BY DEF Crash, Fault, disk
<1>3. /\ App # Cli /\ App \in Programs /\ Cli \in Programs
      /\ W \in SUBSET Writers /\ p \in W /\ (p # App => p = Cli)
  BY WriterAssumption DEF Programs, Writers
<1> HIDE DEF W
<1>4. /\ \A v \in Writers, f \in Files : asked'[f][v] = IF v \in W THEN None ELSE asked[f][v]
      /\ \A v \in Writers :
           /\ step'[v] = IF v \in W THEN "idle" ELSE step[v]
           /\ handle'[v] = IF v \in W THEN None ELSE handle[v]
           /\ v \notin W => File(v)' = File(v) /\ Idle(v)' = Idle(v)
  BY <1>1, <1>2, <1>3, LoseTasks
<1>5. \A v \in Writers, f \in Files : Wants(v, f)' <=> Wants(v, f) /\ v \notin W
  BY <1>4 DEF Wants
<1>6. \A q \in Programs : boot'[q] = IF q = p THEN "off" ELSE boot[q]
  BY <1>1, <1>2 DEF FileTypeOK
<1>7. /\ p = App => /\ memory' = [f \in Files |-> Defaults] /\ sure' = [f \in Files |-> FALSE]
                    /\ \A v \in Saves : v \in W
      /\ p # App => memory' = memory /\ sure' = sure /\ boot'[App] = boot[App]
  BY <1>2, <1>3, <1>6 DEF Forget, W
<1>8. DiskInv'
  <2>1. Defaults \in Values
    BY BoundAssumption DEF Defaults, Values
  <2>2. sure' \in [Files -> BOOLEAN] /\ memory' \in [Files -> Values]
    BY <1>1, <1>7, <2>1 DEF FileTypeOK
  <2>3. BootTypeOK'
    BY <1>1, <1>2, <2>2 DEF BootTypeOK, FileTypeOK
  <2>4. /\ dest' \in [Files -> Inodes \cup {None}] /\ \A f \in Files : dest'[f] \in {dest[f], None}
        /\ content' \in [Inodes -> Contents]
        /\ synced' \in [Inodes -> Contents] /\ older' \in [Files -> SUBSET (Contents \cup {None})]
    BY <1>1, <1>2 DEF FileTypeOK
  <2> QED
    BY <1>1, <1>2, <1>3, <2>2, <2>3, <2>4, LoseDisk
<1>9. LoneSaves'
  BY <1>1, <1>2, <1>3, <1>4, LoseLone
<1>10. NothingOlder'
  BY <1>1, <1>2 DEF NothingOlder
<1>11. StartsSave'
  <2>1. \A q \in Programs : q \in Writers
    BY DEF Writers
  <2> QED
    BY <1>1, <1>2, <1>3, <1>5, <1>6, <2>1 DEF StartsSave, Files
<1>12. WindowSaves'
  <2> SUFFICES ASSUME NEW v \in Saves, NEW f \in Files, Wants(v, f)'
      PROVE  boot'[App] = "up" /\ (~shared'[f] => asked'[f][v] = memory'[f])
    BY DEF WindowSaves
  <2>1. v \in Writers /\ Wants(v, f) /\ v \notin W
    BY <1>5 DEF Writers
  <2>2. p # App
    BY <1>7, <2>1
  <2> QED
    BY <1>1, <1>2, <1>4, <1>7, <2>1, <2>2 DEF WindowSaves
<1>13. SureOfIt'
  <2> SUFFICES ASSUME NEW f \in Files, sure'[f]
      PROVE  /\ dest'[f] # None
             /\ ~Wants(Cli, f)'
             /\ Saving(f)' # {} => ~shared'[f]
             /\ HasRead(f)' /\ Saving(f)' = {} => Stored(f)' = memory'[f]
    BY DEF SureOfIt
  <2>1. p # App /\ p = Cli
    BY <1>3, <1>7
  <2>2. sure[f] /\ memory' = memory /\ (HasRead(f)' <=> HasRead(f))
    BY <1>7, <2>1 DEF HasRead
  <2>3. ~Wants(Cli, f) /\ W = {Cli} /\ Cli \in Writers
    BY <1>1, <1>3, <2>1, <2>2 DEF SureOfIt, W, Writers
  <2>4. \A v \in Writers : Wants(v, f)' <=> Wants(v, f)
    BY <1>5, <2>3
  <2>5. Saving(f)' = Saving(f) /\ Stored(f)' = Stored(f)
    BY <1>2, <2>4 DEF Saving, Stored
  <2> QED
    BY <1>1, <1>2, <2>2, <2>3, <2>4, <2>5 DEF SureOfIt
<1>14. FileInv'
  BY <1>8, <1>9, <1>10, <1>11, <1>12, <1>13 DEF FileInv, SaveInv
<1>15. \A f \in Files : SameOnDisk(f)
  BY <1>2 DEF SameOnDisk, Stored, Durable
<1>16. \A f \in Files : RegisterStep(f)
  BY <1>1, <1>2, <1>3, <1>15, AbortRegister
<1>17. StartStep
  BY <1>15 DEF StartStep, SameOnDisk
<1> QED
  BY <1>14, <1>16, <1>17 DEF Kept

LEMMA PowerCutKept ==
  ASSUME FileInv, PowerCut
  PROVE  Kept
<1>1. DiskInv /\ FileTypeOK /\ PathsApart /\ NothingOlder
  BY DEF FileInv, SaveInv, DiskInv
<1>2. /\ faults' = faults + 1 /\ commits' = commits /\ boots' = boots
      /\ boot' = [p \in Programs |-> "off"]
      /\ Lose(Writers)
      /\ older' = [f \in Files |-> {}]
      /\ memory' = [f \in Files |-> Defaults] /\ sure' = [f \in Files |-> FALSE]
      /\ scratch' = scratch /\ shared' = shared
  BY DEF PowerCut, Fault, Forget
<1>3. PICK left \in [Files -> Contents \cup {None}] :
        /\ \A f \in Files : left[f] \in older[f] \cup {Durable(f)}
        /\ dest' = [f \in Files |-> IF left[f] = None THEN None ELSE dest[f]]
        /\ content' = [i \in Inodes |->
             IF \E f \in Files : i = dest'[f] THEN left[CHOOSE f \in Files : i = dest'[f]]
             ELSE synced[i]]
        /\ synced' = content'
  BY DEF PowerCut
<1>4. \A f \in Files : left[f] # None => dest[f] # None
  BY <1>1, <1>3 DEF NothingOlder, Durable
<1>5. \A f \in Files : dest'[f] = IF left[f] = None THEN None ELSE dest[f]
  BY <1>3
<1>6. \A i \in Inodes : i # None
  BY NoneIsApart
<1>7. \A f \in Files : left[f] # None => content'[dest'[f]] = left[f] /\ dest'[f] \in Inodes
  <2> SUFFICES ASSUME NEW f \in Files, left[f] # None
      PROVE  content'[dest'[f]] = left[f] /\ dest'[f] \in Inodes
    OBVIOUS
  <2>1. dest'[f] = dest[f] /\ dest[f] # None /\ dest[f] \in Inodes
    BY <1>1, <1>4, <1>5 DEF FileTypeOK
  <2>2. \A g \in Files : dest[f] = dest'[g] => g = f
    BY <1>1, <1>5, <2>1 DEF PathsApart
  <2>3. (CHOOSE g \in Files : dest[f] = dest'[g]) = f
    BY <2>1, <2>2
  <2>4. content'[dest[f]] = left[CHOOSE g \in Files : dest[f] = dest'[g]]
    BY <1>3, <2>1
  <2> QED
    BY <2>1, <2>3, <2>4
<1>8. \A f \in Files : Stored(f)' = left[f] /\ Durable(f)' = left[f]
  BY <1>3, <1>5, <1>6, <1>7 DEF Stored, Durable
<1>9. content' \in [Inodes -> Contents]
  <2> SUFFICES ASSUME NEW i \in Inodes PROVE content'[i] \in Contents
    BY <1>3
  <2>1. CASE \E f \in Files : i = dest'[f]
    <3>1. PICK f \in Files : i = dest'[f]
      BY <2>1
    <3>2. left[f] # None
      BY <1>5, <1>6, <3>1
    <3> QED
      BY <1>7, <3>1, <3>2
  <2>2. CASE ~\E f \in Files : i = dest'[f]
    BY <1>1, <1>3, <2>2 DEF FileTypeOK
  <2> QED
    BY <2>1, <2>2
<1>10. Writers \in SUBSET Writers
  OBVIOUS
<1>11. \A v \in Writers, f \in Files : ~Wants(v, f)' /\ asked'[f][v] = None
  BY <1>1, <1>2, <1>10, LoseTasks DEF Wants
<1>12. DiskInv'
  <2>1. Defaults \in Values
    BY BoundAssumption DEF Defaults, Values
  <2>2. sure' \in [Files -> BOOLEAN] /\ BootTypeOK'
    BY <1>1, <1>2, <2>1 DEF BootTypeOK, FileTypeOK
  <2>3. /\ dest' \in [Files -> Inodes \cup {None}] /\ \A f \in Files : dest'[f] \in {dest[f], None}
        /\ synced' \in [Inodes -> Contents] /\ older' \in [Files -> SUBSET (Contents \cup {None})]
    BY <1>1, <1>2, <1>3, <1>9 DEF FileTypeOK
  <2> QED
    BY <1>1, <1>2, <1>9, <1>10, <2>2, <2>3, LoseDisk
<1>13. LoneSaves' /\ WindowSaves'
  BY <1>11 DEF LoneSaves, WindowSaves, Writers
<1>14. NothingOlder'
  BY <1>2 DEF NothingOlder
<1>15. StartsSave'
  BY <1>11 DEF StartsSave, Writers, Files
<1>16. SureOfIt'
  BY <1>2 DEF SureOfIt
<1>17. FileInv'
  BY <1>12, <1>13, <1>14, <1>15, <1>16 DEF FileInv, SaveInv
<1>18. \A f \in Files : RegisterStep(f)
  <2> SUFFICES ASSUME NEW f \in Files PROVE RegisterStep(f)
    OBVIOUS
  <2>1. asked'[f] = [v \in Writers |-> None]
    BY <1>2 DEF Lose
  <2>2. Stored(f)' \in older[f] \cup {Durable(f)} /\ Durable(f)' = Stored(f)'
    BY <1>3, <1>8
  <2>3. older'[f] = {} /\ shared'[f] = shared[f]
    BY <1>2
  <2> QED
    BY <2>1, <2>2, <2>3, PowerCutRegister
<1>19. StartStep
  BY <1>1, <1>2 DEF StartStep, FileTypeOK
<1> QED
  BY <1>17, <1>18, <1>19 DEF Kept

-----------------------------------------------------------------------------
(* Starts, settings read, the directory settled and hand edits *)

LEMMA QuietKept ==
  ASSUME FileInv, dest' = dest, scratch' = scratch, content' = content, synced' = synced,
         asked' = asked, step' = step, handle' = handle, shared' = shared,
         older' = older \/ older' = [f \in Files |-> {}],
         BootTypeOK', sure' \in [Files -> BOOLEAN],
         \A p \in Programs : ~Idle(p) => boot'[p] = boot[p],
         boot[App] = "up" => boot'[App] = "up" /\ memory' = memory,
         SureOfIt'
  PROVE  Kept
<1>1. /\ DiskInv /\ LoneSaves /\ FileTypeOK /\ PathsApart /\ OpenFiles
      /\ NothingOlder /\ StartsSave /\ WindowSaves
  BY DEF FileInv, SaveInv, DiskInv
<1>2. \A v \in Writers : File(v)' = File(v) /\ Idle(v)' = Idle(v)
  BY DEF File, Idle, Wants
<1>3. DiskInv'
  <2>1. FileTypeOK'
    BY <1>1 DEF FileTypeOK, BootTypeOK
  <2>2. PathsApart'
    BY <1>1 DEF PathsApart
  <2>3. OpenFiles'
    BY <1>1, <1>2 DEF OpenFiles
  <2> QED
    BY <2>1, <2>2, <2>3 DEF DiskInv
<1>4. LoneSaves'
  <2>1. {} \in SUBSET Writers
    OBVIOUS
  <2> QED
    BY <1>1, <1>2, <2>1, LoseLone
<1>5. NothingOlder'
  BY <1>1 DEF NothingOlder
<1>6. StartsSave'
  BY <1>1 DEF StartsSave, Wants, Idle, Files
<1>7. WindowSaves'
  BY <1>1 DEF WindowSaves, Wants
<1>8. FileInv'
  BY <1>3, <1>4, <1>5, <1>6, <1>7 DEF FileInv, SaveInv
<1>9. \A f \in Files : Stored(f)' = Stored(f) /\ Durable(f)' = Durable(f)
  BY DEF Stored, Durable
<1>10. \A f \in Files : RegisterStep(f)
  <2>1. CASE older' = older
    BY <1>9, <2>1, QuietRegister DEF SameOnDisk
  <2>2. CASE older' = [f \in Files |-> {}]
    BY <1>9, <2>2, SettleRegister
  <2> QED
    BY <2>1, <2>2
<1>11. StartStep
  BY <1>9 DEF StartStep
<1> QED
  BY <1>8, <1>10, <1>11 DEF Kept

LEMMA SureRest ==
  ASSUME FileInv, dest' = dest, content' = content, asked' = asked, shared' = shared,
         sure' = sure, memory' = memory, \A f \in Files : HasRead(f)' => HasRead(f)
  PROVE  SureOfIt'
<1>1. SureOfIt
  BY DEF FileInv
<1>2. \A f \in Files : Saving(f)' = Saving(f) /\ Stored(f)' = Stored(f)
  BY DEF Saving, Wants, Stored
<1> QED
  BY <1>1, <1>2 DEF SureOfIt, Wants

LEMMA BootMovesKept ==
  ASSUME FileInv, NEW p \in Programs, NEW next \in {"off", "settings"},
         boot[p] # "up", Idle(p),
         boot' = [boot EXCEPT ![p] = next], UNCHANGED <<disk, tasks, memory, shared, sure>>,
         commits' \in Nat, faults' \in Nat, boots' \in Nat
  PROVE  Kept
<1>1. FileTypeOK
  BY DEF FileInv, DiskInv
<1>2. /\ dest' = dest /\ scratch' = scratch /\ content' = content /\ synced' = synced
      /\ older' = older /\ asked' = asked /\ step' = step /\ handle' = handle
      /\ memory' = memory /\ shared' = shared /\ sure' = sure
  BY DEF disk, tasks
<1>3. \A q \in Programs : boot'[q] = IF q = p THEN next ELSE boot[q]
  BY <1>1 DEF FileTypeOK
<1>4. BootTypeOK' /\ sure' \in [Files -> BOOLEAN]
  BY <1>1, <1>2 DEF FileTypeOK, BootTypeOK
<1>5. App \in Programs
  BY DEF Programs
<1>6. \A f \in Files : HasRead(f)' => HasRead(f)
  BY <1>3, <1>5 DEF HasRead
<1>7. SureOfIt'
  BY <1>2, <1>6, SureRest
<1>8. \A q \in Programs : ~Idle(q) => boot'[q] = boot[q]
  BY <1>3
<1>9. boot[App] = "up" => boot'[App] = "up" /\ memory' = memory
  BY <1>2, <1>3, <1>5
<1> QED
  BY <1>2, <1>4, <1>7, <1>8, <1>9, QuietKept

LEMMA DefaultsSavedKept ==
  ASSUME FileInv, NEW p \in Programs, DefaultsSaved(p)
  PROVE  Kept
<1>1. /\ boot[p] # "up" /\ Idle(p) /\ boot' = [boot EXCEPT ![p] = "settings"]
      /\ UNCHANGED <<disk, tasks, memory, shared, sure>>
      /\ commits' \in Nat /\ faults' \in Nat /\ boots' \in Nat
  BY DEF DefaultsSaved, bounds, FileInv, DiskInv, FileTypeOK
<1> QED
  BY <1>1, BootMovesKept

\* A program that is not saving its defaults is saving nothing.
LEMMA IdleProgram ==
  ASSUME FileInv, NEW p \in Programs, boot[p] # "saving"
  PROVE  Idle(p)
BY DEF FileInv, SaveInv, StartsSave, Idle, Files

LEMMA CliLoadsKept ==
  ASSUME FileInv, CliLoads
  PROVE  Kept
<1>1. Cli \in Programs
  BY DEF Programs
<1>2. /\ boot[Cli] = "settings" /\ boot' = [boot EXCEPT ![Cli] = "off"]
      /\ UNCHANGED <<disk, tasks, memory, shared, sure>>
      /\ commits' \in Nat /\ faults' \in Nat /\ boots' \in Nat
  BY DEF CliLoads, bounds, FileInv, DiskInv, FileTypeOK
<1>3. Idle(Cli)
  BY <1>1, <1>2, IdleProgram
<1> QED
  BY <1>1, <1>2, <1>3, BootMovesKept

LEMMA ReadKept ==
  ASSUME FileInv, NEW f \in Files, NEW next \in {"ui", "up"}, Read(f, next),
         \/ boot[App] = "settings" /\ f = "settings" /\ next = "ui"
         \/ boot[App] = "ui" /\ f = "ui" /\ next = "up"
  PROVE  Kept
<1>1. FileTypeOK /\ SureOfIt /\ StartsSave
  BY DEF FileInv, DiskInv, SaveInv
<1>2. /\ memory' = [memory EXCEPT ![f] = IF Stored(f) \in Values THEN Stored(f) ELSE Defaults]
      /\ sure' = [sure EXCEPT ![f] = Stored(f) \in Values /\ Saving(f) = {}]
      /\ boot' = [boot EXCEPT ![App] = next]
      /\ dest' = dest /\ scratch' = scratch /\ content' = content /\ synced' = synced
      /\ older' = older /\ asked' = asked /\ step' = step /\ handle' = handle
      /\ shared' = shared /\ commits' = commits /\ faults' = faults /\ boots' = boots
  BY DEF Read, disk, tasks, bounds
<1>3. App \in Programs /\ Cli \in Writers /\ Defaults \in Values /\ None \notin Values
  BY NoneIsApart, BoundAssumption DEF Programs, Writers, Defaults, Values
<1>4. BootTypeOK' /\ sure' \in [Files -> BOOLEAN]
  <2>1. boot' \in [Programs -> {"off", "saving", "settings", "ui", "up"}]
    BY <1>1, <1>2 DEF FileTypeOK
  <2>2. memory' \in [Files -> Values]
    BY <1>1, <1>2, <1>3 DEF FileTypeOK
  <2>3. sure' \in [Files -> BOOLEAN]
    BY <1>1, <1>2 DEF FileTypeOK
  <2> QED
    BY <1>1, <1>2, <2>1, <2>2, <2>3 DEF FileTypeOK, BootTypeOK
<1>5. /\ \A q \in Programs : q # App => boot'[q] = boot[q]
      /\ boot'[App] = next
      /\ \A g \in Files : g # f => memory'[g] = memory[g] /\ (sure'[g] <=> sure[g])
      /\ sure'[f] => Stored(f) \in Values /\ Saving(f) = {} /\ memory'[f] = Stored(f)
  BY <1>1, <1>2, <1>3 DEF FileTypeOK
<1>6. Idle(App) /\ boot[App] # "up"
  BY <1>3, IdleProgram
<1>7. \A g \in Files : /\ Saving(g)' = Saving(g) /\ Stored(g)' = Stored(g)
                       /\ Wants(Cli, g)' <=> Wants(Cli, g)
  BY <1>2 DEF Saving, Wants, Stored
<1>8. SureOfIt'
  <2> SUFFICES ASSUME NEW g \in Files, sure'[g]
      PROVE  /\ dest'[g] # None
             /\ ~Wants(Cli, g)'
             /\ Saving(g)' # {} => ~shared'[g]
             /\ HasRead(g)' /\ Saving(g)' = {} => Stored(g)' = memory'[g]
    BY DEF SureOfIt
  <2>1. CASE g = f
    <3>1. dest[f] # None
      BY <1>3, <1>5, <2>1 DEF Stored
    <3>2. ~Wants(Cli, f)
      BY <1>3, <1>5, <2>1 DEF Saving
    <3> QED
      BY <1>2, <1>5, <1>7, <2>1, <3>1, <3>2
  <2>2. CASE g # f
    <3>1. sure[g] /\ memory'[g] = memory[g]
      BY <1>5, <2>2
    <3>2. HasRead(g)' => HasRead(g)
      BY <1>5, <2>2 DEF HasRead, Files
    <3> QED
      BY <1>1, <1>2, <1>7, <3>1, <3>2 DEF SureOfIt
  <2> QED
    BY <2>1, <2>2
<1>9. \A q \in Programs : ~Idle(q) => boot'[q] = boot[q]
  BY <1>5, <1>6
<1> QED
  BY <1>2, <1>4, <1>6, <1>8, <1>9, QuietKept

LEMMA SettleKept ==
  ASSUME FileInv, Settle
  PROVE  Kept
<1>1. /\ dest' = dest /\ scratch' = scratch /\ content' = content /\ synced' = synced
      /\ asked' = asked /\ step' = step /\ handle' = handle /\ boot' = boot
      /\ memory' = memory /\ shared' = shared /\ sure' = sure
      /\ commits' = commits /\ faults' = faults /\ boots' = boots
      /\ older' = [f \in Files |-> {}]
  BY DEF Settle, tasks, bounds
<1>2. BootTypeOK' /\ sure' \in [Files -> BOOLEAN]
  BY <1>1 DEF FileInv, DiskInv, FileTypeOK, BootTypeOK
<1>3. SureOfIt'
  BY <1>1, SureRest DEF HasRead
<1> QED
  BY <1>1, <1>2, <1>3, QuietKept

LEMMA HandEditKept ==
  ASSUME FileInv, NEW f \in Files, HandEdit(f)
  PROVE  Kept
<1>1. /\ DiskInv /\ LoneSaves /\ FileTypeOK /\ PathsApart /\ OpenFiles
      /\ NothingOlder /\ StartsSave /\ WindowSaves /\ SureOfIt
  BY DEF FileInv, SaveInv, DiskInv
<1>2. /\ dest[f] # None /\ faults' = faults + 1 /\ commits' = commits /\ boots' = boots
      /\ older' = [older EXCEPT ![f] = {}] /\ sure' = [sure EXCEPT ![f] = FALSE]
      /\ dest' = dest /\ scratch' = scratch /\ asked' = asked /\ step' = step
      /\ handle' = handle /\ boot' = boot /\ memory' = memory /\ shared' = shared
  BY DEF HandEdit, Fault, tasks
<1>3. PICK text \in {Defaults, Broken} :
        /\ content' = [content EXCEPT ![dest[f]] = text]
        /\ synced' = [synced EXCEPT ![dest[f]] = text]
  BY DEF HandEdit
<1>4. text \in Contents /\ text \in Values \cup {Broken}
  BY BoundAssumption DEF Contents, Defaults, Values
<1>5. dest[f] \in Inodes
  BY <1>1, <1>2 DEF FileTypeOK
<1>6. /\ content'[dest[f]] = text /\ synced'[dest[f]] = text
      /\ \A i \in Inodes : i # dest[f] => content'[i] = content[i] /\ synced'[i] = synced[i]
  BY <1>1, <1>3, <1>5 DEF FileTypeOK
<1>7. \A g \in Files : g # f => SameOnDisk(g)
  <2> SUFFICES ASSUME NEW g \in Files, g # f PROVE SameOnDisk(g)
    OBVIOUS
  <2>1. dest[g] # None => dest[g] \in Inodes /\ dest[g] # dest[f]
    BY <1>1 DEF FileTypeOK, PathsApart
  <2>2. older'[g] = older[g]
    BY <1>1, <1>2 DEF FileTypeOK
  <2> QED
    BY <1>2, <1>6, <2>1, <2>2 DEF SameOnDisk, Stored, Durable
<1>8. Stored(f)' = text /\ Durable(f)' = text /\ older'[f] = {}
  BY <1>1, <1>2, <1>6 DEF Stored, Durable, FileTypeOK
<1>9. \A v \in Writers : File(v)' = File(v) /\ Idle(v)' = Idle(v)
  BY <1>2 DEF File, Idle, Wants
<1>10. DiskInv'
  <2>1. /\ content' \in [Inodes -> Contents] /\ synced' \in [Inodes -> Contents]
        /\ older' \in [Files -> SUBSET (Contents \cup {None})] /\ sure' \in [Files -> BOOLEAN]
    BY <1>1, <1>2, <1>3, <1>4 DEF FileTypeOK
  <2>2. FileTypeOK'
    BY <1>1, <1>2, <2>1 DEF FileTypeOK
  <2>3. PathsApart'
    BY <1>1, <1>2 DEF PathsApart
  <2>4. OpenFiles'
    BY <1>1, <1>2, <1>9 DEF OpenFiles
  <2> QED
    BY <2>2, <2>3, <2>4 DEF DiskInv
<1>11. LoneSaves'
  <2>1. \A g \in Files : scratch[g] # None =>
          content'[scratch[g]] = content[scratch[g]] /\ synced'[scratch[g]] = synced[scratch[g]]
    <3> SUFFICES ASSUME NEW g \in Files, scratch[g] # None
        PROVE  content'[scratch[g]] = content[scratch[g]] /\ synced'[scratch[g]] = synced[scratch[g]]
      OBVIOUS
    <3>1. scratch[g] \in Inodes /\ scratch[g] # dest[f]
      BY <1>1, <1>2 DEF FileTypeOK, PathsApart
    <3> QED
      BY <1>6, <3>1
  <2>2. {} \in SUBSET Writers
    OBVIOUS
  <2> QED
    BY <1>1, <1>2, <1>9, <2>1, <2>2, LoseLone
<1>12. NothingOlder'
  BY <1>1, <1>2 DEF NothingOlder, FileTypeOK
<1>13. StartsSave'
  BY <1>1, <1>2 DEF StartsSave, Wants
<1>14. WindowSaves'
  BY <1>1, <1>2 DEF WindowSaves, Wants
<1>15. SureOfIt'
  <2> SUFFICES ASSUME NEW g \in Files, sure'[g]
      PROVE  /\ dest'[g] # None
             /\ ~Wants(Cli, g)'
             /\ Saving(g)' # {} => ~shared'[g]
             /\ HasRead(g)' /\ Saving(g)' = {} => Stored(g)' = memory'[g]
    BY DEF SureOfIt
  <2>1. g # f /\ sure[g]
    BY <1>1, <1>2 DEF FileTypeOK
  <2>2. Stored(g)' = Stored(g)
    BY <1>7, <2>1 DEF SameOnDisk
  <2>3. Saving(g)' = Saving(g) /\ (HasRead(g)' <=> HasRead(g)) /\ (Wants(Cli, g)' <=> Wants(Cli, g))
    BY <1>2 DEF Saving, Wants, HasRead
  <2> QED
    BY <1>1, <1>2, <2>1, <2>2, <2>3 DEF SureOfIt
<1>16. FileInv'
  BY <1>10, <1>11, <1>12, <1>13, <1>14, <1>15 DEF FileInv, SaveInv
<1>17. \A g \in Files : RegisterStep(g)
  <2> SUFFICES ASSUME NEW g \in Files PROVE RegisterStep(g)
    OBVIOUS
  <2>1. CASE g # f
    BY <1>2, <1>7, <2>1, QuietRegister
  <2>2. CASE g = f
    <3>1. Stored(f) # None
      <4>1. content[dest[f]] \in Contents
        BY <1>1, <1>5 DEF FileTypeOK
      <4> QED
        BY <1>2, <4>1, NoneIsApart DEF Stored
    <3> QED
      BY <1>2, <1>4, <1>8, <2>2, <3>1, HandEditRegister
  <2> QED
    BY <2>1, <2>2
<1>18. StartStep
  BY <1>1, <1>2 DEF StartStep, FileTypeOK
<1> QED
  BY <1>16, <1>17, <1>18 DEF Kept

-----------------------------------------------------------------------------
(* Saves that begin *)

LEMMA AskRegisters ==
  ASSUME DiskInv, NEW w \in Writers, Idle(w), NEW files \in SUBSET Files,
         NEW values, \A f \in files : values[f] \in Values,
         Ask(w, files, values), UNCHANGED disk
  PROVE  /\ \A f \in Files : SameOnDisk(f) /\ RegisterStep(f)
         /\ StartStep
<1>1. FileTypeOK
  BY DEF DiskInv
<1>2. /\ asked' = [f \in Files |-> IF f \in files THEN [asked[f] EXCEPT ![w] = values[f]] ELSE asked[f]]
      /\ shared' = [f \in Files |-> IF f \in files THEN Saving(f) # {} ELSE shared[f]]
  BY DEF Ask
<1>3. \A f \in Files : SameOnDisk(f)
  BY DEF disk, SameOnDisk, Stored, Durable
<1>4. \A f \in Files : RegisterStep(f)
  <2> SUFFICES ASSUME NEW f \in Files PROVE RegisterStep(f)
    OBVIOUS
  <2>1. CASE f \in files
    <3> DEFINE value == values[f]
    <3>1. value \in Values /\ asked[f][w] = None
      BY <2>1 DEF Idle, Wants
    <3>2. asked'[f] = [asked[f] EXCEPT ![w] = value] /\ shared'[f] = (Saving(f) # {})
      BY <1>2, <2>1
    <3> HIDE DEF value
    <3> QED
      BY <1>3, <3>1, <3>2, AskRegister
  <2>2. CASE f \notin files
    <3>1. asked'[f] = asked[f] /\ shared'[f] = shared[f]
      BY <1>1, <1>2, <2>2 DEF FileTypeOK
    <3> QED
      BY <1>3, <3>1, QuietRegister
  <2> QED
    BY <2>1, <2>2
<1>5. StartStep
  BY <1>3 DEF StartStep, SameOnDisk
<1> QED
  BY <1>3, <1>4, <1>5

LEMMA LoadKept ==
  ASSUME FileInv, NEW p \in Programs, Load(p)
  PROVE  Kept
<1>1. /\ DiskInv /\ LoneSaves /\ FileTypeOK /\ OpenFiles
      /\ NothingOlder /\ StartsSave /\ WindowSaves /\ SureOfIt
  BY DEF FileInv, SaveInv, DiskInv
<1>2. /\ boot[p] = "off" /\ boots' = boots + 1 /\ UNCHANGED <<disk, memory, commits, faults>>
  BY DEF Load
<1>3. Idle(p) /\ p \in Writers /\ App \in Programs
  BY <1>2, IdleProgram DEF Writers, Programs
<1>4. commits' \in Nat /\ faults' \in Nat /\ boots' \in Nat
  BY <1>1, <1>2 DEF FileTypeOK
<1>5. CASE ~Missing("settings")
  <2>1. boot' = [boot EXCEPT ![p] = "settings"] /\ UNCHANGED <<tasks, shared, sure>>
    BY <1>5 DEF Load
  <2>2. UNCHANGED <<disk, tasks, memory, shared, sure>> /\ boot[p] # "up"
    BY <1>2, <2>1
  <2> QED
    BY <1>3, <1>4, <2>1, <2>2, BootMovesKept
<1>6. CASE Missing("settings")
  <2> DEFINE files == {"settings"}
             values == [settings |-> Defaults]
  <2>1. boot' = [boot EXCEPT ![p] = "saving"] /\ Ask(p, files, values)
    BY <1>6 DEF Load
  <2>2. files \in SUBSET Files /\ files # {} /\ \A f \in files : values[f] \in Values
    BY BoundAssumption DEF Files, Defaults, Values
  <2>3. "settings" \in files /\ "ui" \notin files /\ "settings" \in Files /\ "ui" \in Files
    BY DEF Files
  <2>4. \A q \in Programs : boot'[q] = IF q = p THEN "saving" ELSE boot[q]
    BY <1>1, <2>1 DEF FileTypeOK
  <2>5. BootTypeOK'
    BY <1>1, <1>2, <1>4, <2>1 DEF FileTypeOK, BootTypeOK
  <2> HIDE DEF files, values
  <2>6. Asked(p, files, values)
    BY <1>1, <1>3, <2>1, <2>2, AskTasks, Zenon
  <2>7. UNCHANGED disk
    BY <1>2
  <2>8. DiskInv'
    BY <1>1, <1>3, <2>1, <2>2, <2>5, <2>7, AskDisk
  <2>9. LoneSaves'
    BY <1>1, <1>3, <2>2, <2>6, <2>7, AskLone, Zenon
  <2>10. (\A f \in Files : SameOnDisk(f) /\ RegisterStep(f)) /\ StartStep
    BY <1>1, <1>3, <2>1, <2>2, <2>7, AskRegisters
  <2>11. /\ \A v \in Writers : v # p => \A f \in Files :
              (Wants(v, f)' <=> Wants(v, f)) /\ asked'[f][v] = asked[f][v]
         /\ Wants(p, "ui")' <=> Wants(p, "ui")
         /\ shared'["settings"] <=> Saving("settings") # {}
         /\ shared'["ui"] <=> shared["ui"]
         /\ \A f \in Files : sure'[f] => sure[f]
    BY <1>3, <2>3, <2>6 DEF Asked, Wants
  <2>12. dest["settings"] = None /\ dest' = dest /\ memory' = memory
    BY <1>2, <1>6 DEF Missing, disk
  <2>13. NothingOlder'
    BY <1>1, <2>7 DEF NothingOlder, disk
  <2>14. StartsSave'
    <3> SUFFICES ASSUME NEW q \in Programs
        PROVE  /\ ~Wants(q, "ui")'
               /\ Wants(q, "settings")' => boot'[q] = "saving"
               /\ Wants(q, "settings")' /\ ~shared'["settings"] => dest'["settings"] = None
      BY DEF StartsSave
    <3>1. q \in Writers
      BY DEF Writers
    <3>2. ~Wants(q, "ui")'
      BY <1>1, <2>3, <2>11, <3>1 DEF StartsSave
    <3>3. Wants(q, "settings")' => boot'[q] = "saving"
      BY <1>1, <2>3, <2>4, <2>11, <3>1 DEF StartsSave
    <3> QED
      BY <2>12, <3>2, <3>3
  <2>15. WindowSaves'
    <3> SUFFICES ASSUME NEW v \in Saves, NEW f \in Files, Wants(v, f)'
        PROVE  boot'[App] = "up" /\ (~shared'[f] => asked'[f][v] = memory'[f])
      BY DEF WindowSaves
    <3>1. v \in Writers /\ v # p
      BY WriterAssumption DEF Writers, Programs
    <3>2. Wants(v, f) /\ asked'[f][v] = asked[f][v]
      BY <2>11, <3>1
    <3>3. boot[App] = "up" /\ (~shared[f] => asked[f][v] = memory[f])
      BY <1>1, <3>2 DEF WindowSaves
    <3>4. boot'[App] = "up"
      BY <1>2, <1>3, <2>4, <3>3
    <3>5. f = "settings" => shared'[f]
      BY <2>11, <3>1, <3>2 DEF Saving
    <3>6. f # "settings" => f = "ui"
      BY DEF Files
    <3> QED
      BY <2>11, <2>12, <3>2, <3>3, <3>4, <3>5, <3>6
  <2>16. SureOfIt'
    <3> SUFFICES ASSUME NEW f \in Files, sure'[f]
        PROVE  /\ dest'[f] # None
               /\ ~Wants(Cli, f)'
               /\ Saving(f)' # {} => ~shared'[f]
               /\ HasRead(f)' /\ Saving(f)' = {} => Stored(f)' = memory'[f]
      BY DEF SureOfIt
    <3>1. sure[f] /\ dest[f] # None /\ f = "ui"
      BY <1>1, <2>11, <2>12 DEF SureOfIt, Files
    <3>2. \A v \in Writers : Wants(v, f)' <=> Wants(v, f)
      BY <2>3, <2>11, <3>1
    <3>3. Saving(f)' = Saving(f) /\ Cli \in Writers
      BY <3>2 DEF Saving, Writers, Programs
    <3>4. HasRead(f)' => HasRead(f)
      BY <1>3, <2>4, <3>1 DEF HasRead
    <3>5. Stored(f)' = Stored(f)
      BY <2>10 DEF SameOnDisk
    <3> QED
      BY <1>1, <2>11, <2>12, <3>1, <3>2, <3>3, <3>4, <3>5 DEF SureOfIt
  <2>17. FileInv'
    BY <2>8, <2>9, <2>13, <2>14, <2>15, <2>16 DEF FileInv, SaveInv
  <2> QED
    BY <2>10, <2>17 DEF Kept
<1> QED
  BY <1>5, <1>6

LEMMA CommitKept ==
  ASSUME FileInv, NEW changed \in Files, NEW files \in SUBSET Files, changed \in files,
         Commit(changed, files)
  PROVE  Kept
<1>1. /\ DiskInv /\ LoneSaves /\ FileTypeOK /\ OpenFiles
      /\ NothingOlder /\ StartsSave /\ WindowSaves /\ SureOfIt
  BY DEF FileInv, SaveInv, DiskInv
<1>2. /\ boot[App] = "up" /\ commits < MaxCommits /\ commits' = commits + 1
      /\ memory' = [memory EXCEPT ![changed] = commits + 1]
      /\ UNCHANGED <<disk, boot, faults, boots>>
  BY DEF Commit
<1>3. PICK w \in Saves : Idle(w) /\ Ask(w, files, memory')
  BY DEF Commit
<1>4. w \in Writers /\ w \notin Programs /\ w # Cli
  BY WriterAssumption DEF Writers, Programs
<1>5. memory' \in [Files -> Values]
  <2>1. commits + 1 \in Values
    BY <1>1, <1>2, BoundAssumption DEF FileTypeOK, Values
  <2> QED
    BY <1>1, <1>2, <2>1 DEF FileTypeOK
<1>6. \A f \in Files : f \notin files => memory'[f] = memory[f]
  BY <1>1, <1>2 DEF FileTypeOK
<1>7. BootTypeOK'
  BY <1>1, <1>2, <1>5 DEF FileTypeOK, BootTypeOK
<1> DEFINE values == memory'
<1>8. (\A f \in files : values[f] \in Values) /\ Ask(w, files, values) /\ files # {}
  BY <1>3, <1>5
<1> HIDE DEF values
<1>9. Asked(w, files, values)
  BY <1>1, <1>3, <1>4, <1>8, AskTasks, Zenon
<1>10. UNCHANGED disk
  BY <1>2
<1>11. DiskInv'
  BY <1>1, <1>3, <1>4, <1>7, <1>8, <1>10, AskDisk
<1>12. LoneSaves'
  BY <1>1, <1>3, <1>4, <1>9, <1>10, AskLone, Zenon
<1>13. (\A f \in Files : SameOnDisk(f) /\ RegisterStep(f)) /\ StartStep
  BY <1>1, <1>3, <1>4, <1>8, <1>10, AskRegisters
<1>14. /\ \A v \in Writers, f \in Files :
            /\ v # w => asked'[f][v] = asked[f][v]
            /\ v = w /\ f \in files => asked'[f][v] = values[f]
            /\ v = w /\ f \notin files => asked'[f][v] = asked[f][v]
       /\ \A f \in Files :
            /\ f \in files => (shared'[f] <=> Saving(f) # {})
            /\ f \notin files => (shared'[f] <=> shared[f])
            /\ sure'[f] <=> sure[f] /\ (f \in files => Saving(f) = {})
  BY <1>9 DEF Asked
<1>15. \A f \in Files : ~Wants(w, f)
  BY <1>3 DEF Idle
<1>16. dest' = dest /\ older' = older /\ boot' = boot
  BY <1>2 DEF disk
<1>17. NothingOlder'
  BY <1>1, <1>16 DEF NothingOlder
<1>18. \A v \in Writers, f \in Files : v # w => (Wants(v, f)' <=> Wants(v, f))
  BY <1>14 DEF Wants
<1>19. StartsSave'
  <2> SUFFICES ASSUME NEW p \in Programs
      PROVE  /\ ~Wants(p, "ui")'
             /\ Wants(p, "settings")' => boot'[p] = "saving"
             /\ Wants(p, "settings")' /\ ~shared'["settings"] => dest'["settings"] = None
    BY DEF StartsSave
  <2>1. p \in Writers /\ p # w /\ "ui" \in Files /\ "settings" \in Files
    BY <1>4 DEF Writers, Files
  <2>2. /\ Wants(p, "ui")' <=> Wants(p, "ui")
        /\ Wants(p, "settings")' <=> Wants(p, "settings")
    BY <1>18, <2>1
  <2>3. Wants(p, "settings") => Saving("settings") # {}
    BY <2>1 DEF Saving
  <2>4. Wants(p, "settings") /\ ~shared'["settings"] => ~shared["settings"]
    BY <1>14, <2>1, <2>3
  <2> QED
    BY <1>1, <1>16, <2>2, <2>4 DEF StartsSave
<1>20. WindowSaves'
  <2> SUFFICES ASSUME NEW v \in Saves, NEW f \in Files, Wants(v, f)'
      PROVE  boot'[App] = "up" /\ (~shared'[f] => asked'[f][v] = memory'[f])
    BY DEF WindowSaves
  <2>1. v \in Writers
    BY DEF Writers
  <2>2. CASE v = w
    <3>1. f \in files
      BY <1>14, <1>15, <2>1, <2>2 DEF Wants
    <3> QED
      BY <1>2, <1>14, <1>16, <2>1, <2>2, <3>1 DEF values
  <2>3. CASE v # w
    <3>1. Wants(v, f) /\ asked'[f][v] = asked[f][v]
      BY <1>14, <1>18, <2>1, <2>3
    <3>2. Saving(f) # {}
      BY <2>1, <3>1 DEF Saving
    <3>3. CASE f \in files
      BY <1>2, <1>14, <1>16, <3>2, <3>3
    <3>4. CASE f \notin files
      BY <1>1, <1>2, <1>6, <1>14, <1>16, <3>1, <3>4 DEF WindowSaves
    <3> QED
      BY <3>3, <3>4
  <2> QED
    BY <2>2, <2>3
<1>21. SureOfIt'
  <2> SUFFICES ASSUME NEW f \in Files, sure'[f]
      PROVE  /\ dest'[f] # None
             /\ ~Wants(Cli, f)'
             /\ Saving(f)' # {} => ~shared'[f]
             /\ HasRead(f)' /\ Saving(f)' = {} => Stored(f)' = memory'[f]
    BY DEF SureOfIt
  <2>1. sure[f] /\ (f \in files => Saving(f) = {}) /\ Cli \in Writers
    BY <1>14 DEF Writers, Programs
  <2>2. dest'[f] # None
    BY <1>1, <1>16, <2>1 DEF SureOfIt
  <2>3. ~Wants(Cli, f)'
    BY <1>1, <1>4, <1>18, <2>1 DEF SureOfIt
  <2>4. CASE f \in files
    <3>1. ~shared'[f]
      BY <1>14, <2>1, <2>4
    <3>2. Wants(w, f)'
      BY <1>4, <1>5, <1>14, <2>4, NoneIsApart DEF Wants, values
    <3>3. Saving(f)' # {}
      BY <1>4, <3>2 DEF Saving
    <3> QED
      BY <2>2, <2>3, <3>1, <3>3
  <2>5. CASE f \notin files
    <3>1. \A v \in Writers : Wants(v, f)' <=> Wants(v, f)
      BY <1>14, <2>5 DEF Wants
    <3>2. Saving(f)' = Saving(f)
      BY <3>1 DEF Saving
    <3>3. Stored(f)' = Stored(f) /\ memory'[f] = memory[f]
      BY <1>6, <1>13, <2>5 DEF SameOnDisk
    <3>4. HasRead(f)' <=> HasRead(f)
      BY <1>16 DEF HasRead
    <3> QED
      BY <1>1, <1>14, <2>1, <2>2, <2>3, <2>5, <3>2, <3>3, <3>4 DEF SureOfIt
  <2> QED
    BY <2>4, <2>5
<1>22. FileInv'
  BY <1>11, <1>12, <1>17, <1>19, <1>20, <1>21 DEF FileInv, SaveInv
<1> QED
  BY <1>13, <1>22 DEF Kept

-----------------------------------------------------------------------------
(* The theorems *)

LEMMA FileInit == Init => FileInv /\ \A f \in Files : Register(f)!InitRegister
<1> SUFFICES ASSUME Init PROVE FileInv /\ \A f \in Files : Register(f)!InitRegister
  OBVIOUS
<1> USE DEF Init
<1>1. FileTypeOK
  BY BoundAssumption DEF FileTypeOK, Steps, Contents, Values, Defaults
<1>2. PathsApart
  BY DEF PathsApart
<1>3. OpenFiles
  BY DEF OpenFiles, Idle, Wants
<1>4. SaveInv
  BY DEF SaveInv, LoneSaves, NothingOlder, StartsSave, Wants, Writers, Files
<1>5. WindowSaves
  BY DEF WindowSaves, Wants, Writers
<1>6. SureOfIt
  BY DEF SureOfIt
<1>7. \A f \in Files : Register(f)!InitRegister
  BY DEF Register!InitRegister, Stored, Durable
<1> QED
  BY <1>1, <1>2, <1>3, <1>4, <1>5, <1>6, <1>7 DEF FileInv, DiskInv

LEMMA FileStep ==
  ASSUME FileInv, [Next]_vars
  PROVE  Kept
<1>1. ASSUME NEW w \in Writers, Save(w) PROVE Kept
  BY <1>1, CreateKept, WriteKept, SyncKept, RenameKept, NothingToRenameKept DEF Save
<1>2. ASSUME NEW w \in Writers, SaveFails(w) PROVE Kept
  BY <1>2, SaveFailsKept
<1>3. ASSUME NEW p \in Programs, Load(p) \/ DefaultsSaved(p) \/ Crash(p) PROVE Kept
  BY <1>3, LoadKept, DefaultsSavedKept, CrashKept
<1>4. CASE LoadSettings
  BY <1>4, ReadKept DEF LoadSettings, Files
<1>5. CASE LoadUiSettings
  BY <1>5, ReadKept DEF LoadUiSettings, Files
<1>6. CASE CliLoads
  BY <1>6, CliLoadsKept
<1>7. CASE PersistSettings
  BY <1>7, CommitKept DEF PersistSettings, Files
<1>8. CASE PersistUiSettings
  <2>1. "ui" \in Files /\ {"ui"} \in SUBSET Files /\ "ui" \in {"ui"}
    BY DEF Files
  <2> QED
    BY <1>8, <2>1, CommitKept DEF PersistUiSettings
<1>9. CASE Settle
  BY <1>9, SettleKept
<1>10. CASE PowerCut
  BY <1>10, PowerCutKept
<1>11. ASSUME NEW f \in Files, HandEdit(f) PROVE Kept
  BY <1>11, HandEditKept
<1>12. CASE UNCHANGED vars
  <2>1. /\ dest' = dest /\ scratch' = scratch /\ content' = content /\ synced' = synced
        /\ older' = older /\ asked' = asked /\ step' = step /\ handle' = handle
        /\ boot' = boot /\ memory' = memory /\ shared' = shared /\ sure' = sure
        /\ commits' = commits /\ faults' = faults /\ boots' = boots
    BY <1>12 DEF vars, disk, tasks, bounds
  <2>2. BootTypeOK' /\ sure' \in [Files -> BOOLEAN]
    BY <2>1 DEF FileInv, DiskInv, FileTypeOK, BootTypeOK
  <2>3. SureOfIt'
    BY <2>1, SureRest DEF HasRead
  <2> QED
    BY <2>1, <2>2, <2>3, QuietKept
<1> QED
  BY <1>1, <1>2, <1>3, <1>4, <1>5, <1>6, <1>7, <1>8, <1>9, <1>10, <1>11, <1>12 DEF Next

\* The invariant: the inodes of the two files stay apart, a lone save has the
\* scratch file for itself, and what the window is sure of it has read or saved.
LEMMA FileInvariant == Spec => []FileInv
<1>1. FileInv /\ [Next]_vars => FileInv'
  BY FileStep DEF Kept
<1> QED
  BY FileInit, <1>1, PTL DEF Spec

\* The state of the disk, of the tasks and of the starts is well formed: no file
\* is open under the name of the other (save of config.rs and of settings.rs).
THEOREM TypeCorrect == Spec => []TypeOK
<1>1. FileInv => TypeOK
  BY DEF FileInv, DiskInv, FileTypeOK, PathsApart, OpenFiles, TypeOK
<1> QED
  BY FileInvariant, <1>1, PTL

\* When nothing is being saved, the window shows what the file holds, if it could
\* read the file and nothing failed or overlapped since (persist_settings).
THEOREM ShowsWhatIsWritten == Spec => []WrittenIsShown
<1>1. FileInv => WrittenIsShown
  BY DEF FileInv, SureOfIt, HasRead, WrittenIsShown
<1> QED
  BY FileInvariant, <1>1, PTL

\* A start of either program writes over no file that holds something
\* (load_or_create).
THEOREM StartsAreHarmless == Spec => StartsReplaceNothing
<1>1. FileInv /\ [Next]_vars => [\A f \in Files :
        Stored(f) # None /\ Stored(f)' # Stored(f) /\ (\A w \in Saves : Idle(w))
        => shared[f] \/ faults' # faults]_vars
  BY FileStep DEF Kept, StartStep
<1> QED
  BY FileInvariant, <1>1, PTL DEF Spec, StartsReplaceNothing

\* Alidade's settings file is the register of SettingsRegister: whatever fails,
\* is killed or loses power, it holds the old settings or new ones, whole
\* (Settings::save).
THEOREM SettingsImplementRegister == Spec => SettingsIsRegister
<1>1. Init => MainRegister!InitRegister
  <2>1. "settings" \in Files
    BY DEF Files
  <2> QED
    BY <2>1, FileInit DEF MainRegister!InitRegister, Register!InitRegister
<1>2. FileInv /\ [Next]_vars => [MainRegister!NextRegister]_(MainRegister!register)
  <2> SUFFICES ASSUME FileInv, [Next]_vars
      PROVE MainRegister!NextRegister \/ UNCHANGED MainRegister!register
    OBVIOUS
  <2>1. RegisterStep("settings")
    BY FileStep DEF Kept, Files
  <2> QED
    BY <2>1 DEF RegisterStep, Register!NextRegister, Register!register, Register!Ask,
      Register!Store, Register!Abort, Register!Settle, Register!PowerCut, Register!HandEdit,
      Register!Overlap, Register!Saving, MainRegister!NextRegister, MainRegister!register,
      MainRegister!Ask, MainRegister!Store, MainRegister!Abort, MainRegister!Settle,
      MainRegister!PowerCut, MainRegister!HandEdit, MainRegister!Overlap, MainRegister!Saving
<1> QED
  BY FileInvariant, <1>1, <1>2, PTL DEF Spec, SettingsIsRegister, MainRegister!RegisterSpec

\* The file of the interface is a register of the same kind (UiSettings::save).
THEOREM UiImplementsRegister == Spec => UiIsRegister
<1>1. Init => UiRegister!InitRegister
  <2>1. "ui" \in Files
    BY DEF Files
  <2> QED
    BY <2>1, FileInit DEF UiRegister!InitRegister, Register!InitRegister
<1>2. FileInv /\ [Next]_vars => [UiRegister!NextRegister]_(UiRegister!register)
  <2> SUFFICES ASSUME FileInv, [Next]_vars
      PROVE UiRegister!NextRegister \/ UNCHANGED UiRegister!register
    OBVIOUS
  <2>1. RegisterStep("ui")
    BY FileStep DEF Kept, Files
  <2> QED
    BY <2>1 DEF RegisterStep, Register!NextRegister, Register!register, Register!Ask,
      Register!Store, Register!Abort, Register!Settle, Register!PowerCut, Register!HandEdit,
      Register!Overlap, Register!Saving, UiRegister!NextRegister, UiRegister!register,
      UiRegister!Ask, UiRegister!Store, UiRegister!Abort, UiRegister!Settle,
      UiRegister!PowerCut, UiRegister!HandEdit, UiRegister!Overlap, UiRegister!Saving
<1> QED
  BY FileInvariant, <1>1, <1>2, PTL DEF Spec, UiIsRegister, UiRegister!RegisterSpec
=============================================================================
