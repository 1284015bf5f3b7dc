---------------------------- MODULE SettingsFile ----------------------------
(***************************************************************************)
(* engine/src/config.rs (load_or_create, save), app/src/screens/           *)
(* settings.rs (load_or_default, save) and the places that call them:      *)
(* App::boot, persist_settings and persist_ui_settings of the window, and  *)
(* main of the command line.                                               *)
(*                                                                         *)
(* A save creates a scratch file beside the destination, writes it, syncs  *)
(* it and renames it onto the destination; every step may fail.  Each      *)
(* change of a setting spawns a save of its own on the runtime's threads,  *)
(* so that two saves may be under way and then share the one scratch path. *)
(* The window or the command line may end at any moment, the power may be  *)
(* cut, and the user may edit a file by hand.  Which settings they are is  *)
(* SettingsText; here a content is a number, 0 the compiled defaults.      *)
(***************************************************************************)
EXTENDS Naturals, FiniteSets

CONSTANTS
  Saves,        \* tasks of the window that can be under way at once
  App, Cli,     \* the two programs
  None, Torn, Broken,
  MaxCommits, MaxFaults, MaxBoots

ASSUME BoundAssumption == {MaxCommits, MaxFaults, MaxBoots} \subseteq Nat
ASSUME WriterAssumption ==
  /\ IsFiniteSet(Saves) /\ Saves \subseteq Nat
  /\ App \notin Saves /\ Cli \notin Saves /\ App # Cli
ASSUME NoneAssumption == None \notin Nat \cup {Torn, Broken}

Files == {"settings", "ui"}
Programs == {App, Cli}
Writers == Saves \cup Programs
Values == 0 .. MaxCommits
Defaults == 0
Contents == Values \cup {Torn, Broken}
\* Two paths of each file, and a file no path names while a task still writes it.
Inodes == 1 .. 4 + Cardinality(Writers)

VARIABLES
  dest, scratch,    \* the inode each path names, or None
  content, synced,  \* of each inode, and what of it a power cut leaves
  older,            \* contents a power cut may bring back under the path
  asked,            \* of each file, the value each writer has still to save, or None
  step, handle,     \* of the file it is saving
  boot,             \* how far each program's start has come
  memory,           \* the settings the window shows
  commits, faults, boots,
  shared,           \* observer: two saves of the file have overlapped
  sure              \* observer: the window read the file, or saved it alone, since a fault

disk == <<dest, scratch, content, synced, older>>
tasks == <<asked, step, handle>>
bounds == <<commits, faults, boots>>
vars == <<disk, tasks, boot, memory, bounds, shared, sure>>

Stored(f) == IF dest[f] = None THEN None ELSE content[dest[f]]
\* What a power cut leaves of it once the directory is on the disk.
Durable(f) == IF dest[f] = None THEN None ELSE synced[dest[f]]
Wants(w, f) == asked[f][w] # None
Idle(w) == \A f \in Files : ~Wants(w, f)
Saving(f) == {w \in Writers : Wants(w, f)}

TypeOK ==
  /\ \A f \in Files : dest[f] \in Inodes \cup {None} /\ scratch[f] \in Inodes \cup {None}
  /\ \A f, g \in Files :
       /\ dest[f] # None => dest[f] # scratch[g] /\ (f # g => dest[f] # dest[g])
       /\ f # g /\ scratch[f] # None => scratch[f] # scratch[g]
  /\ \A w \in Writers : step[w] \in {"write", "sync"} => handle[w] \in Inodes
  /\ \A w \in Writers : Idle(w) <=> step[w] = "idle"
  /\ \A f \in Files : memory[f] \in Values
  /\ \A p \in Programs : boot[p] \in {"off", "saving", "settings", "ui", "up"}

Init ==
  /\ dest = [f \in Files |-> None]
  /\ scratch = [f \in Files |-> None]
  /\ content = [i \in Inodes |-> Torn]
  /\ synced = [i \in Inodes |-> Torn]
  /\ older = [f \in Files |-> {}]
  /\ asked = [f \in Files |-> [w \in Writers |-> None]]
  /\ step = [w \in Writers |-> "idle"]
  /\ handle = [w \in Writers |-> None]
  /\ boot = [p \in Programs |-> "off"]
  /\ memory = [f \in Files |-> Defaults]
  /\ commits = 0 /\ faults = 0 /\ boots = 0
  /\ shared = [f \in Files |-> FALSE]
  /\ sure = [f \in Files |-> FALSE]

-----------------------------------------------------------------------------
(* save: create, write_all, sync_all, rename *)

\* A writer begins to save these files, the settings before the interface's.
Ask(w, files, values) ==
  /\ asked' = [f \in Files |-> IF f \in files THEN [asked[f] EXCEPT ![w] = values[f]] ELSE asked[f]]
  /\ step' = [step EXCEPT ![w] = "create"]
  /\ shared' = [f \in Files |-> IF f \in files THEN Saving(f) # {} ELSE shared[f]]
  /\ sure' = [f \in Files |-> sure[f] /\ (f \in files => Saving(f) = {})]
  /\ UNCHANGED handle

File(w) == IF Wants(w, "settings") THEN "settings" ELSE "ui"
Value(w) == asked[File(w)][w]

Used == {dest[f] : f \in Files} \cup {scratch[f] : f \in Files} \cup {handle[w] : w \in Writers}
Fresh == CHOOSE inode \in Inodes : inode \notin Used

\* Mutant: the destination itself is opened, and truncated.
CreateInPlace(w) ==
  LET inode == IF dest[File(w)] = None THEN Fresh ELSE dest[File(w)]
  IN  /\ step[w] = "create"
      /\ dest' = [dest EXCEPT ![File(w)] = inode]
      /\ content' = [content EXCEPT ![inode] = Torn]
      /\ handle' = [handle EXCEPT ![w] = inode]
      /\ step' = [step EXCEPT ![w] = "write"]
      /\ UNCHANGED <<scratch, synced, older, asked, boot, memory, bounds, shared, sure>>
\* File::create: the scratch file is made, or truncated when it is there.
Create(w) ==
  LET inode == IF scratch[File(w)] = None THEN Fresh ELSE scratch[File(w)]
  IN  /\ step[w] = "create"
      /\ scratch' = [scratch EXCEPT ![File(w)] = inode]
      /\ content' = [content EXCEPT ![inode] = Torn]
      /\ synced' = [synced EXCEPT ![inode] = Torn]
      /\ handle' = [handle EXCEPT ![w] = inode]
      /\ step' = [step EXCEPT ![w] = "write"]
      /\ UNCHANGED <<dest, older, asked, boot, memory, bounds, shared, sure>>

\* Over what another writer has written to the same file, the longer of the two
\* shows at the end.
Write(w) ==
  /\ step[w] = "write"
  /\ \E result \in {Value(w)} \cup (IF content[handle[w]] = Torn THEN {} ELSE {Torn}) :
       content' = [content EXCEPT ![handle[w]] = result]
  /\ step' = [step EXCEPT ![w] = "sync"]
  /\ UNCHANGED <<dest, scratch, synced, older, asked, handle, boot, memory, bounds,
                 shared, sure>>

\* Mutant: the file is closed without a sync.
Close(w) ==
  /\ step[w] = "sync"
  /\ step' = [step EXCEPT ![w] = "rename"]
  /\ handle' = [handle EXCEPT ![w] = None]
  /\ UNCHANGED <<disk, asked, boot, memory, bounds, shared, sure>>
\* sync_all, and the file is closed.
Sync(w) ==
  /\ step[w] = "sync"
  /\ synced' = [synced EXCEPT ![handle[w]] = content[handle[w]]]
  /\ step' = [step EXCEPT ![w] = "rename"]
  /\ handle' = [handle EXCEPT ![w] = None]
  /\ UNCHANGED <<dest, scratch, content, older, asked, boot, memory, bounds, shared, sure>>

\* An inode no path names any more holds nothing a reader can find.
Forgotten(of, inode) == IF inode = None THEN of ELSE [of EXCEPT ![inode] = Torn]

\* The scratch path may name what another writer has made of it.  What the
\* destination named is gone, unless the directory has not reached the disk.
Rename(w) ==
  LET f == File(w)
  IN  /\ step[w] = "rename"
      /\ scratch[f] # None
      /\ dest' = [dest EXCEPT ![f] = scratch[f]]
      /\ scratch' = [scratch EXCEPT ![f] = None]
      /\ older' = [older EXCEPT ![f] = @ \cup {Durable(f)}]
      /\ content' = Forgotten(content, dest[f])
      /\ synced' = Forgotten(synced, dest[f])
      /\ asked' = [asked EXCEPT ![f][w] = None]
      /\ step' = [step EXCEPT ![w] = IF \E g \in Files \ {f} : Wants(w, g) THEN "create" ELSE "idle"]
      /\ sure' = [sure EXCEPT ![f] = ~shared[f] /\ w # Cli]
      /\ UNCHANGED <<handle, boot, memory, bounds, shared>>

GiveUp(w) ==
  /\ asked' = [f \in Files |-> [asked[f] EXCEPT ![w] = None]]
  /\ step' = [step EXCEPT ![w] = "idle"]
  /\ handle' = [handle EXCEPT ![w] = None]
  /\ sure' = [f \in Files |-> sure[f] /\ ~Wants(w, f)]

\* A program whose defaults could not be saved: the window goes on with them, the
\* command line ends.
StartWithout(w) ==
  /\ boot' = CASE w = App -> [boot EXCEPT ![App] = "ui"]
               [] w = Cli -> [boot EXCEPT ![Cli] = "off"]
               [] OTHER -> boot
  /\ memory' = IF w = App THEN [memory EXCEPT !["settings"] = Defaults] ELSE memory

\* Any step may return an error, and the files that come after are not saved.
\* A full disk leaves part of the text in the scratch file.
SaveFails(w) ==
  /\ ~Idle(w)
  /\ faults < MaxFaults
  /\ faults' = faults + 1
  /\ content' = IF step[w] = "write" THEN [content EXCEPT ![handle[w]] = Torn] ELSE content
  /\ GiveUp(w)
  /\ StartWithout(w)
  /\ UNCHANGED <<dest, scratch, synced, older, commits, boots, shared>>

\* Another writer has taken the scratch file away.
NothingToRename(w) ==
  /\ step[w] = "rename"
  /\ scratch[File(w)] = None
  /\ GiveUp(w)
  /\ StartWithout(w)
  /\ UNCHANGED <<disk, bounds, shared>>

Save(w) ==
  ~Idle(w) /\ (Create(w) \/ Write(w) \/ Sync(w) \/ Rename(w) \/ NothingToRename(w))

-----------------------------------------------------------------------------
(* Settings::load_or_create and UiSettings::load_or_default *)

\* Mutant: a file that does not hold settings is replaced by the defaults.
Replaces(f) == Stored(f) \notin Values
\* path.exists() is looked at once, before the defaults are saved.
Missing(f) == dest[f] = None

Load(p) ==
  /\ boot[p] = "off"
  /\ boots < MaxBoots
  /\ boots' = boots + 1
  /\ IF Missing("settings")
     THEN /\ boot' = [boot EXCEPT ![p] = "saving"]
          /\ Ask(p, {"settings"}, [settings |-> Defaults])
     ELSE /\ boot' = [boot EXCEPT ![p] = "settings"]
          /\ UNCHANGED <<tasks, shared, sure>>
  /\ UNCHANGED <<disk, memory, commits, faults>>

DefaultsSaved(p) ==
  /\ boot[p] = "saving"
  /\ Idle(p)
  /\ boot' = [boot EXCEPT ![p] = "settings"]
  /\ UNCHANGED <<disk, tasks, memory, bounds, shared, sure>>

\* The window goes on with the defaults when the file cannot be read or does
\* not parse.
Read(f, next) ==
  /\ memory' = [memory EXCEPT ![f] = IF Stored(f) \in Values THEN Stored(f) ELSE Defaults]
  /\ sure' = [sure EXCEPT ![f] = Stored(f) \in Values /\ Saving(f) = {}]
  /\ boot' = [boot EXCEPT ![App] = next]
  /\ UNCHANGED <<disk, tasks, bounds, shared>>

LoadSettings == boot[App] = "settings" /\ Read("settings", "ui")
LoadUiSettings == boot[App] = "ui" /\ Read("ui", "up")

\* The command line reads its settings, or ends with the error; it never saves
\* them again.
CliLoads ==
  /\ boot[Cli] = "settings"
  /\ boot' = [boot EXCEPT ![Cli] = "off"]
  /\ UNCHANGED <<disk, tasks, memory, bounds, shared, sure>>

-----------------------------------------------------------------------------
(* The window: every change is saved at once, by a task of its own *)

Commit(changed, files) ==
  /\ boot[App] = "up"
  /\ commits < MaxCommits
  /\ commits' = commits + 1
  /\ memory' = [memory EXCEPT ![changed] = commits + 1]
  /\ \E w \in Saves :
       /\ Idle(w) /\ \A v \in Saves : Idle(v) => v >= w
       /\ Ask(w, files, memory')
  /\ UNCHANGED <<disk, boot, faults, boots>>

\* Mutant: only the file of the interface is saved.
PersistUiOnly == Commit("settings", {"ui"})
\* commit_settings: both files, the interface's only after the other.
PersistSettings == Commit("settings", Files)
PersistUiSettings == Commit("ui", {"ui"})

-----------------------------------------------------------------------------
(* What happens to a program or a file from outside *)

Fault == faults < MaxFaults /\ faults' = faults + 1 /\ UNCHANGED <<commits, boots>>

Lose(writers) ==
  /\ asked' = [f \in Files |->
                [w \in Writers |-> IF w \in writers THEN None ELSE asked[f][w]]]
  /\ step' = [w \in Writers |-> IF w \in writers THEN "idle" ELSE step[w]]
  /\ handle' = [w \in Writers |-> IF w \in writers THEN None ELSE handle[w]]

Forget ==
  /\ memory' = [f \in Files |-> Defaults]
  /\ sure' = [f \in Files |-> FALSE]

\* A program ends in whatever it was doing; the window may also be closed so.
Crash(p) ==
  /\ boot[p] # "off"
  /\ Fault
  /\ boot' = [boot EXCEPT ![p] = "off"]
  /\ Lose(IF p = App THEN Saves \cup {App} ELSE {Cli})
  /\ IF p = App THEN Forget ELSE UNCHANGED <<memory, sure>>
  /\ UNCHANGED <<disk, shared>>

\* The directory's entries reach the disk.
Settle ==
  /\ \E f \in Files : older[f] # {}
  /\ older' = [f \in Files |-> {}]
  /\ UNCHANGED <<dest, scratch, content, synced, tasks, boot, memory, bounds, shared, sure>>

\* Only what was synced is left, under the name it has or had.
PowerCut ==
  /\ Fault
  /\ boot' = [p \in Programs |-> "off"]
  /\ Lose(Writers)
  /\ \E left \in [Files -> Contents \cup {None}] :
       /\ \A f \in Files : left[f] \in older[f] \cup {Durable(f)}
       /\ dest' = [f \in Files |-> IF left[f] = None THEN None ELSE dest[f]]
       /\ content' = [i \in Inodes |->
            IF \E f \in Files : i = dest'[f] THEN left[CHOOSE f \in Files : i = dest'[f]]
            ELSE synced[i]]
       /\ synced' = content'
  /\ older' = [f \in Files |-> {}]
  /\ Forget
  /\ UNCHANGED <<scratch, shared>>

\* An editor leaves settings of its own, or a text that does not parse.
HandEdit(f) ==
  /\ dest[f] # None
  /\ Fault
  /\ \E text \in {Defaults, Broken} :
       /\ content' = [content EXCEPT ![dest[f]] = text]
       /\ synced' = [synced EXCEPT ![dest[f]] = text]
  /\ older' = [older EXCEPT ![f] = {}]
  /\ sure' = [sure EXCEPT ![f] = FALSE]
  /\ UNCHANGED <<dest, scratch, tasks, boot, memory, shared>>

-----------------------------------------------------------------------------
Next ==
  \/ \E w \in Writers : Save(w) \/ SaveFails(w)
  \/ \E p \in Programs : Load(p) \/ DefaultsSaved(p) \/ Crash(p)
  \/ LoadSettings \/ LoadUiSettings \/ CliLoads
  \/ PersistSettings \/ PersistUiSettings
  \/ Settle \/ PowerCut
  \/ \E f \in Files : HandEdit(f)

Spec == Init /\ [][Next]_vars

-----------------------------------------------------------------------------
(* What the two files promise *)

MainRegister == INSTANCE SettingsRegister WITH
  Askers <- Writers, Values <- Values, Absent <- None, Broken <- Broken,
  stored <- Stored("settings"), durable <- Durable("settings"), earlier <- older["settings"],
  asked <- asked["settings"], shared <- shared["settings"]
UiRegister == INSTANCE SettingsRegister WITH
  Askers <- Writers, Values <- Values, Absent <- None, Broken <- Broken,
  stored <- Stored("ui"), durable <- Durable("ui"), earlier <- older["ui"],
  asked <- asked["ui"], shared <- shared["ui"]

\* Each file is a register: through failures, crashes and power cuts a reader
\* finds the old settings or new ones, whole, as long as no two saves overlap
\* (config.rs: "Atomic").
SettingsIsRegister == MainRegister!RegisterSpec
UiIsRegister == UiRegister!RegisterSpec

\* The start of a program never writes over a file that holds something: a file
\* the user broke by hand stays repairable until the user changes a setting.
\* Only a save of defaults that was under way when the other program made the
\* file can do it.
StartsReplaceNothing ==
  [][\A f \in Files :
       Stored(f) # None /\ Stored(f)' # Stored(f) /\ (\A w \in Saves : Idle(w))
       => shared[f] \/ faults' # faults]_vars

\* When nothing is being saved, the window shows what the file holds, if it
\* could read the file at its start and nothing failed or overlapped since.
WrittenIsShown ==
  \A f \in Files :
    boot[App] = "up" /\ sure[f] /\ Saving(f) = {} => Stored(f) = memory[f]

\* What config.rs says of a save, overlapping or not: a file is never left empty
\* or half written.
NeverTorn == \A f \in Files : Stored(f) # Torn
=============================================================================
