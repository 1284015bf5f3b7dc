--------------------------- MODULE SettingsScreen ---------------------------
(***************************************************************************)
(* app/src/state.rs and app/src/screens/settings.rs: the settings screen.  *)
(*                                                                         *)
(* The user edits the measurement settings and the list of targets through *)
(* text inputs whose text is kept beside the value it stands for: the      *)
(* interval, the budget and the port of every row.  A removed target can   *)
(* be taken back until ten seconds are over or Escape is pressed.  Every   *)
(* change is committed at once: what a commit saves and the next start     *)
(* reads back is SettingsText; that the save itself succeeds is assumed    *)
(* here and is the subject of SettingsFile.  Toasts are left out.          *)
(***************************************************************************)
EXTENDS SettingsText

CONSTANTS
  Names, Hosts,      \* texts the user may type in a row, or add a target with
  PortTexts,         \* texts typed in a port input
  IntervalTexts,     \* texts typed in the interval input
  GbOf,              \* budget texts f64 can parse: whether above zero, its bytes
  GbTexts,           \* texts typed in the budget input
  GbTextOf,          \* bytes_to_gb_text: bytes with one decimal of GB
  Blank,             \* the text of an empty input
  UiChanges,         \* <<field, value>>: preferences the user may change
  ThemeFlag,         \* --theme of a restart, or ""
  MaxTargets, MaxEdits, MaxRestarts

ASSUME BoundAssumption == {MaxTargets, MaxEdits, MaxRestarts} \subseteq Nat

\* Every number the screen sets can be written.
ASSUME IntervalAssumption ==
  \A text \in IntervalTexts \cap DOMAIN NumberOf : NumberOf[text] * 60 \in Written
ASSUME BudgetAssumption ==
  \A text \in DOMAIN GbOf : GbOf[text].positive => GbOf[text].bytes \in Written
ASSUME FallbackAssumption == {443, 5000} \subseteq Written   \* DefaultTcpPort, FiveGb

\* Names and hosts are texts, preferences are of their kind.
ASSUME TextAssumption == \A text \in Names \cup Hosts : IsString(text)
ASSUME UiAssumption ==
  /\ ThemeFlag \in Themes \cup {""}
  /\ \A change \in UiChanges :
       \/ change[1] = "theme" /\ change[2] \in Themes
       \/ change[1] \in UiFlags /\ change[2] \in BOOLEAN
       \/ change[1] \in UiNumbers /\ change[2] \in Written

VARIABLES
  settings,
  ui_settings,
  target_port_text,    \* the port input of each row
  interval_text, budget_gb_text,
  removed_target,      \* what Undo would put back: at most one
  removal_generation,
  timers,              \* removals whose ten seconds run, with their generation
  help_open,
  edits, restarts,
  removals,            \* observer: how many there were
  offered,             \* observer: the last removal while its own ten seconds run
                       \* and it is neither undone nor dismissed, else 0
  before               \* observer: the rows before the removal, if untouched since

table == <<settings.targets, target_port_text>>
undo == <<removed_target, removal_generation, timers, removals, offered>>
vars == <<settings, ui_settings, target_port_text, interval_text, budget_gb_text, undo,
          help_open, edits, restarts, before>>

Kinds == {Icmp, Tcp}
DefaultTcpPort == 443
FiveGb == 5000

ParsesPort(text) == text \in DOMAIN NumberOf /\ NumberOf[text] <= MaxPort
ParsesMinutes(text) == text \in DOMAIN NumberOf /\ NumberOf[text] * 60 >= MIN_CADENCE
ParsesGb(text) == text \in DOMAIN GbOf /\ GbOf[text].positive

TypeOK ==
  /\ \A i \in DOMAIN settings.targets :
       LET target == settings.targets[i]
       IN  /\ target.name \in Names /\ target.host \in Hosts
           /\ target.kind = Icmp => target.port = {}
           /\ target.kind = Tcp => \E p \in target.port : target.port = {p} /\ p <= MaxPort
  /\ \E m \in {"download", "upload", "ping"} : settings[m]
  /\ settings.throughput_every >= MIN_CADENCE
  /\ Cardinality(removed_target) <= 1
  /\ timers \subseteq [generation : 1 .. removal_generation, removal : 1 .. removals]
  /\ offered \in 0 .. removals
  /\ help_open \in BOOLEAN

-----------------------------------------------------------------------------
(* Helpers of the screen *)

PortTextFor(target) == IF target.kind = Tcp THEN NumeralOf(Only(target.port)) ELSE Blank

\* build_probe: a port text that is no number falls back to 443.
WithKind(target, kind, port_text) ==
  [target EXCEPT !.kind = kind,
     !.port = CASE kind = Icmp -> {}
                [] kind = Tcp /\ ParsesPort(port_text) -> {NumberOf[port_text]}
                [] OTHER -> {DefaultTcpPort}]

\* validate_new_target; the names and hosts typed are taken as trimmed.
ValidForm(form) ==
  /\ form.name # <<>> /\ form.host # <<>>
  /\ form.kind = Tcp => ParsesPort(form.port) /\ NumberOf[form.port] # 0

NewTargetOf(form) ==
  [name |-> form.name, kind |-> form.kind, host |-> form.host,
   port |-> IF form.kind = Tcp THEN {NumberOf[form.port]} ELSE {},
   verified |-> TRUE, enabled |-> TRUE]

\* toggle_metric: at least one stays selected.
MayUncheck(metric) == \E other \in {"download", "upload", "ping"} \ {metric} : settings[other]

-----------------------------------------------------------------------------
\* App::boot with these settings.
Booted(loaded, ui) ==
  /\ settings' = loaded
  /\ ui_settings' = IF ThemeFlag = "" THEN ui ELSE [ui EXCEPT !.theme = ThemeFlag]
  /\ target_port_text' = [i \in DOMAIN loaded.targets |-> PortTextFor(loaded.targets[i])]
  /\ interval_text' = NumeralOf(loaded.throughput_every \div 60)
  /\ budget_gb_text' = IF loaded.daily_budget_bytes = {} THEN "5.0"
                       ELSE GbTextOf[Only(loaded.daily_budget_bytes)]
  /\ removed_target' = {}
  /\ removal_generation' = 0
  /\ timers' = {}
  /\ removals' = 0
  /\ offered' = 0
  /\ help_open' = FALSE
  /\ before' = <<>>

Init ==
  /\ settings = DefaultSettings
  /\ ui_settings = DefaultUi
  /\ target_port_text = [i \in DOMAIN DefaultSettings.targets |->
                           PortTextFor(DefaultSettings.targets[i])]
  /\ interval_text = NumeralOf(DefaultSettings.throughput_every \div 60)
  /\ budget_gb_text = "5.0"
  /\ removed_target = {}
  /\ removal_generation = 0
  /\ timers = {}
  /\ removals = 0
  /\ offered = 0
  /\ help_open = FALSE
  /\ edits = 0
  /\ restarts = 0
  /\ before = <<>>

\* One message of an input of the screen.
Edit ==
  /\ edits < MaxEdits
  /\ edits' = edits + 1
  /\ UNCHANGED <<help_open, restarts>>

\* The rows of the table and the texts of their ports.  What changes a row is
\* committed; a text that is no port is kept in its input and changes none.
SetRows(targets, texts) ==
  /\ settings' = [settings EXCEPT !.targets = targets]
  /\ target_port_text' = texts
  /\ UNCHANGED <<ui_settings, interval_text, budget_gb_text>>

AddTarget(form) ==
  /\ Edit
  /\ Len(settings.targets) < MaxTargets
  /\ ValidForm(form)
  /\ SetRows(Append(settings.targets, NewTargetOf(form)),
             Append(target_port_text, PortTextFor(NewTargetOf(form))))
  /\ before' = <<>>
  /\ UNCHANGED undo

\* The ten seconds of the removal begin.
Offer(index) ==
  /\ removed_target' = {[index |-> index, target |-> settings.targets[index],
                         port_text |-> target_port_text[index]]}
  /\ removals' = removals + 1
  /\ timers' = timers \cup {[generation |-> removal_generation', removal |-> removals']}
  /\ offered' = removals'
  /\ before' = table

\* Mutant: the texts of the ports keep their places.
RemoveTargetAlone(index) ==
  /\ Edit
  /\ index \in DOMAIN settings.targets
  /\ SetRows(RemoveAt(settings.targets, index),
             SubSeq(target_port_text, 1, Len(settings.targets) - 1))
  /\ removal_generation' = removal_generation + 1
  /\ Offer(index)

\* Mutant: a removal that replaces an offer keeps its generation.
RemoveTargetAgain(index) ==
  /\ Edit
  /\ index \in DOMAIN settings.targets
  /\ SetRows(RemoveAt(settings.targets, index), RemoveAt(target_port_text, index))
  /\ removal_generation' = removal_generation + IF removed_target = {} THEN 1 ELSE 0
  /\ Offer(index)

RemoveTarget(index) ==
  /\ Edit
  /\ index \in DOMAIN settings.targets
  /\ SetRows(RemoveAt(settings.targets, index), RemoveAt(target_port_text, index))
  /\ removal_generation' = removal_generation + 1
  /\ Offer(index)

Restored(removed) ==
  LET index == IF removed.index <= Len(settings.targets) THEN removed.index
               ELSE Len(settings.targets) + 1
  IN  <<InsertAt(settings.targets, index, removed.target),
        InsertAt(target_port_text, index, removed.port_text)>>

\* The button, or the shortcut while no text input has the focus; help is in
\* the way of both.
UndoTargetRemoval ==
  /\ Edit
  /\ ~help_open
  /\ \E removed \in removed_target :
       SetRows(Restored(removed)[1], Restored(removed)[2])
  /\ removed_target' = {}
  /\ offered' = 0
  /\ before' = <<>>
  /\ UNCHANGED <<removal_generation, timers, removals>>

\* The ten seconds of one removal are over.
UndoRemovalExpired(timer) ==
  /\ timers' = timers \ {timer}
  /\ removed_target' = IF timer.generation = removal_generation THEN {} ELSE removed_target
  /\ offered' = IF timer.removal = offered THEN 0 ELSE offered
  /\ UNCHANGED <<settings, ui_settings, target_port_text, interval_text, budget_gb_text,
                 removal_generation, removals, help_open, edits, restarts, before>>

\* Escape empties the search of help, then closes help; with help closed it
\* withdraws the undo.  The text of the search is left out.
Escape_ ==
  /\ IF help_open THEN help_open' \in BOOLEAN /\ UNCHANGED <<removed_target, offered>>
     ELSE help_open' = FALSE /\ removed_target' = {} /\ offered' = 0
  /\ UNCHANGED <<settings, ui_settings, target_port_text, interval_text, budget_gb_text,
                 removal_generation, timers, removals, edits, restarts, before>>

OpenHelp ==
  /\ ~help_open
  /\ help_open' = TRUE
  /\ UNCHANGED <<settings, ui_settings, target_port_text, interval_text, budget_gb_text, undo,
                 edits, restarts, before>>

\* edit_target and toggle_target, for the inputs target_row shows.
EditRow(index, target, text) ==
  /\ Edit
  /\ SetRows([settings.targets EXCEPT ![index] = target],
             [target_port_text EXCEPT ![index] = text])
  /\ before' = <<>>
  /\ UNCHANGED undo

ToggleTarget(index) ==
  EditRow(index, [settings.targets[index] EXCEPT !.enabled = ~@], target_port_text[index])
EditName(index, text) ==
  EditRow(index, [settings.targets[index] EXCEPT !.name = text], target_port_text[index])
EditHost(index, text) ==
  EditRow(index, [settings.targets[index] EXCEPT !.host = text], target_port_text[index])

\* Mutant: switching the kind takes the default port, whatever is typed.
EditKindPlain(index, kind) ==
  EditRow(index, WithKind(settings.targets[index], kind, Blank), target_port_text[index])
EditKind(index, kind) ==
  EditRow(index, WithKind(settings.targets[index], kind, target_port_text[index]),
          target_port_text[index])

\* Only a TCP row has a port input.  A text that is no port is kept as typed,
\* and the port stays.
EditPort(index, text) ==
  /\ settings.targets[index].kind = Tcp
  /\ EditRow(index,
             IF ParsesPort(text)
             THEN [settings.targets[index] EXCEPT !.port = {NumberOf[text]}]
             ELSE settings.targets[index],
             text)

-----------------------------------------------------------------------------
(* apply_setting_change *)

KeepRows == UNCHANGED <<ui_settings, target_port_text, undo, before>>

IntervalMinutes(text) ==
  /\ Edit
  /\ interval_text' = text
  /\ settings' = IF ParsesMinutes(text)
                 THEN [settings EXCEPT !.throughput_every = NumberOf[text] * 60]
                 ELSE settings
  /\ UNCHANGED budget_gb_text
  /\ KeepRows

Metric(metric, checked) ==
  /\ Edit
  /\ checked \/ MayUncheck(metric)
  /\ settings' = [settings EXCEPT ![metric] = checked]
  /\ UNCHANGED <<interval_text, budget_gb_text>>
  /\ KeepRows

BudgetEnabled(enabled) ==
  /\ Edit
  /\ settings' = [settings EXCEPT !.daily_budget_bytes =
                    CASE ~enabled -> {}
                      [] enabled /\ ParsesGb(budget_gb_text) -> {GbOf[budget_gb_text].bytes}
                      [] OTHER -> {FiveGb}]
  /\ UNCHANGED <<interval_text, budget_gb_text>>
  /\ KeepRows

\* The input is shown while there is a budget.
BudgetGb(text) ==
  /\ Edit
  /\ settings.daily_budget_bytes # {}
  /\ budget_gb_text' = text
  /\ settings' = IF ParsesGb(text)
                 THEN [settings EXCEPT !.daily_budget_bytes = {GbOf[text].bytes}]
                 ELSE settings
  /\ UNCHANGED interval_text
  /\ KeepRows

\* A preference of the UI alone: theme, autostart, notifications.  A threshold
\* text that is no number changes nothing.
UiSetting(field, value) ==
  /\ Edit
  /\ ui_settings' = [ui_settings EXCEPT ![field] = value]
  /\ UNCHANGED <<settings, target_port_text, interval_text, budget_gb_text, undo, before>>

-----------------------------------------------------------------------------
\* The program ends and starts again: it reads what the last commit wrote.  A
\* file that does not parse gives the defaults.
Restart ==
  /\ restarts < MaxRestarts
  /\ restarts' = restarts + 1
  /\ LET file == Parse(ToToml(settings))
         ui == ParseUi(UiToToml(ui_settings))
     IN  Booted(IF file.ok THEN file.settings ELSE DefaultSettings,
                IF ui.ok THEN ui.ui ELSE DefaultUi)
  /\ UNCHANGED edits

-----------------------------------------------------------------------------
(* What the inputs on the screen can send *)

TargetRow(index) ==
  \/ RemoveTarget(index)
  \/ ToggleTarget(index)
  \/ \E text \in Names : EditName(index, text)
  \/ \E text \in Hosts : EditHost(index, text)
  \/ \E kind \in Kinds : EditKind(index, kind)
  \/ \E text \in PortTexts : EditPort(index, text)

Forms == [name : Names, kind : Kinds, host : Hosts, port : PortTexts]
AddTargetRow == \E form \in Forms : AddTarget(form)

IntervalRow == \E text \in IntervalTexts : IntervalMinutes(text)
MetricsRow ==
  \E metric \in {"download", "upload", "ping"}, checked \in BOOLEAN : Metric(metric, checked)
BudgetSection ==
  \/ \E enabled \in BOOLEAN : BudgetEnabled(enabled)
  \/ \E text \in GbTexts : BudgetGb(text)
ThemeRow ==
  \E change \in UiChanges : change[1] = "theme" /\ UiSetting(change[1], change[2])
NotificationsSection ==
  \E change \in UiChanges : change[1] # "theme" /\ UiSetting(change[1], change[2])

Next ==
  \/ \E index \in DOMAIN settings.targets : TargetRow(index)
  \/ AddTargetRow
  \/ UndoTargetRemoval
  \/ \E timer \in timers : UndoRemovalExpired(timer)
  \/ Escape_
  \/ OpenHelp
  \/ IntervalRow
  \/ MetricsRow
  \/ BudgetSection
  \/ ThemeRow
  \/ NotificationsSection
  \/ Restart

Spec == Init /\ [][Next]_vars

-----------------------------------------------------------------------------
(* Properties *)

\* The text of every input that can be read is the value in force: the port of
\* a TCP row (state.rs, edit_target, remove_target, undo_target_removal), the
\* interval and the budget.  A budget read from the file is shown with one
\* decimal.
ShownIsUsed ==
  /\ Len(target_port_text) = Len(settings.targets)
  /\ \A i \in DOMAIN settings.targets :
       settings.targets[i].kind = Tcp /\ ParsesPort(target_port_text[i]) =>
         settings.targets[i].port = {NumberOf[target_port_text[i]]}
  /\ ParsesMinutes(interval_text) =>
       settings.throughput_every = NumberOf[interval_text] * 60
  /\ settings.daily_budget_bytes # {} /\ ParsesGb(budget_gb_text) =>
       \/ settings.daily_budget_bytes = {GbOf[budget_gb_text].bytes}
       \/ budget_gb_text = GbTextOf[Only(settings.daily_budget_bytes)]

\* As long as nothing was done to the rows since a removal, Undo gives back the
\* rows and port texts as they were (undo_target_removal).
UndoIsInverse ==
  before # <<>> => \A removed \in removed_target : Restored(removed) = before

\* A removal can be taken back until its own ten seconds are over, and no longer:
\* however many removals follow each other, in whatever order their timers,
\* Undo, Escape and help come, no timer of another removal withdraws the offer
\* and no offer outlives its own (UndoRemovalExpired, the removal generation).
UndoLastsItsTenSeconds == removed_target # {} <=> offered # 0

\* Settings that have a target, and no # in a name or host, are read back as
\* they were committed, and the preferences always are (Settings::to_toml,
\* Settings::parse, UiSettings::to_toml, UiSettings::parse).
CommittedIsReadBack ==
  /\ /\ settings.targets # <<>>
     /\ \A i \in DOMAIN settings.targets :
          Hash \notin ToSet(settings.targets[i].name) \cup ToSet(settings.targets[i].host)
     => Parse(ToToml(settings)) = [ok |-> TRUE, settings |-> settings]
  /\ ParseUi(UiToToml(ui_settings)) = [ok |-> TRUE, ui |-> ui_settings]

\* What is committed is what the next start works with.  Not so: a # in a name
\* cuts its line, and a list of no targets is read as the compiled presets.
RestartKeepsSettings == [][restarts' # restarts => settings' = settings]_vars
=============================================================================
