---------------------------- MODULE SettingsText ----------------------------
(***************************************************************************)
(* engine/src/config.rs and app/src/screens/settings.rs: how the two       *)
(* settings files are written and read back.                               *)
(*                                                                         *)
(* A file is a sequence of lines, a line a key and the characters of its   *)
(* value; a section header is a line with no value.  A character is a      *)
(* string of its own, and so is a word the format has a meaning for (true, *)
(* tcp, a numeral).  Comment and empty lines, which the reader skips, are  *)
(* left out; a comment that begins inside a line is not.                   *)
(***************************************************************************)
EXTENDS Integers, Sequences, SequencesExt, FiniteSets

CONSTANTS
  NumberOf,         \* the number each numeral stands for
  DefaultSettings,  \* what Settings::default compiles in
  DefaultUi         \* what UiSettings::default compiles in

Quote == "\""
Backslash == "\\"
Hash == "#"

\* "none", which an older file may hold, is no numeral either.
ASSUME NumeralAssumption ==
  /\ \A t \in DOMAIN NumberOf : NumberOf[t] \in Nat
  /\ {Hash, "none"} \cap DOMAIN NumberOf = {}

MIN_CADENCE == 60
MaxPort == 65535

-----------------------------------------------------------------------------
(* Values *)

\* One after the other, from the first to the last.
Folded(Op(_, _), start, seq) ==
  LET upto[n \in 0 .. Len(seq)] ==
        IF n = 0 THEN start ELSE Op(upto[n - 1], seq[n])
  IN  upto[Len(seq)]

Concat(seqs) == Folded(LAMBDA done, seq : done \o seq, <<>>, seqs)

NumeralOf(n) == CHOOSE t \in DOMAIN NumberOf : NumberOf[t] = n
Flag(b) == IF b THEN "true" ELSE "false"

Escape(text) ==
  Concat([i \in DOMAIN text |->
    IF text[i] \in {Backslash, Quote} THEN <<Backslash, text[i]>> ELSE <<text[i]>>])

Quoted(text) == <<Quote>> \o Escape(text) \o <<Quote>>

\* replace("\\\"", "\""): every backslash in front of a quote goes.
UnescapeQuotes(text) ==
  Concat([i \in DOMAIN text |->
    IF text[i] = Backslash /\ i < Len(text) /\ text[i + 1] = Quote
    THEN <<>> ELSE <<text[i]>>])

\* replace("\\\\", "\\"): of a run of backslashes every second one goes.
Take(read, char) ==
  IF char = Backslash /\ read.pair THEN [read EXCEPT !.pair = FALSE]
  ELSE [text |-> Append(read.text, char), pair |-> char = Backslash]
UnescapeBackslashes(text) == Folded(Take, [text |-> <<>>, pair |-> FALSE], text).text

Unescape(text) == UnescapeBackslashes(UnescapeQuotes(text))

\* What comes before the first # of a line, quoted or not.
Uncommented(value) ==
  IF Hash \in ToSet(value)
  THEN SubSeq(value, 1, SelectInSeq(value, LAMBDA char : char = Hash) - 1)
  ELSE value

IsText(value) ==
  Len(value) >= 2 /\ Head(value) = Quote /\ Last(value) = Quote
IsFlag(value) == value \in {<<"true">>, <<"false">>}
IsNumber(value) == Len(value) = 1 /\ value[1] \in DOMAIN NumberOf

TextOf(value) == Unescape(SubSeq(value, 2, Len(value) - 1))
FlagOf(value) == value = <<"true">>

\* parse_string, parse_bool, parse_number and parse_optional_number: whether a
\* value can be read as what its key wants.
Reads(type, value) ==
  CASE type = "text"   -> IsText(value)
    [] type = "flag"   -> IsFlag(value)
    [] type = "number" -> IsNumber(value)
    [] type = "port"   -> IsNumber(value) /\ NumberOf[value[1]] <= MaxPort
    [] type = "budget" -> IsNumber(value) \/ value = <<"none">>

\* An optional value is a set of at most one.
ValueOf(type, value) ==
  CASE type = "text"   -> TextOf(value)
    [] type = "flag"   -> FlagOf(value)
    [] type \in {"number", "port"} -> NumberOf[value[1]]
    [] type = "budget" -> IF value = <<"none">> THEN {} ELSE {NumberOf[value[1]]}

-----------------------------------------------------------------------------
(* settings.toml *)

Icmp == <<"icmp">>
Tcp == <<"tcp">>

TargetKeys ==
  [name |-> "text", kind |-> "text", host |-> "text", port |-> "port",
   verified |-> "flag", enabled |-> "flag"]

\* Every key outside a target: its section, its key, its field and its type.
TopLevel == {
  <<"", "interval_seconds", "throughput_every", "number">>,
  <<"", "throughput_every_seconds", "throughput_every", "number">>,
  <<"", "ping_every_seconds", "ping_every", "number">>,
  <<"", "daily_budget_bytes", "daily_budget_bytes", "budget">>,
  <<"", "raw_ping_retention_days", "raw_ping_retention_days", "number">>,
  <<"endpoints", "download_url", "download_url", "text">>,
  <<"endpoints", "upload_url", "upload_url", "text">>,
  <<"metrics", "download", "download", "flag">>,
  <<"metrics", "upload", "upload", "flag">>,
  <<"metrics", "ping", "ping", "flag">>}

Headers == {"[[targets]]", "[endpoints]", "[metrics]"}
SectionOf(header) == IF header = "[endpoints]" THEN "endpoints" ELSE "metrics"

TargetDraft == [key \in DOMAIN TargetKeys |-> {}]

\* TargetDraft::finish: a draft with a name, a host, a kind it knows and, for
\* TCP, a port.
Finishes(draft) ==
  /\ draft.name # {} /\ draft.host # {}
  /\ draft.kind \in {{Icmp}, {Tcp}}
  /\ draft.kind = {Tcp} => draft.port # {}

Only(option) == CHOOSE value \in option : TRUE

Finished(draft) ==
  [name |-> Only(draft.name), kind |-> Only(draft.kind), host |-> Only(draft.host),
   port |-> IF draft.kind = {Tcp} THEN draft.port ELSE {},
   verified |-> draft.verified = {TRUE}, enabled |-> draft.enabled # {FALSE}]

\* The reader: settings so far, the target being read, the section, whether a
\* target was met, whether all was accepted.
StartOfFile ==
  [settings |-> DefaultSettings, current |-> <<>>, section |-> "",
   target_section_seen |-> FALSE, ok |-> TRUE]

Refused(p) == [p EXCEPT !.ok = FALSE]

\* The target being read is finished and joins the others.
TargetPushed(p) ==
  IF p.current = <<>> THEN p
  ELSE IF Finishes(p.current[1])
       THEN [p EXCEPT !.settings.targets = Append(@, Finished(p.current[1])),
                      !.current = <<>>]
       ELSE Refused(p)

NewTarget(p) ==
  LET q == IF p.target_section_seen THEN p ELSE [p EXCEPT !.settings.targets = <<>>]
  IN  [TargetPushed(q) EXCEPT !.current = <<TargetDraft>>, !.section = "targets",
                              !.target_section_seen = TRUE]

SetTarget(p, key, value) ==
  IF /\ p.current # <<>>
     /\ key \in DOMAIN TargetKeys
     /\ Reads(TargetKeys[key], value)
  THEN [p EXCEPT !.current[1][key] = {ValueOf(TargetKeys[key], value)}]
  ELSE Refused(p)

ApplyTopLevel(p, key, value) ==
  LET entries == {e \in TopLevel : e[1] = p.section /\ e[2] = key /\ Reads(e[4], value)}
  IN  IF entries = {} THEN Refused(p)
      ELSE LET entry == Only(entries)
           IN  [p EXCEPT !.settings[entry[3]] = ValueOf(entry[4], value)]

ReadLine(p, line) ==
  LET value == Uncommented(line.value)
  IN  CASE ~p.ok -> p
        [] p.ok /\ line.key = "[[targets]]" -> NewTarget(p)
        [] p.ok /\ line.key \in Headers \ {"[[targets]]"} ->
             [TargetPushed(p) EXCEPT !.section = SectionOf(line.key)]
        [] p.ok /\ line.key \notin Headers /\ p.section = "targets" ->
             SetTarget(p, line.key, value)
        [] OTHER -> ApplyTopLevel(p, line.key, value)

\* Settings::parse: [ok, settings].
Parse(lines) ==
  LET p == TargetPushed(Folded(ReadLine, StartOfFile, lines))
  IN  [settings |-> p.settings,
       ok |-> /\ p.ok
              /\ p.settings.throughput_every >= MIN_CADENCE
              /\ p.settings.ping_every >= MIN_CADENCE]

Line(key, value) == [key |-> key, value |-> value]
Header(key) == Line(key, <<>>)

TargetLines(target) ==
  <<Header("[[targets]]"), Line("name", Quoted(target.name)),
    Line("kind", Quoted(target.kind)), Line("host", Quoted(target.host)),
    Line("verified", <<Flag(target.verified)>>),
    Line("enabled", <<Flag(target.enabled)>>)>>
  \o (IF target.kind = Tcp THEN <<Line("port", <<NumeralOf(Only(target.port))>>)>> ELSE <<>>)

BudgetLines(budget) ==
  IF budget = {} THEN <<>> ELSE <<Line("daily_budget_bytes", <<NumeralOf(Only(budget))>>)>>

\* Settings::to_toml.
ToToml(settings) ==
  <<Line("throughput_every_seconds", <<NumeralOf(settings.throughput_every)>>),
    Line("ping_every_seconds", <<NumeralOf(settings.ping_every)>>)>>
  \o BudgetLines(settings.daily_budget_bytes)
  \o <<Line("raw_ping_retention_days", <<NumeralOf(settings.raw_ping_retention_days)>>),
       Header("[endpoints]"),
       Line("download_url", Quoted(settings.download_url)),
       Line("upload_url", Quoted(settings.upload_url)),
       Header("[metrics]"),
       Line("download", <<Flag(settings.download)>>),
       Line("upload", <<Flag(settings.upload)>>),
       Line("ping", <<Flag(settings.ping)>>)>>
  \o Concat([i \in DOMAIN settings.targets |-> TargetLines(settings.targets[i])])

\* What a file of settings can hold: numbers that have a numeral, cadences that
\* are not refused, URLs without the # that would cut their line, and targets
\* with a port where a probe needs one.
Written == {NumberOf[t] : t \in DOMAIN NumberOf}
IsString(text) == text \in Seq(ToSet(text))

StorableTarget(target) ==
  /\ target = [key \in DOMAIN TargetKeys |-> target[key]]
  /\ IsString(target.name) /\ IsString(target.host)
  /\ target.kind \in {Icmp, Tcp}
  /\ target.kind = Icmp => target.port = {}
  /\ target.kind = Tcp => \E n \in Written : n <= MaxPort /\ target.port = {n}
  /\ target.verified \in BOOLEAN /\ target.enabled \in BOOLEAN

Fields == {"throughput_every", "ping_every", "daily_budget_bytes",
           "raw_ping_retention_days", "download_url", "upload_url",
           "download", "upload", "ping", "targets"}

Storable(settings) ==
  /\ settings = [field \in Fields |-> settings[field]]
  /\ \A field \in {"throughput_every", "ping_every"} :
       settings[field] \in Written /\ settings[field] >= MIN_CADENCE
  /\ settings.raw_ping_retention_days \in Written
  /\ settings.daily_budget_bytes \in {{}} \cup {{n} : n \in Written}
  /\ \A field \in {"download_url", "upload_url"} :
       IsString(settings[field]) /\ Hash \notin ToSet(settings[field])
  /\ \A field \in {"download", "upload", "ping"} : settings[field] \in BOOLEAN
  /\ IsString(settings.targets)
  /\ \A target \in ToSet(settings.targets) : StorableTarget(target)

-----------------------------------------------------------------------------
(* ui-settings.toml: one line for each field, in any order *)

Themes == {"system", "light", "dark"}
UiFlags == {"autostart", "check_updates", "notify_master", "notify_ping_enabled",
            "notify_download_enabled", "notify_loss_enabled"}
UiNumbers == {"notify_ping_ms", "notify_download_mbit", "notify_loss_pct"}

ReadsUi(key, value) ==
  \/ /\ key = "theme" /\ IsText(value)
     /\ SubSeq(value, 2, Len(value) - 1) \in {<<t>> : t \in Themes}
  \/ key \in UiFlags /\ IsFlag(value)
  \/ key \in UiNumbers /\ IsNumber(value)

UiValueOf(key, value) ==
  CASE key = "theme"     -> value[2]
    [] key \in UiFlags   -> FlagOf(value)
    [] key \in UiNumbers -> NumberOf[value[1]]

ReadUiLine(p, line) ==
  LET value == Uncommented(line.value)
  IN  IF p.ok /\ ReadsUi(line.key, value)
      THEN [p EXCEPT !.ui[line.key] = UiValueOf(line.key, value)]
      ELSE [p EXCEPT !.ok = FALSE]

\* UiSettings::parse.
ParseUi(lines) == Folded(ReadUiLine, [ui |-> DefaultUi, ok |-> TRUE], lines)

\* UiSettings::to_toml.
UiKeys == <<"theme", "autostart", "check_updates", "notify_master",
            "notify_ping_enabled", "notify_ping_ms", "notify_download_enabled",
            "notify_download_mbit", "notify_loss_enabled", "notify_loss_pct">>

UiToToml(ui) ==
  [i \in DOMAIN UiKeys |->
    LET key == UiKeys[i]
    IN  Line(key, CASE key = "theme"     -> <<Quote, ui.theme, Quote>>
                    [] key \in UiFlags   -> <<Flag(ui[key])>>
                    [] key \in UiNumbers -> <<NumeralOf(ui[key])>>)]

StorableUi(ui) ==
  /\ ui = [field \in ToSet(UiKeys) |-> ui[field]]
  /\ ui.theme \in Themes
  /\ \A field \in UiFlags : ui[field] \in BOOLEAN
  /\ \A field \in UiNumbers : ui[field] \in Written

\* The compiled settings can be written; they have no budget, and whole minutes
\* between throughput rounds.
ASSUME DefaultsAssumption ==
  /\ Storable(DefaultSettings) /\ StorableUi(DefaultUi)
  /\ DefaultSettings.daily_budget_bytes = {}
  /\ \E minutes \in Written : minutes * 60 = DefaultSettings.throughput_every
=============================================================================
