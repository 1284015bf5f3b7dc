---------------------------- MODULE UpdateCheck ----------------------------
(***************************************************************************)
(* The opt-in update check of the app: the consent in Settings, the three  *)
(* ways to ask GitHub (start, About opening, Check now), and the answers,  *)
(* which arrive whenever they arrive: consent may have been withdrawn, and *)
(* given again, while a request was on its way.                            *)
(***************************************************************************)
EXTENDS Naturals, Sequences

CONSTANTS
  NoRelease,  \* no release, no result, a release without a tag
  Current,    \* the version of the running program, a Tag
  Tags,       \* the tags GitHub may answer with
  MaxChecks   \* bound: the requests on their way at once

\* A tag as parse_version splits it: the numbers between its dots, <<>> where
\* a part is not a number, and whether a pre-release suffix follows.
Tag == [core: Seq(Nat), prerelease: BOOLEAN]

ASSUME UpdateConstants ==
  /\ Current \in Tag
  /\ Tags \subseteq Tag
  /\ NoRelease \notin Tags
  /\ MaxChecks \in Nat \ {0}

Parses(tag) == Len(tag.core) = 3

\* The order of Core tuples: the first part that differs decides.
Exceeds(a, b) ==
  \E i \in 1..3 : a[i] > b[i] /\ \A j \in 1..(i - 1) : a[j] = b[j]

is_newer(current, tag) ==
  /\ Parses(current)
  /\ Parses(tag)
  /\ ~tag.prerelease
  /\ Exceeds(tag.core, current.core)

Outcomes == {"none", "available", "latest", "failed"}

VARIABLES
  check_updates,       \* the consent
  about_open,          \* the About section is expanded
  update_checking,     \* the app believes a request is on its way
  checks,              \* the requests that are on their way
  available_update,    \* the release offered to the user, or NoRelease
  last_update_result   \* what the last check of the session ended with

updateVars == <<check_updates, about_open, update_checking, checks,
                available_update, last_update_result>>

wants_update_check == check_updates

\* The gate every way to ask goes through.
request_update_check ==
  IF ~wants_update_check \/ update_checking
    THEN UNCHANGED <<update_checking, checks>>
    ELSE update_checking' = TRUE /\ checks' = checks + 1

\* The consent comes from ui-settings.toml; boot asks once.
InitUpdate ==
  /\ check_updates \in BOOLEAN
  /\ about_open = FALSE
  /\ update_checking = wants_update_check
  /\ checks = IF wants_update_check THEN 1 ELSE 0
  /\ available_update = NoRelease
  /\ last_update_result = "none"

\* SettingField::CheckUpdates: the checkbox sends nothing.  Withdrawing the
\* consent takes the offer away and stops waiting for the request, which
\* stays on its way.
CheckUpdates(value) ==
  /\ check_updates' = value
  /\ available_update' = IF value THEN available_update ELSE NoRelease
  /\ update_checking' = (value /\ update_checking)
  /\ UNCHANGED <<about_open, checks, last_update_result>>

AboutToggled ==
  /\ checks < MaxChecks
  /\ about_open' = ~about_open
  /\ IF about_open' THEN request_update_check ELSE UNCHANGED <<update_checking, checks>>
  /\ UNCHANGED <<check_updates, available_update, last_update_result>>

\* The button is there in the open section, live while a check may start.
CheckUpdatesNow ==
  /\ about_open /\ check_updates /\ ~update_checking
  /\ checks < MaxChecks
  /\ request_update_check
  /\ UNCHANGED <<check_updates, about_open, available_update, last_update_result>>

\* Mutant: an answer is applied whatever became of the consent.
finish_update_check_ungated(outcome, release) ==
  /\ update_checking' = FALSE
  /\ last_update_result' = outcome
  /\ available_update' = IF outcome = "failed" THEN available_update ELSE release
  /\ UNCHANGED <<check_updates, about_open>>

\* Mutant: a failure leaves the wait of the app as it is.
finish_update_check_waiting(outcome, release) ==
  /\ update_checking' = (update_checking /\ outcome = "failed")
  /\ last_update_result' = IF check_updates THEN outcome ELSE last_update_result
  /\ available_update' = IF check_updates /\ outcome # "failed" THEN release ELSE available_update
  /\ UNCHANGED <<check_updates, about_open>>

\* The answer to any request on its way.  Without consent it changes nothing
\* but the wait; a failure keeps the offer of an earlier check.
finish_update_check(outcome, release) ==
  /\ update_checking' = FALSE
  /\ last_update_result' = IF wants_update_check THEN outcome ELSE last_update_result
  /\ available_update' =
       IF wants_update_check /\ outcome # "failed" THEN release ELSE available_update
  /\ UNCHANGED <<check_updates, about_open>>

\* What check makes of the response: a release without a usable tag, or one
\* that is not newer, is no release.
Released(tag) ==
  IF tag # NoRelease /\ is_newer(Current, tag) THEN tag ELSE NoRelease

UpdateChecked ==
  /\ checks > 0
  /\ checks' = checks - 1
  /\ \E tag \in Tags \cup {NoRelease} :
       finish_update_check(IF Released(tag) = NoRelease THEN "latest" ELSE "available", Released(tag))

\* Offline, a status other than 200, a body that is not JSON, or ten seconds
\* without an answer.
UpdateCheckFailed ==
  /\ checks > 0
  /\ checks' = checks - 1
  /\ finish_update_check("failed", NoRelease)

Answer == UpdateChecked \/ UpdateCheckFailed

NextUpdate ==
  \/ \E value \in BOOLEAN : CheckUpdates(value)
  \/ AboutToggled
  \/ CheckUpdatesNow
  \/ Answer

\* A request ends within its timeout of ten seconds.
SpecUpdate == InitUpdate /\ [][NextUpdate]_updateVars /\ WF_updateVars(Answer)

\* The line of the About section.
update_status ==
  CASE ~check_updates  -> "off"
    [] update_checking -> "checking"
    [] OTHER           -> last_update_result

UpdateTypeOK ==
  /\ check_updates \in BOOLEAN /\ about_open \in BOOLEAN /\ update_checking \in BOOLEAN
  /\ checks \in 0..MaxChecks
  /\ available_update \in Tags \cup {NoRelease}
  /\ last_update_result \in Outcomes

\* Without consent nothing is offered and nothing is waited for, also when a
\* request was on its way as the consent was withdrawn; what is offered is a
\* finished version above the running one, counted as one number.
Number(core) == core[1] * 10000 + core[2] * 100 + core[3]

OffersAreConsented ==
  /\ ~check_updates => available_update = NoRelease /\ ~update_checking
  /\ available_update # NoRelease =>
       /\ Parses(available_update) /\ ~available_update.prerelease
       /\ Number(available_update.core) > Number(Current.core)

\* The app waits only for requests that are on their way.  (The converse does
\* not hold: consent withdrawn and given again forgets the one that was sent.)
WaitsForARequest == update_checking => checks > 0

\* "Checking GitHub..." does not stay, whatever is done with the consent.
CheckingEnds == update_checking ~> ~update_checking
=============================================================================
