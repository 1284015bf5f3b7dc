-------------------------- MODULE MC_SettingsScreen --------------------------
(***************************************************************************)
(* Instances of SettingsScreen for TLC: one preset of each kind, names     *)
(* with the characters the format treats specially.  Bytes are counted in  *)
(* millions.                                                               *)
(***************************************************************************)
EXTENDS SettingsScreen, TLC

MCNumberOf == [t \in {"0", "1", "2", "30", "60", "80", "120", "300", "443", "1200",
                      "1250", "3600", "5000", "70000"} |->
  CASE t = "0" -> 0 [] t = "1" -> 1 [] t = "2" -> 2 [] t = "30" -> 30 [] t = "60" -> 60
    [] t = "80" -> 80 [] t = "120" -> 120 [] t = "300" -> 300 [] t = "443" -> 443
    [] t = "1200" -> 1200 [] t = "1250" -> 1250
    [] t = "3600" -> 3600 [] t = "5000" -> 5000
    [] t = "70000" -> 70000]

a == <<"a">>
Tricky == <<Backslash, Quote>>
Hashed == <<"a", Hash, "b">>

MCNames == {a, Tricky}
MCNamesHash == {a, Hashed}
MCHosts == {<<"h">>}
MCPortTexts == {"80", "x"}
MCIntervalTexts == {"2", "x"}

\* NaN is not below or equal to zero, and becomes no bytes.
MCGbOf == [t \in {"5.0", "1.2", "1.25", "NaN", "0.0"} |->
  CASE t = "5.0"  -> [positive |-> TRUE, bytes |-> 5000]
    [] t = "1.2"  -> [positive |-> TRUE, bytes |-> 1200]
    [] t = "1.25" -> [positive |-> TRUE, bytes |-> 1250]
    [] t = "NaN"  -> [positive |-> TRUE, bytes |-> 0]
    [] t = "0.0"  -> [positive |-> FALSE, bytes |-> 0]]
MCGbTexts == {"1.25", "NaN", "x"}
MCGbTextOf == [n \in {0, 1200, 1250, 5000} |->
  CASE n = 0 -> "0.0" [] n \in {1200, 1250} -> "1.2" [] n = 5000 -> "5.0"]

MCUiChanges == {<<"theme", "light">>, <<"notify_ping_ms", 80>>}

Preset(kind, port) ==
  [name |-> a, kind |-> kind, host |-> <<"h">>, port |-> port,
   verified |-> FALSE, enabled |-> TRUE]

MCDefaultSettings ==
  [throughput_every |-> 3600, ping_every |-> 300, daily_budget_bytes |-> {},
   raw_ping_retention_days |-> 30, download_url |-> <<"d">>, upload_url |-> <<"u">>,
   download |-> TRUE, upload |-> TRUE, ping |-> TRUE,
   targets |-> <<Preset(Icmp, {}), Preset(Tcp, {443})>>]

MCDefaultUi ==
  [theme |-> "system", autostart |-> FALSE, check_updates |-> FALSE,
   notify_master |-> FALSE, notify_ping_enabled |-> FALSE, notify_ping_ms |-> 120,
   notify_download_enabled |-> FALSE, notify_download_mbit |-> 2,
   notify_loss_enabled |-> FALSE, notify_loss_pct |-> 1]
=============================================================================
