--------------------------- MODULE Configuration ---------------------------
(***************************************************************************)
(* ConfigurationManager: what hallfix makes of config.toml, which every    *)
(* command loads before anything else. Thresholds are in whole percent.    *)
(***************************************************************************)
EXTENDS Integers

Threshold == {"warning", "high", "critical"}
DefaultThreshold == [k \in Threshold |->
  CASE k = "warning" -> 70 [] k = "high" -> 85 [] k = "critical" -> 95]

\* The value of a threshold in the file: a number, or something else.
Number(n) == [number |-> TRUE, value |-> n]
NotANumber == [number |-> FALSE, value |-> 0]

\* The file is a table (its keys, of which it need not have any), or it is
\* absent, unreadable, no TOML ("broken"), or not even text ("undecodable").
\* Other keys are ignored and color, verbose and preferred_editor are not
\* looked at; thresholds are the keys of [disk_thresholds].
File(thresholds, language, format) ==
  [kind |-> "table", tableOfThresholds |-> TRUE, thresholds |-> thresholds,
   language |-> language, format |-> format]

Rejected == [kind |-> "ConfigurationError"]     \* exit 2
Uncaught == [kind |-> "UnicodeDecodeError"]     \* a traceback, exit 1
Config(thresholds, language, format) ==
  [kind |-> "config", thresholds |-> thresholds, language |-> language, format |-> format]

Given(key, default) == IF key = "unset" THEN default ELSE key

\* The keyword arguments of DiskThresholds: its defaults where the table is silent.
MergedThresholds(thresholds) ==
  [k \in Threshold |-> IF k \in DOMAIN thresholds THEN thresholds[k].value ELSE DefaultThreshold[k]]

\* Names with an underscore are plausible mistakes in the definition that
\* follows them; they show that a property can fail and are used nowhere.

Ordered_UpToHigh(t) ==
  0 <= t["warning"] /\ t["warning"] < t["high"] /\ t["critical"] <= 100

\* DiskThresholds.__post_init__; comparing a text with a number is a TypeError.
Ordered(t) ==
  /\ 0 <= t["warning"] /\ t["warning"] < t["high"]
  /\ t["high"] < t["critical"] /\ t["critical"] <= 100

BuildConfig(file) ==
  LET merged == MergedThresholds(file.thresholds)
      language == Given(file.language, "en")
      format == Given(file.format, "txt")
  IN IF /\ file.tableOfThresholds
        /\ \A k \in DOMAIN file.thresholds : file.thresholds[k].number
        /\ Ordered(merged)
        /\ language \in {"en", "fr"} /\ format \in {"txt", "json", "html"}
     THEN Config(merged, language, format)
     ELSE Rejected

LoadConfig(file) ==
  CASE file.kind = "absent" -> Config(DefaultThreshold, "en", "txt")
    [] file.kind \in {"unreadable", "broken"} -> Rejected
    [] file.kind = "undecodable" -> Uncaught
    [] file.kind = "table" -> BuildConfig(file)
=============================================================================
