----------------------------- MODULE Configuration -----------------------------
(***************************************************************************)
(* internal/config/config.go: the defaults and the checks Load applies to  *)
(* a configuration file, and the configuration of a daemon without one.    *)
(*                                                                         *)
(* A field that is missing in the file is 0 or Empty.  Rates and hours are *)
(* in hundredths, weights in tenths.                                       *)
(***************************************************************************)
EXTENDS Integers, Sequences

Empty == ""

(* The number fields below the top level, which are all treated alike.     *)
Standard ==
  [read_timeout |-> 30, write_timeout |-> 30,
   keep_versions |-> 2, enforcement_interval |-> 100,
   recovery_interval |-> 5, recovery_rate |-> 5,
   max_retries |-> 3, download_timeout |-> 30]

Least ==
  [read_timeout |-> 1, write_timeout |-> 1,
   keep_versions |-> 1, enforcement_interval |-> 10,
   recovery_interval |-> 1, recovery_rate |-> 1,
   max_retries |-> 1, download_timeout |-> 1]

Default ==
  [concurrency |-> 8, storage_path |-> "/var/lib/trinity-cache",
   log_level |-> "info", mirrors |-> <<>>, number |-> Standard]

Or(given, standard) == IF given = 0 THEN standard ELSE given

(* Mutation: a mirror keeps the timeout it was given, also none.           *)
MirrorWithWeight(m) == [m EXCEPT !.weight = Or(@, 10)]

MirrorWithDefaults(m) ==
  [url |-> m.url, weight |-> Or(m.weight, 10), timeout |-> Or(m.timeout, 30)]

NumbersWithDefaults(n) == [f \in DOMAIN Standard |-> Or(n[f], Standard[f])]

WithDefaults(c) ==
  [concurrency |-> Or(c.concurrency, Default.concurrency),
   storage_path |-> IF c.storage_path = Empty THEN Default.storage_path
                    ELSE c.storage_path,
   log_level |-> IF c.log_level = Empty THEN Default.log_level ELSE c.log_level,
   mirrors |-> [i \in DOMAIN c.mirrors |-> MirrorWithDefaults(c.mirrors[i])],
   number |-> NumbersWithDefaults(c.number)]

(* Zero passes for every number but concurrency and weight: Validate       *)
(* relies on the defaults to have replaced it.                             *)
Validate(c) ==
  /\ c.concurrency >= 1 /\ c.concurrency <= 10000
  /\ c.storage_path # Empty
  /\ c.mirrors # <<>>
  /\ \A i \in DOMAIN c.mirrors :
       /\ c.mirrors[i].url # Empty
       /\ c.mirrors[i].weight > 0
       /\ c.mirrors[i].timeout >= 0
  /\ c.log_level \in {Empty, "debug", "info", "warn", "error"}
  /\ \A f \in DOMAIN Standard : c.number[f] >= Least[f] \/ c.number[f] = 0
  /\ c.number.recovery_rate <= 100

-----------------------------------------------------------------------------
(* The ranges of CONFIG.md, none of which includes zero.                   *)
InRange(c) ==
  /\ c.concurrency >= 1 /\ c.concurrency <= 10000
  /\ c.storage_path # Empty
  /\ c.log_level \in {"debug", "info", "warn", "error"}
  /\ \A i \in DOMAIN c.mirrors :
       /\ c.mirrors[i].url # Empty /\ c.mirrors[i].weight > 0
       /\ c.mirrors[i].timeout >= 1
  /\ \A f \in DOMAIN Standard : c.number[f] >= Least[f]
  /\ c.number.recovery_rate <= 100
=============================================================================
