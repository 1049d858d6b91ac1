------------------------------ MODULE AlarmLog ------------------------------
(***************************************************************************)
(* What the alarms table promises to whoever reads it (the history page of *)
(* the web server, the report), without the collector behind it: a log of  *)
(* occurrences, each known by its item and its first second (the primary   *)
(* key, src/mtconnect_collect/src/db/stats_db.cpp 16-25).  An occurrence   *)
(* is open, is seen again, ends once, and then stays as it is until its    *)
(* retention is over.                                                      *)
(*                                                                         *)
(* Whatever the collector does in between (failed statements, transactions *)
(* left open, crashes) a reader sees whole commits only; StatsAlarms       *)
(* implements this module by what is in the file.                          *)
(***************************************************************************)
EXTENDS Integers

CONSTANTS
    Retention  \* how long a closed occurrence is kept

VARIABLES
    now,  \* the time
    log   \* records [item, first, last, end, active]

Same(r, s) == r.item = s.item /\ r.first = s.first

\* s is a later state of the open occurrence r: seen again, or ended.
Continues(r, s) ==
    /\ Same(r, s)
    /\ r.active
    /\ r.last <= s.last
    /\ ~s.active => s.end = s.last

\* An occurrence no reader is promised any longer.
Expired(r, t) == r.last < t - Retention

Init == now \in Nat /\ log = {}

\* A commit: any number of occurrences begin, are seen again, end, or expire.
Commit ==
    /\ now' \in Nat /\ now' >= now
    /\ \A r \in log :
          \/ r \in log'
          \/ \E s \in log' : Continues(r, s)
          \/ Expired(r, now')
    /\ \A s \in log' \ log :
          /\ s.last <= now'
          /\ \A r \in log : Same(r, s) => Continues(r, s)
    /\ \A r, s \in log' : Same(r, s) => r = s

Next == Commit

Spec == Init /\ [][Next]_<<now, log>>

=============================================================================
