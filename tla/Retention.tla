----------------------------- MODULE Retention -----------------------------
(***************************************************************************)
(* Which archives of one app and schedule a retention count lets go        *)
(* (backup/retention.py, select_prunable).  An archive is identified by    *)
(* the date in its name; the code sorts the dates newest first and returns *)
(* everything after the first `keep`.                                      *)
(***************************************************************************)
EXTENDS Naturals, Integers, FiniteSets

\* The dates of `dates` that sort before d.
NewerThan(d, dates) == {e \in dates : e > d}

\* A plausible bug, for mutation: one archive too few is kept.
PrunesOneTooMany(dates, keep) ==
    {d \in dates : Cardinality(NewerThan(d, dates)) + 1 >= keep}

SelectPrunable(dates, keep) ==
    LET k == IF keep < 0 THEN 0 ELSE keep
    IN  {d \in dates : Cardinality(NewerThan(d, dates)) >= k}
=============================================================================
