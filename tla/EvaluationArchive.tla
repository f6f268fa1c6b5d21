-------------------------- MODULE EvaluationArchive --------------------------
(***************************************************************************)
(* What an EvaluationStore promises, whatever it keeps its rows in         *)
(* (kuhaku/evaluation/store.py): a row added under a run id belongs to     *)
(* that run for as long as the store lives, and the summary of a run is    *)
(* the mean of each metric over the run's rows that have it.               *)
(***************************************************************************)
EXTENDS Integers, FiniteSets, Sequences, SequencesExt

CONSTANTS RunIds    \* ids of evaluation runs

VARIABLES
    archive,    \* the rows of each run, oldest first; a row gives each
                \*   metric that applied to a question its score
    reported,   \* for each run, the summary given last
    durable     \* whether the store outlives its process

Totals(rows, metric) ==
    LET scored == {n \in DOMAIN rows : metric \in DOMAIN rows[n]}
        sum[n \in 0..Len(rows)] ==
            IF n = 0 THEN 0 ELSE sum[n - 1] + (IF n \in scored THEN rows[n][metric] ELSE 0)
    IN  [sum |-> sum[Len(rows)], count |-> Cardinality(scored)]

\* A metric no row has is not in the summary.
Mean(rows) ==
    [metric \in UNION {DOMAIN rows[n] : n \in DOMAIN rows} |-> Totals(rows, metric)]

Init ==
    /\ archive = [i \in RunIds |-> << >>]
    /\ reported = [i \in RunIds |-> Mean(<< >>)]
    /\ durable \in BOOLEAN

\* One more row of a run, whatever it scored.
Add(i) ==
    /\ Len(archive'[i]) = Len(archive[i]) + 1
    /\ \A k \in RunIds \ {i} : archive'[k] = archive[k]
    /\ Front(archive'[i]) = archive[i]
    /\ UNCHANGED <<reported, durable>>

Report(i) ==
    /\ reported' = [reported EXCEPT ![i] = Mean(archive[i])]
    /\ UNCHANGED <<archive, durable>>

\* A store that does not outlive its process ends with it; a durable one
\* loses no row.
Lose ==
    /\ ~durable
    /\ archive' = [i \in RunIds |-> << >>]
    /\ UNCHANGED <<reported, durable>>

Next == Lose \/ \E i \in RunIds : Add(i) \/ Report(i)

Spec == Init /\ [][Next]_<<archive, reported, durable>>
=============================================================================
