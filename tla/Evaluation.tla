----------------------------- MODULE Evaluation -----------------------------
(***************************************************************************)
(* Evaluation runs (kuhaku/evaluation): each runner takes a golden dataset *)
(* through its target, scores every question and stores a row per question *)
(* under its run id, then returns the summary of that id.  Runners of one  *)
(* process share the metric objects -- and so the judge of a               *)
(* FaithfulnessMetric -- and a store, in memory or in SQLite, where each   *)
(* has a connection of its own.  The process may crash and start again.    *)
(*                                                                         *)
(* The metrics are the five of retrieval, which score every sample, and    *)
(* faithfulness, which skips what it cannot judge.  Any metric may fail on *)
(* a question: the judge behind faithfulness, or one of a subclass.        *)
(***************************************************************************)
EXTENDS RetrievalMetrics, SequencesExt, Functions

CONSTANTS
    Runners,
    RunIds, RunId,      \* the run id each runner stores under
    Judges, NoJudge,
    RunnerJudge,        \* the judge each runner was given or made, or none
    Docs, Expected,     \* the golden documents, question by question
    K,                  \* the k of the metrics, which knows no top_k
    Samples, NoLabels,  \* what the targets may come back with
    Raising,            \* sets of metrics that may fail on one question
    NoRow,
    MaxRuns,            \* bound: calls of run()
    MaxCrashes          \* bound: crashes of the process

MetricNames == {"recall_at_k", "precision_at_k", "mrr", "ndcg_at_k", "hit_rate_at_k", "faithfulness"}

\* A sample is what a target came back with: ids as many as it likes, and the
\* relevant ones if it labels them itself.  A target that raises is a bare
\* sample; a failing answer generator leaves it without an answer, ids that
\* cannot be extracted leave it without ids.
BareSample == [ids |-> << >>, answered |-> FALSE, relevant |-> NoLabels]

ASSUME EvaluationAssumption ==
    /\ RunId \in [Runners -> RunIds] /\ NoJudge \notin Judges
    /\ RunnerJudge \in [Runners -> Judges \cup {NoJudge}]
    /\ K \in 1..Len(Gain) /\ Expected \in Seq(SUBSET Docs) /\ IsFiniteSet(Docs)
    /\ \A sample \in Samples : /\ sample.ids \in Seq(Docs) /\ sample.answered \in BOOLEAN
                               /\ sample.relevant \in (SUBSET Docs) \cup {NoLabels}
    /\ BareSample \in Samples /\ Raising \subseteq SUBSET MetricNames

VARIABLES
    kind,       \* the kind of store: "memory" or "sqlite"
    memory,     \* InMemoryEvaluationStore: its rows and run ids; history:
                \*   whether one add_result began during another
    table,      \* SqliteEvaluationStore: the committed rows of eval_runs
    pending,    \* the runner whose insert is not committed yet, or none
    metric,     \* the shared FaithfulnessMetric: its judge; history: the one
                \*   it was constructed with, whether a runner replaced one
                \*   that another had filled in
    run,        \* each runner: its stage, question, row to be added and the
                \*   summary returned; history: what each question of this
                \*   run scored, the judges that were asked, whether it is
                \*   not the only one of its id
    runs, crashes,  \* counts, for the bounds
    reported    \* history: the summary given last for each run id

stores == <<memory, table, pending>>
vars == <<kind, stores, metric, run, runs, crashes, reported>>

Nobody == {}
NoSummary == [m \in {} |-> 0]
EmptyMemory == [results |-> << >>, runIds |-> << >>, crossed |-> FALSE]
Idle == [pc |-> "idle", at |-> 1, row |-> NoRow, returned |-> NoSummary,
         scores |-> << >>, judges |-> {}, shared |-> FALSE]

Init ==
    /\ kind \in {"memory", "sqlite"}
    /\ memory = EmptyMemory /\ table = << >> /\ pending = Nobody
    /\ metric \in {[judge |-> j, given |-> j, rewired |-> FALSE] : j \in Judges \cup {NoJudge}}
    /\ run = [r \in Runners |-> Idle]
    /\ runs = 0 /\ crashes = 0
    /\ reported = [i \in RunIds |-> NoSummary]

----------------------------------------------------------------------------
Stored == IF kind = "memory" THEN memory.results ELSE table

\* The metrics of the rows of one run, oldest first.
Selected(rows, i) ==
    LET upTo[n \in 0..Len(rows)] ==
            IF n = 0 THEN << >>
            ELSE IF rows[n].run = i THEN Append(upTo[n - 1], rows[n].metrics)
            ELSE upTo[n - 1]
    IN  upTo[Len(rows)]

\* The rows a summary selects.
RowsOfRun(i) == Selected(Stored, i)

\* Totals and counts, row by row and metric by metric.
Count(r, so) ==
    [m \in DOMAIN so \cup DOMAIN r |->
        IF m \notin DOMAIN r THEN so[m]
        ELSE IF m \notin DOMAIN so THEN [sum |-> r[m], count |-> 1]
        ELSE [sum |-> so[m].sum + r[m], count |-> so[m].count + 1]]

AverageMetrics(rows) ==
    LET upTo[n \in 0..Len(rows)] ==
            IF n = 0 THEN NoSummary ELSE Count(rows[n], upTo[n - 1])
    IN  upTo[Len(rows)]

\* Mutant: the first run seen stands for the latest.
FirstInMemory == Head(memory.runIds)

\* Without a run id: the run that came last, by its first row in memory, by
\* its last row in SQLite.
LatestInMemory == Last(memory.runIds)

LatestInTable(rows) == Last(rows).run

----------------------------------------------------------------------------
(***************************************************************************)
(* run(): wire the judge -- the check and the assignment are two steps --, *)
(* load the dataset, then question by question.                            *)
(***************************************************************************)
Sharing(i) == {q \in Runners : RunId[q] = i /\ run[q].pc # "idle"}

Starting(r, missing) ==
    LET shared == RowsOfRun(RunId[r]) # << >> \/ Sharing(RunId[r]) # {}
    IN  [q \in Runners |->
           IF q = r THEN [Idle EXCEPT !.pc = IF missing THEN "wire" ELSE "load",
                                      !.shared = shared]
           ELSE IF q \in Sharing(RunId[r]) THEN [run[q] EXCEPT !.shared = TRUE]
           ELSE run[q]]

\* Mutant: the runner's judge replaces any other.
BeginRewiring(r) ==
    /\ run[r].pc = "idle" /\ runs < MaxRuns /\ runs' = runs + 1
    /\ run' = Starting(r, RunnerJudge[r] # NoJudge)
    /\ UNCHANGED <<kind, stores, metric, crashes, reported>>

Begin(r) ==
    /\ run[r].pc = "idle" /\ runs < MaxRuns /\ runs' = runs + 1
    /\ run' = Starting(r, RunnerJudge[r] # NoJudge /\ metric.judge = NoJudge)
    /\ UNCHANGED <<kind, stores, metric, crashes, reported>>

\* A step of one runner within its run.
Step(r, from, next) ==
    /\ run[r].pc = from /\ run' = [run EXCEPT ![r] = next]
    /\ UNCHANGED <<kind, runs, crashes>>

WireJudge(r) ==
    /\ Step(r, "wire", [run[r] EXCEPT !.pc = "load"])
    /\ metric' = [metric EXCEPT !.judge = RunnerJudge[r],
                                !.rewired = @ \/ metric.judge # NoJudge]
    /\ UNCHANGED <<stores, reported>>

\* A malformed dataset raises before anything is stored, an empty one has
\* nothing to ask.
LoadDataset(r, wellFormed) ==
    /\ Step(r, "load", [run[r] EXCEPT !.pc = IF ~wellFormed THEN "idle"
                                            ELSE IF Expected = << >> THEN "sum" ELSE "ask"])
    /\ UNCHANGED <<stores, metric, reported>>

\* FaithfulnessMetric skips a sample without an answer, or without a judge.
Judging(sample) == metric.judge # NoJudge /\ sample.answered

Scores(sample, expected) ==
    [m \in {"recall_at_k", "precision_at_k", "mrr", "ndcg_at_k", "hit_rate_at_k"}
            \cup (IF Judging(sample) THEN {"faithfulness"} ELSE {}) |->
        CASE m = "recall_at_k"    -> RecallAtK(sample.ids, expected, K)
          [] m = "precision_at_k" -> PrecisionAtK(sample.ids, expected, K)
          [] m = "mrr"            -> MRR(sample.ids, expected)
          [] m = "ndcg_at_k"      -> NDCGAtK(sample.ids, expected, K)
          [] m = "hit_rate_at_k"  -> HitRateAtK(sample.ids, expected, K)
          [] m = "faithfulness"   -> One]

\* The labels of a target win over the golden ones.
Relevant(r, sample) ==
    IF sample.relevant # NoLabels THEN sample.relevant ELSE Expected[run[r].at]

Scored(r, scores, raised) ==
    [run[r] EXCEPT !.pc = "add",
                   !.row = [run |-> RunId[r], metrics |-> Restrict(scores, DOMAIN scores \ raised)],
                   !.scores = Append(@, Restrict(scores, DOMAIN scores \ raised)),
                   !.judges = @ \cup (IF "faithfulness" \in DOMAIN scores THEN {metric.judge} ELSE {})]

NextQuestion(r) ==
    [run[r] EXCEPT !.row = NoRow, !.at = @ + 1,
                   !.pc = IF run[r].at < Len(Expected) THEN "ask" ELSE "sum"]

\* Mutant: a question whose target failed is left out of the run.
EvaluateAnsweredOnly(r, sample, raised) ==
    /\ Step(r, "ask", IF sample = BareSample THEN NextQuestion(r)
                      ELSE Scored(r, Scores(sample, Relevant(r, sample)), raised))
    /\ UNCHANGED <<stores, metric, reported>>

\* The target answers, or fails and leaves a bare sample; every metric scores
\* it but those that raise.
Evaluate(r, sample, raised) ==
    /\ Step(r, "ask", Scored(r, Scores(sample, Relevant(r, sample)), raised))
    /\ UNCHANGED <<stores, metric, reported>>

----------------------------------------------------------------------------
(***************************************************************************)
(* add_result.  In memory, without a lock: a look at the run ids, the run  *)
(* id if it is new, the row.  In SQLite an insert, for which another       *)
(* connection's write must have been committed, and a commit.              *)
(***************************************************************************)
Adders == {q \in Runners : run[q].pc \in {"note", "append"}}

LookForRunId(r) ==
    /\ kind = "memory"
    /\ Step(r, "add", [run[r] EXCEPT !.pc = IF Contains(memory.runIds, RunId[r]) THEN "append"
                                             ELSE "note"])
    /\ memory' = [memory EXCEPT !.crossed = @ \/ Adders # {}]
    /\ UNCHANGED <<table, pending, metric, reported>>

NoteRunId(r) ==
    /\ Step(r, "note", [run[r] EXCEPT !.pc = "append"])
    /\ memory' = [memory EXCEPT !.runIds = Append(@, RunId[r])]
    /\ UNCHANGED <<table, pending, metric, reported>>

AppendResult(r) ==
    /\ Step(r, "append", NextQuestion(r))
    /\ memory' = [memory EXCEPT !.results = Append(@, run[r].row)]
    /\ UNCHANGED <<table, pending, metric, reported>>

Insert(r) ==
    /\ kind = "sqlite" /\ pending = Nobody /\ pending' = {r}
    /\ Step(r, "add", [run[r] EXCEPT !.pc = "commit"])
    /\ UNCHANGED <<memory, table, metric, reported>>

Commit(r) ==
    /\ Step(r, "commit", NextQuestion(r))
    /\ table' = Append(table, run[r].row) /\ pending' = Nobody
    /\ UNCHANGED <<memory, metric, reported>>

\* "database is locked": run() raises, its committed rows stay.
InsertFails(r) ==
    /\ kind = "sqlite" /\ pending # Nobody
    /\ Step(r, "add", Idle)
    /\ UNCHANGED <<stores, metric, reported>>

Summarize(r) ==
    LET summary == AverageMetrics(RowsOfRun(RunId[r]))
    IN  /\ Step(r, "sum", [run[r] EXCEPT !.pc = "idle", !.returned = summary])
        /\ reported' = [reported EXCEPT ![RunId[r]] = summary]
        /\ UNCHANGED <<stores, metric>>

\* Mutant: the table is made anew at every start.
CrashAndCreateTable ==
    /\ crashes < MaxCrashes /\ crashes' = crashes + 1
    /\ memory' = EmptyMemory /\ pending' = Nobody /\ table' = << >>
    /\ metric' = [metric EXCEPT !.judge = metric.given, !.rewired = FALSE]
    /\ run' = [r \in Runners |-> Idle]
    /\ UNCHANGED <<kind, runs, reported>>

\* The process dies and starts again, with the table it finds: what is not
\* committed is gone.
Crash ==
    /\ crashes < MaxCrashes /\ crashes' = crashes + 1
    /\ memory' = EmptyMemory /\ pending' = Nobody
    /\ metric' = [metric EXCEPT !.judge = metric.given, !.rewired = FALSE]
    /\ run' = [r \in Runners |-> Idle]
    /\ UNCHANGED <<kind, table, runs, reported>>

Next ==
    \/ Crash
    \/ \E r \in Runners :
          \/ Begin(r) \/ WireJudge(r) \/ LoadDataset(r, TRUE) \/ LoadDataset(r, FALSE)
          \/ run[r].pc = "ask" /\ \E sample \in Samples, raised \in Raising :
                                   Evaluate(r, sample, raised)
          \/ LookForRunId(r) \/ NoteRunId(r) \/ AppendResult(r)
          \/ Insert(r) \/ Commit(r) \/ InsertFails(r) \/ Summarize(r)

Spec == Init /\ [][Next]_vars

----------------------------------------------------------------------------
\* What a question scored, the rows a store keeps, what a summary gives.
Metrics == UNION {[M -> Int] : M \in SUBSET MetricNames}
Rows == [run : RunIds, metrics : Metrics]
Summaries == UNION {[M -> [sum : Int, count : Nat]] : M \in SUBSET MetricNames}

Runs == [pc : {"idle", "wire", "load", "ask", "add", "note", "append", "commit", "sum"},
         at : Nat \ {0}, row : Rows \cup {NoRow}, returned : Summaries, scores : Seq(Metrics),
         judges : SUBSET Judges, shared : BOOLEAN]

\* The types of the stores, the shared metric and the runners.
TypeOK ==
    /\ kind \in {"memory", "sqlite"}
    /\ memory \in [results : Seq(Rows), runIds : Seq(RunIds), crossed : BOOLEAN]
    /\ table \in Seq(Rows) /\ pending \in SUBSET Runners
    /\ metric \in [judge : Judges \cup {NoJudge}, given : Judges \cup {NoJudge},
                    rewired : BOOLEAN]
    /\ run \in [Runners -> Runs]
    /\ runs \in Nat /\ crashes \in Nat
    /\ reported \in [RunIds -> Summaries]

----------------------------------------------------------------------------
(***************************************************************************)
(* Both stores do what an EvaluationStore promises, whatever runs share    *)
(* them: rows belong to the run they were added under, and the summary of  *)
(* a run is the mean over exactly its rows.  The SQLite store is durable:  *)
(* a crash loses what is in memory and nothing that is committed.          *)
(***************************************************************************)
Archive == INSTANCE EvaluationArchive WITH archive <- [i \in RunIds |-> Selected(Stored, i)],
                                           durable <- (kind = "sqlite")

KeepsAnArchive == Archive!Spec

(***************************************************************************)
(* "run() returns the mean of each metric across the dataset", a failed    *)
(* target counting as an empty sample: a run that is the only one of its   *)
(* run id scored every question of the dataset, and returns the mean of    *)
(* what they scored -- none left out, none twice, none of another run.  (A *)
(* runner that runs twice, or again after a crash, shares its id with      *)
(* itself.)                                                                *)
(***************************************************************************)
MeanIsAcrossTheDataset ==
    \A r \in Runners :
        run[r].returned # NoSummary /\ ~run[r].shared =>
            /\ Len(run[r].scores) = Len(Expected)
            /\ run[r].returned = Archive!Mean(run[r].scores)

(***************************************************************************)
(* A metric constructed with a judge keeps it, and the scores of one run   *)
(* come from one judge -- unless two runners filled in the same missing    *)
(* judge at the same time (_wire_judge).                                   *)
(***************************************************************************)
JudgesAreOnlyFilledIn ==
    \A r \in Runners :
        /\ metric.given # NoJudge => run[r].judges \subseteq {metric.given}
        /\ Cardinality(run[r].judges) <= 1 \/ metric.rewired

(***************************************************************************)
(* When the two stores agree on the run that summary() without an id is    *)
(* about: exactly as long as nobody went on with an earlier run after      *)
(* another had begun.  Then SQLite takes the run that was gone on with,    *)
(* and memory the one that began last.  (Said of a store no add_result is  *)
(* in the middle of, and in which none ever began during another: two that *)
(* cross may leave the run ids in an order that is not that of the rows.)  *)
(***************************************************************************)
FirstOfItsRun(rows, y) == \A z \in 1..(y - 1) : rows[z].run # rows[y].run

GoneOnWith(rows) ==
    \E x, y \in DOMAIN rows : x < y /\ rows[x].run = Last(rows).run /\ FirstOfItsRun(rows, y)

StoresAgreeOnLatest ==
    memory.results # << >> /\ ~memory.crossed /\ (\A r \in Runners : run[r].pc # "append") =>
        (LatestInMemory = LatestInTable(memory.results) <=> ~GoneOnWith(memory.results))

=============================================================================
