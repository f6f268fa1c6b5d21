------------------------------- MODULE MCSetup -------------------------------
(***************************************************************************)
(* Two processes on a machine that has every package, with its models or   *)
(* without.                                                                *)
(***************************************************************************)
EXTENDS Setup, TLC

CONSTANTS p1, p2

MCRank == [s \in Services |-> IF s = "openrouter" THEN 5 ELSE 10]

MCMachines == {[packages |-> Packages, model |-> TRUE,  pulled |-> Models],
               [packages |-> Packages, model |-> FALSE, pulled |-> {}]}

Common == [tool |-> "rag", auto |-> TRUE, terminal |-> FALSE, retrieval |-> "auto",
           vertex |-> FALSE, project |-> FALSE, llm |-> "auto", model |-> None, keys |-> {}]

MCConfigurations ==
    {Common,
     [Common EXCEPT !.keys = Services, !.terminal = TRUE, !.retrieval = "hybrid"],
     [Common EXCEPT !.keys = {"openai"}, !.retrieval = "sparse", !.llm = "openai"],
     [Common EXCEPT !.vertex = TRUE, !.project = TRUE, !.keys = {"openai"}],
     [Common EXCEPT !.vertex = TRUE, !.retrieval = "hybrid"],
     [Common EXCEPT !.auto = FALSE, !.model = "llama"],
     [Common EXCEPT !.tool = "extractor", !.keys = {"openai"}],
     [Common EXCEPT !.tool = "extractor", !.llm = "ollama"],
     [Common EXCEPT !.tool = "extractor", !.llm = "ollama", !.model = "llama"]}

SymmetryProcesses == Permutations({p1, p2})
=============================================================================
