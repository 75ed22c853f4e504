--------------------------- MODULE MCOrchestrator ---------------------------
(* An instance of Orchestrator for TLC. *)
EXTENDS Orchestrator

CONSTANTS backend, testing

MCSubtasks == {"api", "docs", "legal", "notes", "tests"}

MCRoleOf == [t \in MCSubtasks |->
                IF t = "tests" THEN testing
                ELSE IF t = "legal" THEN NoRole ELSE backend]
MCProvides == [r \in {backend, testing} |->
                  IF r = backend THEN {"server"}
                  ELSE {"unit-tests"}]

(* Four independent subtasks, one of which no role fits and one more than may run
   at a time, and one that needs the first: alone in its wave, it may ask for the
   capability of agents that are gone. *)
MCPlan == <<"api", "legal", "docs", "notes", "tests">>
MCDependsOn == [t \in MCSubtasks |-> IF t = "tests" THEN {"api"} ELSE {}]
=============================================================================
