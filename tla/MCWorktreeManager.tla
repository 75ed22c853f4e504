------------------------- MODULE MCWorktreeManager -------------------------
(* An instance of WorktreeManager for TLC: a directory with a source file and a
   test file.  Two agents share the backend's scope, a third may claim only
   the test file, and the test file is what they all write. *)
EXTENDS WorktreeManager, SequencesExt

CONSTANTS b1, b2, t1, backend, testing

MCFiles == {<<"auth", "login.test.ts">>}
MCPaths == MCFiles \cup {<<"auth", "login.ts">>, <<"auth">>}
MCBelow == {<<p, q>> \in MCPaths \X MCPaths : p # q /\ IsPrefix(q, p)}
MCRoleOf == [a \in {b1, b2, t1} |-> IF a = t1 THEN testing ELSE backend]
MCScopes ==
    [r \in {backend, testing} |->
        IF r = backend THEN MCPaths ELSE MCFiles]

(* The two backend agents are alike. *)
MCSymmetry == Permutations({b1, b2})
=============================================================================
