--------------------------- MODULE MCLeaseManager ---------------------------
(* An instance of LeaseManager for TLC: a directory, a directory and a file in
   it, and a source file and a test file in the inner one.  Two agents share
   the backend's scope and a third may claim the test file that lies inside it. *)
EXTENDS LeaseManager, SequencesExt

CONSTANTS b1, b2, t1, backend, testing

MCPaths ==
    {<<"services">>, <<"services", "auth">>,
     <<"services", "auth", "login.ts">>, <<"services", "auth", "login.test.ts">>,
     <<"services", "mail.ts">>}

(* q + "/" is a prefix of p. *)
MCBelow == {<<p, q>> \in MCPaths \X MCPaths : p # q /\ IsPrefix(q, p)}

MCRoleOf == [a \in {b1, b2, t1} |-> IF a = t1 THEN testing ELSE backend]

(* src/services/** and src/**/*.test.ts *)
MCScopes ==
    [r \in {backend, testing} |->
        IF r = backend THEN {p \in MCPaths : Len(p) > 1}
        ELSE {<<"services", "auth", "login.test.ts">>}]
=============================================================================
