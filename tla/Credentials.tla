---------------------------- MODULE Credentials ----------------------------
(***************************************************************************)
(* The credential of one provider of packages/ai: the store that           *)
(* serializes its writes on a chain of promises (credential-store.ts),     *)
(* getAuth with its double-checked refresh (resolve.ts), login and logout  *)
(* (models.ts).  Any caller may abort; an aborted caller is answered at    *)
(* once, while its task stays on the chain until its turn.                 *)
(*                                                                         *)
(* The provider's server gives a new refresh token with every refresh and  *)
(* takes each only once.  A request that fails was either answered, and    *)
(* the answer lost, or never reached the server.                           *)
(***************************************************************************)
EXTENDS Integers, Sequences, FiniteSets

CONSTANTS
    MaxCalls,    \* bound: calls made on the collection
    MaxTokens,   \* bound: refresh tokens issued
    Key,         \* an API key as a credential
    None

ASSUME CredentialAssumption ==
    /\ MaxCalls \in Nat
    /\ Key \notin Nat /\ Key # None
    /\ None \notin Nat \cup {"getAuth", "login", "logout", "refresh"}

Calls == 1 .. MaxCalls
Fresh == 2       \* a token's access is valid for more than five minutes,
Ageing == 1      \* for less,
Over == 0        \* no more

VARIABLES
    stored,   \* the credential in the store: None, Key or a token
    tokens,   \* the tokens issued: [life, login, spent, lost]
    out,      \* logins that are over: logged out, replaced or abandoned
    chain,    \* the calls whose task on the store is waiting or running
    call      \* call[c]: what is left of a call, and where it is (pc)

credVars == <<stored, tokens, out, chain>>

Tokens == DOMAIN tokens
LoginOf(credential) == IF credential \in Tokens THEN {tokens[credential].login} ELSE {}

(* A call before it is made.  The last three fields are those of a refresh of
   the models (ModelCatalog). *)
Unborn == [kind |-> None, pc |-> "new", cred |-> None, reply |-> None, aborted |-> FALSE,
           generation |-> 0, network |-> FALSE, list |-> 0]
Token(login) == [life |-> Fresh, login |-> login, spent |-> FALSE, lost |-> FALSE]

CInit ==
    /\ \/ stored = 1 /\ \E life \in {Over, Ageing, Fresh} : tokens = <<[Token(0) EXCEPT !.life = life]>>
       \/ stored \in {Key, None} /\ tokens = <<>>
    /\ out = {} /\ chain = <<>>
    /\ call = [c \in Calls |-> Unborn]

-----------------------------------------------------------------------------
(* Calls *)

(* Calls are alike: they are made in the order of their numbers. *)
First(c) == call[c].pc = "new" /\ \A d \in 1 .. c - 1 : call[d].pc # "new"

Go(c, pc) == [call EXCEPT ![c].pc = pc]
(* The caller has its answer, or had it when it aborted. *)
Finish(c) == [call EXCEPT ![c] = [Unborn EXCEPT !.pc = "done"]]

(* getAuth: the store is read ... *)
GetAuth(c) ==
    /\ First(c)
    /\ call' = [call EXCEPT ![c].kind = "getAuth", ![c].pc = "read", ![c].cred = stored]
    /\ UNCHANGED credVars

(* ... and what it held is looked at; a stale token needs the chain. *)
Check(c) ==
    /\ call[c].pc = "read" /\ call[c].kind = "getAuth"
    /\ LET cred == call[c].cred IN
       IF cred \in Tokens /\ tokens[cred].life # Fresh
       THEN chain' = Append(chain, c) /\ call' = Go(c, "queued")
       ELSE /\ call' = Finish(c) /\ UNCHANGED chain
    /\ UNCHANGED <<stored, tokens, out>>

(* login: the dialogue with the user and the provider, and what comes of it. *)
Login(c) ==
    /\ First(c)
    /\ call' = [call EXCEPT ![c].kind = "login", ![c].pc = "dialogue"]
    /\ UNCHANGED credVars

LoggedIn(c, credential) ==
    /\ call[c].pc = "dialogue"
    /\ chain' = Append(chain, c)
    /\ IF credential = Key
       THEN call' = [call EXCEPT ![c].pc = "queued", ![c].cred = Key] /\ UNCHANGED tokens
       ELSE /\ Len(tokens) < MaxTokens
            /\ tokens' = Append(tokens, Token(c))
            /\ call' = [call EXCEPT ![c].pc = "queued", ![c].cred = Len(tokens) + 1]
    /\ UNCHANGED <<stored, out>>

LoginFails(c) ==
    /\ call[c].pc = "dialogue"
    /\ call' = Finish(c)
    /\ UNCHANGED credVars

Logout(c) ==
    /\ First(c)
    /\ chain' = Append(chain, c)
    /\ call' = [call EXCEPT ![c].kind = "logout", ![c].pc = "queued"]
    /\ UNCHANGED <<stored, tokens, out>>

-----------------------------------------------------------------------------
(* Tasks on the store *)

AtHead(c) == chain # <<>> /\ Head(chain) = c
MayRun(c) == AtHead(c) /\ call[c].pc = "queued" /\ ~call[c].aborted

(* throwIfAborted before the task. *)
Cancel(c) ==
    /\ AtHead(c) /\ call[c].pc = "queued" /\ call[c].aborted
    /\ chain' = Tail(chain)
    /\ call' = Finish(c)
    /\ UNCHANGED <<stored, tokens, out>>

(* getAuth asks for five minutes, a refresh of the models for any time left. *)
Enough(c) == IF call[c].kind = "getAuth" THEN Fresh ELSE Ageing

(* The second check, under the lock. *)
NeedsRefresh(c) == stored \in Tokens /\ tokens[stored].life < Enough(c)

(* Mutant of AskServer: what was read before the lock is refreshed. *)
AskServerAsRead(c) ==
    /\ MayRun(c) /\ call[c].kind \in {"getAuth", "refresh"}
    /\ call[c].cred \in Tokens /\ tokens[call[c].cred].life < Enough(c)
    /\ call' = Go(c, "asking")
    /\ UNCHANGED credVars

AskServer(c) ==
    /\ MayRun(c) /\ call[c].kind \in {"getAuth", "refresh"}
    /\ NeedsRefresh(c)
    /\ call' = [call EXCEPT ![c].pc = "asking", ![c].cred = stored]
    /\ UNCHANGED credVars

(* The server takes the token and gives the next one, or has seen it before. *)
ServerAnswers(c) ==
    /\ call[c].pc = "asking"
    /\ LET old == call[c].cred IN
       IF tokens[old].spent
       THEN call' = Go(c, "refused") /\ UNCHANGED tokens
       ELSE /\ Len(tokens) < MaxTokens
            /\ tokens' = Append([tokens EXCEPT ![old].spent = TRUE], Token(tokens[old].login))
            /\ call' = [call EXCEPT ![c].pc = "replied", ![c].reply = Len(tokens) + 1]
    /\ UNCHANGED <<stored, out, chain>>

(* Mutant of Failed: the task throws and the next one waits for it for good. *)
FailedForGood(c) ==
    /\ tokens' = IF call[c].pc = "replied" THEN [tokens EXCEPT ![call[c].cred].lost = TRUE]
                                           ELSE tokens
    /\ UNCHANGED <<stored, out, chain>>

(* The task throws: the store stays as it was, and the chain goes on. *)
Failed(c) ==
    /\ chain' = Tail(chain)
    /\ tokens' = IF call[c].pc = "replied" THEN [tokens EXCEPT ![call[c].cred].lost = TRUE]
                                           ELSE tokens
    /\ UNCHANGED <<stored, out>>

(* Refused, broken off, cut off by the caller's signal or, in getAuth only, by the
   timeout of 15 seconds, or answered after that: throwIfAborted before the write. *)
RefreshFails(c) ==
    /\ call[c].pc \in {"asking", "replied", "refused"}
    /\ Failed(c)
    /\ call' = Finish(c)

Stored(c, credential) ==
    /\ chain' = Tail(chain)
    /\ stored' = credential
    /\ out' = out \cup (LoginOf(stored) \ LoginOf(credential))

(* The rotated credential is kept before the chain is released. *)
Replied(c) == call[c].pc = "replied" /\ ~call[c].aborted
StoreRefreshed(c) ==
    /\ Replied(c) /\ call[c].kind = "getAuth"
    /\ Stored(c, call[c].reply)
    /\ call' = Finish(c)
    /\ UNCHANGED tokens

(* Nothing to refresh: logged out meanwhile, or refreshed by another call. *)
NotNeeded(c) ==
    /\ MayRun(c) /\ call[c].kind = "getAuth" /\ ~NeedsRefresh(c)
    /\ chain' = Tail(chain)
    /\ call' = Finish(c)
    /\ UNCHANGED <<stored, tokens, out>>

StoreLogin(c) ==
    /\ MayRun(c) /\ call[c].kind = "login"
    /\ Stored(c, call[c].cred)
    /\ call' = Finish(c)
    /\ UNCHANGED tokens

Delete(c) ==
    /\ MayRun(c) /\ call[c].kind = "logout"
    /\ Stored(c, None)
    /\ call' = Finish(c)
    /\ UNCHANGED tokens

-----------------------------------------------------------------------------
(* Mutant of Abort: the caller is answered, its task is not told. *)
AbortUnheard(c) ==
    /\ call[c].pc \notin {"new", "done"} /\ ~call[c].aborted
    /\ UNCHANGED call
    /\ out' = IF call[c].kind = "login" THEN out \cup LoginOf(call[c].cred) ELSE out
    /\ UNCHANGED <<stored, tokens, chain>>

(* The caller's signal.  A login that is abandoned is over; what else the call
   does ends at its next look at the signal. *)
Abort(c) ==
    /\ call[c].pc \notin {"new", "done"} /\ ~call[c].aborted
    /\ call' = IF call[c].pc = "dialogue" THEN Finish(c)
               ELSE [call EXCEPT ![c].aborted = TRUE]
    /\ out' = IF call[c].kind = "login" THEN out \cup LoginOf(call[c].cred) ELSE out
    /\ UNCHANGED <<stored, tokens, chain>>

(* Time passes. *)
Age ==
    /\ stored \in Tokens /\ tokens[stored].life > Over
    /\ tokens' = [tokens EXCEPT ![stored].life = @ - 1]
    /\ UNCHANGED <<stored, out, chain, call>>

Begin(c) == GetAuth(c) \/ Login(c) \/ Logout(c)

(* A refresh of the models asks the provider with its signal alone, no timeout:
   as long as nobody aborts it, nothing but an answer ends it (models.ts:458-465). *)
Unbounded(c) ==
    call[c].kind = "refresh" /\ call[c].pc \in {"asking", "fetch"} /\ ~call[c].aborted

(* What the program and the network do of themselves. *)
Proceed(c) ==
    \/ Check(c)
    \/ Cancel(c) \/ AskServer(c) \/ ServerAnswers(c) \/ RefreshFails(c) \/ StoreRefreshed(c)
    \/ NotNeeded(c) \/ StoreLogin(c) \/ Delete(c)

-----------------------------------------------------------------------------
(* A refresh token goes to the server once, however many calls find it stale and
   whoever aborts: it is sent again only if the answer to the first time was
   lost.  And a login that is over never comes back: not by a refresh that was
   under way when the user logged out or in again, nor by a login that was
   given up (resolve.ts:117, "refresh once globally"). *)
CredentialIsGood ==
    /\ \A c \in Calls : call[c].pc = "asking" =>
          LET sent == tokens[call[c].cred] IN sent.spent => sent.lost
    /\ Cardinality({c \in Calls : call[c].pc \in {"asking", "replied", "refused"}}) <= 1
    /\ LoginOf(stored) \cap out = {}

(* Every call is answered, unless it waits for the user, or for a request without a
   timeout, its own or that of the task whose turn it is: a task that failed, timed
   out or was aborted does not hold up the others.  (The calls are so many that
   from some time on no more are made.) *)
EveryCallIsAnswered ==
    <>[](\A c \in Calls :
            \/ call[c].pc \in {"new", "dialogue", "done"}
            \/ Unbounded(c)
            \/ call[c].pc = "queued" /\ Unbounded(Head(chain)))
=============================================================================
