---------------------------- MODULE ModelCatalog ----------------------------
(***************************************************************************)
(* The dynamic model list of a provider (models.ts refresh, and the        *)
(* provider that createProvider builds): a refresh restores the persisted  *)
(* list, resolves the credential, fetches a newer list and publishes it,   *)
(* to the store and then to memory.  A newer refresh supersedes an older   *)
(* one by a generation number and its abort signal, but the older one may  *)
(* be anywhere, in the middle of a write too.                              *)
(*                                                                         *)
(* A list is the number of the refresh that fetched it, counted from 2; 1  *)
(* is the list an earlier process left, 0 none.                            *)
(***************************************************************************)
EXTENDS Credentials

VARIABLES
    generation,    \* refreshGenerations
    active,        \* refreshControllers: the call whose signal is still ours
    catalog,       \* dynamicModels: the list in memory
    shelf,         \* the list in the models store
    publications   \* publicationChains: the calls that wait or write

modelVars == <<generation, active, catalog, shelf, publications>>
vars == <<credVars, call, modelVars>>

Init ==
    /\ CInit
    /\ generation = 1 /\ active = None
    /\ catalog = 0 /\ shelf \in {0, 1}
    /\ publications = <<>>

-----------------------------------------------------------------------------
(* A refresh *)

(* supersedeProviderRefresh: the older refresh ends at once, for its caller. *)
Superseded ==
    IF active = None THEN call
    ELSE [call EXCEPT ![active].aborted = TRUE]

(* beginProviderRefresh, and the credential is read. *)
Refresh(c) ==
    /\ First(c)
    /\ generation' = generation + 1
    /\ active' = c
    /\ call' = [Superseded EXCEPT ![c].kind = "refresh", ![c].pc = "shelf", ![c].cred = stored,
                                  ![c].generation = generation + 1]
    /\ UNCHANGED <<credVars, catalog, shelf, publications>>

(* When its caller is answered, a refresh lets go of its controller. *)
LetGo(c) ==
    active' = IF active = c /\ (call'[c].aborted \/ call'[c].pc = "done") THEN None ELSE active

Current(c) == ~call[c].aborted /\ call[c].generation = generation
Publishing(c) == publications # <<>> /\ Head(publications) = c

HasCredential(c, credential) ==
    call' = [call EXCEPT ![c].pc = "shelf", ![c].cred = credential, ![c].network = TRUE]

(* The list is restored.  Offline that is all; so it is without a credential.
   An expired token is refreshed first, on the chain of the credential store,
   and with the credential the other phase begins. *)
Restored(c) ==
    \/ /\ call[c].aborted \/ ~call[c].network
       /\ call' = Finish(c) /\ UNCHANGED chain
    \/ /\ call[c].network /\ ~call[c].aborted
       /\ call' = Go(c, "fetch") /\ UNCHANGED chain
    \/ /\ ~call[c].network /\ ~call[c].aborted /\ call[c].cred # None
       /\ IF call[c].cred \in Tokens /\ tokens[call[c].cred].life = Over
          THEN chain' = Append(chain, c) /\ call' = Go(c, "queued")
          ELSE HasCredential(c, call[c].cred) /\ UNCHANGED chain

(* runProviderRefreshPhase: the store is read, and what was there published. *)
ReadShelf(c) ==
    /\ call[c].pc = "shelf"
    /\ IF shelf = 0 \/ call[c].aborted
       THEN Restored(c) /\ UNCHANGED publications
       ELSE /\ publications' = Append(publications, c)
            /\ call' = [call EXCEPT ![c].pc = "restore", ![c].list = shelf]
            /\ UNCHANGED chain
    /\ LetGo(c)
    /\ UNCHANGED <<stored, tokens, out, generation, catalog, shelf>>

Restore(c) ==
    /\ call[c].pc = "restore" /\ Publishing(c)
    /\ publications' = Tail(publications)
    /\ catalog' = IF Current(c) THEN call[c].list ELSE catalog
    /\ Restored(c) /\ LetGo(c)
    /\ UNCHANGED <<stored, tokens, out, generation, shelf>>

(* resolveRefreshCredential: what its task on the credential store came to. *)
StoreRefreshedForModels(c) ==
    /\ Replied(c) /\ call[c].kind = "refresh"
    /\ Stored(c, call[c].reply)
    /\ HasCredential(c, call[c].reply)
    /\ UNCHANGED <<tokens, generation, active, catalog, shelf, publications>>

NotNeededForModels(c) ==
    /\ MayRun(c) /\ call[c].kind = "refresh" /\ ~NeedsRefresh(c)
    /\ chain' = Tail(chain)
    /\ IF stored \in Tokens THEN HasCredential(c, stored)
       ELSE call' = Finish(c)
    /\ LetGo(c)
    /\ UNCHANGED <<stored, tokens, out, generation, catalog, shelf, publications>>

(* fetchModels answers, or fails. *)
Fetched(c) ==
    /\ call[c].pc = "fetch"
    /\ \/ /\ ~call[c].aborted
          /\ publications' = Append(publications, c)
          /\ call' = [call EXCEPT ![c].pc = "publish", ![c].list = call[c].generation]
       \/ call' = Finish(c) /\ UNCHANGED publications
    /\ LetGo(c)
    /\ UNCHANGED <<credVars, generation, catalog, shelf>>

-----------------------------------------------------------------------------
(* publishProviderModels: one publication after another *)

StartWrite(c) ==
    /\ call[c].pc = "publish" /\ Publishing(c)
    /\ IF Current(c) THEN call' = Go(c, "write") /\ UNCHANGED publications
       ELSE call' = Finish(c) /\ publications' = Tail(publications)
    /\ LetGo(c)
    /\ UNCHANGED <<credVars, generation, catalog, shelf>>

WriteLands(c) ==
    /\ call[c].pc = "write"
    /\ shelf' = call[c].list
    /\ call' = Go(c, "written")
    /\ UNCHANGED <<credVars, generation, active, catalog, publications>>

WriteFails(c) ==
    /\ call[c].pc = "write"
    /\ publications' = Tail(publications)
    /\ call' = Finish(c) /\ LetGo(c)
    /\ UNCHANGED <<credVars, generation, catalog, shelf>>

(* Mutant of Show: neither the signal nor the generation is looked at again. *)
ShowAnyway(c) ==
    /\ call[c].pc = "written"
    /\ publications' = Tail(publications)
    /\ catalog' = call[c].list
    /\ call' = Finish(c) /\ LetGo(c)
    /\ UNCHANGED <<credVars, generation, shelf>>

(* The list is shown only if no newer refresh has begun during the write. *)
Show(c) ==
    /\ call[c].pc = "written"
    /\ publications' = Tail(publications)
    /\ catalog' = IF Current(c) THEN call[c].list ELSE catalog
    /\ call' = Finish(c) /\ LetGo(c)
    /\ UNCHANGED <<credVars, generation, shelf>>

-----------------------------------------------------------------------------
Publish(c) == StartWrite(c) \/ WriteLands(c) \/ WriteFails(c) \/ Show(c)

RefreshModels(c) ==
    \/ ReadShelf(c)
    \/ Restore(c)
    \/ StoreRefreshedForModels(c)
    \/ NotNeededForModels(c)
    \/ Fetched(c)

(* The steps of Credentials, for a refresh as for the other calls. *)
OnCredential(A, c) ==
    A /\ LetGo(c) /\ UNCHANGED <<generation, catalog, shelf, publications>>

GoOn(c) == OnCredential(Proceed(c), c) \/ RefreshModels(c) \/ Publish(c)
Run == \E c \in Calls : GoOn(c)

Next ==
    \/ Run
    \/ \E c \in Calls :
          \/ Refresh(c)
          \/ OnCredential(Begin(c), c)
          \/ OnCredential(Abort(c), c)
          \/ OnCredential(LoginFails(c), c)
          \/ \E credential \in {Key, "token"} : OnCredential(LoggedIn(c, credential), c)
    \/ Age /\ UNCHANGED modelVars

(* Stores settle, requests with a timeout or an abort end, and those without may
   take for ever. *)
RunBounded == \E c \in Calls : ~Unbounded(c) /\ GoOn(c)
Spec == Init /\ [][Next]_vars /\ WF_vars(RunBounded)

-----------------------------------------------------------------------------
(* An older refresh never overwrites a newer one, neither on the shelf nor in
   memory, wherever it was when the newer one began (CHANGELOG.md:144), and
   memory shows no list that is not persisted: the next process starts from what
   this one has shown. *)
CatalogNeverGoesBack ==
    /\ [](catalog <= shelf)
    /\ [][catalog' >= catalog /\ shelf' >= shelf]_<<catalog, shelf>>
=============================================================================
