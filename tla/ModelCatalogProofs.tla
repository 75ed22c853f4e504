------------------------- MODULE ModelCatalogProofs -------------------------
(***************************************************************************)
(* Proofs about Credentials and ModelCatalog, for any number of calls and  *)
(* tokens. The two chains are what orders the tasks: whoever is at work on *)
(* the credential is at the head of the one, and what it found stored is   *)
(* still there; whoever writes the list is at the head of the other, and   *)
(* the shelf is still what it was.                                         *)
(***************************************************************************)
EXTENDS ModelCatalog, SequenceTheorems, FiniteSetTheorems, TLAPS

TokenType == [life : Over..Fresh, login : 0..MaxCalls, spent : BOOLEAN, lost : BOOLEAN]

Waiting == {"queued", "asking", "replied", "refused"}
AtWork == {"asking", "replied", "refused"}
Writing == {"restore", "publish", "write", "written"}
Quiet == {"new", "read", "dialogue", "shelf", "fetch", "done"} \cup Writing

CallType ==
    [kind : {None, "getAuth", "login", "logout", "refresh"}, pc : Quiet \cup Waiting,
     cred : {None, Key} \cup Nat, reply : {None} \cup Nat, aborted : BOOLEAN,
     generation : Nat, network : BOOLEAN, list : Nat]

(* A queue holds each call of a set once. *)
Queue(queue, set) ==
    /\ queue \in Seq(Calls)
    /\ \A i, j \in 1..Len(queue) : queue[i] = queue[j] => i = j
    /\ \A c \in Calls : c \in set <=> \E i \in 1..Len(queue) : queue[i] = c

IsCredential(x) == x \in {None, Key} \/ x \in Tokens

(* A login is in its dialogue or queued. *)
KindOK(k) ==
    /\ k.kind = "login" => k.pc \in {"dialogue", "queued"}
    /\ k.pc = "dialogue" => k.kind = "login"
    /\ k.pc \in {"new", "dialogue"} => k.cred = None
    /\ k.pc \in {"new", "done"} => k.kind = None

CredTypeOK ==
    /\ tokens \in Seq(TokenType)
    /\ IsCredential(stored)
    /\ call \in [Calls -> CallType]
    /\ \A c \in Calls : KindOK(call[c])

ChainOK == Queue(chain, {c \in Calls : call[c].pc \in Waiting})

(* Who refreshes is at the head of the chain, with what is still stored. *)
WorkOK == \A c \in Calls : call[c].pc \in AtWork =>
    AtHead(c) /\ stored \in Tokens /\ call[c].cred = stored

ReplyOK == \A c \in Calls : call[c].pc = "replied" =>
    /\ call[c].reply \in Tokens /\ ~tokens[call[c].reply].spent
    /\ tokens[call[c].reply].login = tokens[stored].login

SpentOK == stored \in Tokens /\ tokens[stored].spent =>
    tokens[stored].lost \/ \E c \in Calls : call[c].pc = "replied"

(* A login that may still come has no token, and one that waits to be stored has the only
   ones, which nobody has used. *)
LoginsToCome == \A c \in Calls : call[c].pc \in {"new", "dialogue"} =>
    c \notin out /\ \A t \in Tokens : tokens[t].login # c

LoginsWaiting == \A c \in Calls : call[c].kind = "login" /\ call[c].pc = "queued" =>
    /\ call[c].cred # Key => /\ call[c].cred \in Tokens /\ ~tokens[call[c].cred].spent
                             /\ tokens[call[c].cred].login = c
    /\ stored \in Tokens => tokens[stored].login # c
    /\ c \in out => call[c].aborted

StoredIsNotOut == stored \in Tokens => tokens[stored].login \notin out

CredInv ==
    /\ CredTypeOK /\ ChainOK /\ WorkOK /\ ReplyOK /\ SpentOK
    /\ LoginsToCome /\ LoginsWaiting /\ StoredIsNotOut

-----------------------------------------------------------------------------

ListTypeOK ==
    /\ generation \in Nat \ {0} /\ catalog \in Nat /\ shelf \in Nat
    /\ active \in Calls \cup {None}
    /\ catalog <= shelf /\ shelf <= generation

PublicationsOK ==
    /\ Queue(publications, {c \in Calls : call[c].pc \in Writing})
    /\ \A c \in Calls : call[c].pc \in {"write", "written"} => Publishing(c)

GenerationsOK ==
    /\ \A c \in Calls : call[c].generation <= generation
    /\ \A c, d \in Calls : call[c].generation = call[d].generation /\ call[c].generation # 0 => c = d

ListsOK == \A c \in Calls :
    /\ call[c].pc = "restore" => /\ call[c].list <= shelf
                                 /\ Current(c) => catalog <= call[c].list
    /\ call[c].pc \in {"publish", "write", "written"} => call[c].list = call[c].generation
    /\ call[c].pc = "write" => shelf <= call[c].list
    /\ call[c].pc = "written" => shelf = call[c].list

ListInv == ListTypeOK /\ PublicationsOK /\ GenerationsOK /\ ListsOK

IInv == CredInv /\ ListInv

-----------------------------------------------------------------------------
(* Queues *)

(* Who comes last is behind the head, if there is one. *)
LEMMA QueueAppend ==
    ASSUME NEW set, NEW queue, Queue(queue, set), NEW c \in Calls, c \notin set
    PROVE  /\ Queue(Append(queue, c), set \cup {c})
           /\ queue # <<>> => Append(queue, c) # <<>> /\ Head(Append(queue, c)) = Head(queue)
<1> DEFINE n == Len(queue)
           longer == Append(queue, c)
<1>1. queue \in Seq(Calls) /\ n \in Nat
  BY DEF Queue
<1>2. /\ longer \in Seq(Calls) /\ Len(longer) = n + 1 /\ longer[n + 1] = c
      /\ \A i \in 1..n : longer[i] = queue[i]
  BY <1>1
<1>3. \A i \in 1..n : queue[i] # c
  BY DEF Queue
<1> HIDE DEF longer
<1>4. \A i \in 1..(n + 1) : i \in 1..n \/ i = n + 1
  BY <1>1
<1>5. \A i, j \in 1..Len(longer) : longer[i] = longer[j] => i = j
  BY <1>1, <1>2, <1>3, <1>4 DEF Queue
<1>6. ASSUME NEW d \in Calls
      PROVE  d \in set \cup {c} <=> \E i \in 1..Len(longer) : longer[i] = d
  <2>1. CASE d = c
    BY <1>1, <1>2, <2>1
  <2>2. CASE d # c
    BY <1>1, <1>2, <1>4, <2>2 DEF Queue
  <2> QED
    BY <2>1, <2>2
<1>7. Queue(longer, set \cup {c})
  BY <1>2, <1>5, <1>6 DEF Queue
<1>8. queue # <<>> => longer # <<>> /\ Head(longer) = Head(queue)
  <2> SUFFICES ASSUME queue # <<>> PROVE longer # <<>> /\ Head(longer) = Head(queue)
    OBVIOUS
  <2>1. n >= 1 /\ Head(queue) = queue[1]
    BY <1>1
  <2>2. longer # <<>> /\ Head(longer) = longer[1]
    BY <1>1, <1>2
  <2> QED
    BY <1>1, <1>2, <2>1, <2>2
<1> QED
  BY <1>7, <1>8 DEF longer

(* The head is in the set, and without it the queue holds the others. *)
LEMMA QueueTail ==
    ASSUME NEW set, NEW queue, Queue(queue, set), queue # <<>>
    PROVE  /\ Head(queue) \in Calls /\ Head(queue) \in set
           /\ Queue(Tail(queue), set \ {Head(queue)})
<1> DEFINE n == Len(queue)
           rest == Tail(queue)
<1>1. queue \in Seq(Calls) /\ n \in Nat /\ n >= 1 /\ Head(queue) = queue[1]
  BY DEF Queue
<1>2. /\ rest \in Seq(Calls) /\ Len(rest) = n - 1
      /\ \A i \in 1..(n - 1) : rest[i] = queue[i + 1]
  BY <1>1
<1>3. Head(queue) \in Calls /\ Head(queue) \in set
  BY <1>1 DEF Queue
<1> HIDE DEF rest
<1>4. \A i, j \in 1..Len(rest) : rest[i] = rest[j] => i = j
  <2> SUFFICES ASSUME NEW i \in 1..(n - 1), NEW j \in 1..(n - 1), rest[i] = rest[j] PROVE i = j
    BY <1>2
  <2>1. i + 1 \in 1..n /\ j + 1 \in 1..n /\ queue[i + 1] = queue[j + 1]
    BY <1>1, <1>2
  <2>2. i + 1 = j + 1
    BY <2>1 DEF Queue
  <2> QED
    BY <1>1, <2>2
<1>5. ASSUME NEW d \in Calls
      PROVE  d \in set \ {Head(queue)} <=> \E i \in 1..Len(rest) : rest[i] = d
  <2>1. ASSUME NEW i \in 1..(n - 1), rest[i] = d PROVE d \in set \ {Head(queue)}
    <3>1. i + 1 \in 1..n /\ 1 \in 1..n /\ i + 1 # 1 /\ queue[i + 1] = d
      BY <1>1, <1>2, <2>1
    <3> QED
      BY <1>1, <3>1 DEF Queue
  <2>2. ASSUME d \in set, d # Head(queue) PROVE \E i \in 1..(n - 1) : rest[i] = d
    <3>1. PICK j \in 1..n : queue[j] = d
      BY <2>2 DEF Queue
    <3>2. j - 1 \in 1..(n - 1) /\ (j - 1) + 1 = j
      BY <1>1, <2>2, <3>1
    <3> QED
      BY <1>2, <3>1, <3>2
  <2> QED
    BY <1>2, <2>1, <2>2
<1>6. Queue(rest, set \ {Head(queue)})
  BY <1>2, <1>4, <1>5 DEF Queue
<1> QED
  BY <1>3, <1>6 DEF rest

(* A queue of a set is one of any set with the same calls. *)
LEMMA QueueSame ==
    ASSUME NEW set, NEW other, NEW queue, Queue(queue, set), \A c \in Calls : c \in set <=> c \in other
    PROVE  Queue(queue, other)
BY DEF Queue

(* None and a key are no tokens. *)
LEMMA TokensAreNumbers ==
    ASSUME tokens \in Seq(TokenType)
    PROVE  /\ Tokens = 1..Len(tokens) /\ Len(tokens) \in Nat
           /\ None \notin Tokens /\ Key \notin Tokens
           /\ \A t \in Tokens : tokens[t] \in TokenType
           /\ \A x : LoginOf(x) = IF x \in Tokens THEN {tokens[x].login} ELSE {}
<1>1. Tokens = 1..Len(tokens) /\ Len(tokens) \in Nat
  BY DEF Tokens
<1>2. \A t \in Tokens : tokens[t] \in TokenType /\ t \in Nat
  BY <1>1
<1> QED
  BY <1>1, <1>2, CredentialAssumption DEF LoginOf

-----------------------------------------------------------------------------
(* Steps that leave the credential, or the lists, alone *)

(* To the credential a call is as it was, though it may have been aborted. *)
AsBefore(d) ==
    /\ call'[d].pc = call[d].pc /\ call'[d].kind = call[d].kind
    /\ call'[d].cred = call[d].cred /\ call'[d].reply = call[d].reply
    /\ call[d].aborted => call'[d].aborted

(* Or it has no task on the chain, before and after. *)
OffTheChain(d) ==
    /\ call[d].pc \in Quiet /\ call'[d].pc \in Quiet /\ KindOK(call'[d])
    /\ call'[d].pc \in {"new", "dialogue"} => call[d].pc \in {"new", "dialogue"}

(* Calls without a task on the chain do not disturb the credential, nor does one that
   waits to store a login and is abandoned. *)
LEMMA CredFrame ==
    ASSUME CredInv, UNCHANGED <<stored, tokens, chain>>, call' \in [Calls -> CallType],
           \A d \in Calls : AsBefore(d) \/ OffTheChain(d),
           \A d \in out' : \/ d \in out
                          \/ /\ d \in Calls /\ call'[d].aborted
                             /\ call'[d].kind = "login" /\ call'[d].pc = "queued"
    PROVE  CredInv'
<1> USE DEF CredInv
<1>1. UNCHANGED <<stored, tokens, chain, Tokens>>
  BY DEF Tokens
<1>2. CredTypeOK'
  <2>1. \A d \in Calls : KindOK(call'[d])
    BY DEF CredTypeOK, KindOK, AsBefore, OffTheChain
  <2> QED
    BY <1>1, <2>1 DEF CredTypeOK, IsCredential
<1>3. \A d \in Calls : call'[d].pc \in Waiting <=> call[d].pc \in Waiting
  BY DEF AsBefore, OffTheChain, Quiet, Waiting, Writing
<1>4. ChainOK'
  BY <1>1, <1>3, QueueSame DEF ChainOK
<1>5. \A d \in Calls : call'[d].pc \in AtWork \cup {"queued"} => AsBefore(d)
  BY DEF OffTheChain, Quiet, AtWork, Writing
<1>6. WorkOK' /\ ReplyOK'
  BY <1>1, <1>5 DEF WorkOK, ReplyOK, AtHead, AsBefore, AtWork
<1>7. SpentOK'
  BY <1>1 DEF SpentOK, AsBefore, OffTheChain, Quiet, Writing
<1>8. LoginsToCome' /\ LoginsWaiting' /\ StoredIsNotOut'
  <2>1. LoginsToCome'
    BY <1>1 DEF LoginsToCome, AsBefore, OffTheChain
  <2>2. LoginsWaiting'
    BY <1>1, <1>5 DEF LoginsWaiting, AsBefore
  <2>3. StoredIsNotOut'
    BY <1>1, <1>5 DEF StoredIsNotOut, LoginsWaiting, AsBefore
  <2> QED
    BY <2>1, <2>2, <2>3
<1> QED
  BY <1>2, <1>4, <1>6, <1>7, <1>8

(* To the lists a call is as it was, though it may have been aborted, or it has nothing
   to publish before and after. *)
AsListed(d) ==
    /\ call'[d].pc = call[d].pc \/ (call[d].pc \notin Writing /\ call'[d].pc \notin Writing)
    /\ call'[d].pc \in Writing => /\ call'[d].list = call[d].list
                                  /\ call'[d].generation = call[d].generation
    /\ call'[d].generation \in {0, call[d].generation}
    /\ call[d].aborted => call'[d].aborted \/ call'[d].pc \notin Writing

(* Calls with nothing to publish do not disturb the lists. *)
LEMMA ListFrame ==
    ASSUME CredInv, ListInv, UNCHANGED <<generation, catalog, shelf, publications>>,
           call' \in [Calls -> CallType], active' \in Calls \cup {None},
           \A d \in Calls : AsListed(d)
    PROVE  ListInv'
<1> USE DEF ListInv
<1>1. ListTypeOK'
  BY DEF ListTypeOK
<1>2. \A d \in Calls : call'[d].pc \in Writing <=> call[d].pc \in Writing
  BY DEF AsListed
<1>3. \A d \in Calls : call'[d].pc \in Writing => call'[d].pc = call[d].pc
  BY DEF AsListed
<1>4. PublicationsOK'
  <2>1. Queue(publications', {c \in Calls : call'[c].pc \in Writing})
    BY <1>2, QueueSame DEF PublicationsOK
  <2>2. \A c \in Calls : call'[c].pc \in {"write", "written"} => Publishing(c)'
    BY <1>3 DEF PublicationsOK, Publishing, Writing
  <2> QED
    BY <2>1, <2>2 DEF PublicationsOK
<1>5. GenerationsOK'
  BY DEF GenerationsOK, AsListed, ListTypeOK
<1>6. ListsOK'
  <2> SUFFICES ASSUME NEW c \in Calls, call'[c].pc \in Writing
               PROVE  /\ call'[c].pc = "restore" => /\ call'[c].list <= shelf'
                                                    /\ Current(c)' => catalog' <= call'[c].list
                      /\ call'[c].pc \in {"publish", "write", "written"} =>
                            call'[c].list = call'[c].generation
                      /\ call'[c].pc = "write" => shelf' <= call'[c].list
                      /\ call'[c].pc = "written" => shelf' = call'[c].list
    BY DEF ListsOK, Writing
  <2>1. /\ call'[c].pc = call[c].pc /\ call'[c].list = call[c].list
        /\ call'[c].generation = call[c].generation /\ (Current(c)' => Current(c))
    BY <1>3 DEF AsListed, Current
  <2>2. /\ call[c].pc = "restore" =>
              call[c].list <= shelf /\ (Current(c) => catalog <= call[c].list)
        /\ call[c].pc \in {"publish", "write", "written"} => call[c].list = call[c].generation
        /\ call[c].pc = "write" => shelf <= call[c].list
        /\ call[c].pc = "written" => shelf = call[c].list
    BY DEF ListsOK
  <2>3. shelf' = shelf /\ catalog' = catalog
    OBVIOUS
  <2> HIDE DEF ListInv, CredInv
  <2> QED
    BY <2>1, <2>2, <2>3
<1> QED
  BY <1>1, <1>4, <1>5, <1>6

(* Only call c changes. *)
OnlyCall(c) ==
    /\ call' \in [Calls -> CallType] /\ KindOK(call'[c])
    /\ \A d \in Calls : d # c => call'[d] = call[d]

(* A refresh lets go of its controller or keeps it. *)
LEMMA LetGoType ==
    ASSUME ListInv, NEW c \in Calls, LetGo(c)
    PROVE  active' \in Calls \cup {None}
BY DEF ListInv, ListTypeOK, LetGo

(* A step of the credential by a call that has nothing to publish leaves the lists alone. *)
LEMMA ListsAlone ==
    ASSUME IInv, NEW c \in Calls, OnlyCall(c), AsListed(c), active' \in Calls \cup {None},
           UNCHANGED <<generation, catalog, shelf, publications>>
    PROVE  ListInv'
<1>1. \A d \in Calls : d # c => AsListed(d)
  <2> SUFFICES ASSUME NEW d \in Calls, call'[d] = call[d] PROVE AsListed(d)
    BY DEF OnlyCall
  <2> QED
    BY DEF AsListed
<1>2. call' \in [Calls -> CallType]
  BY DEF OnlyCall
<1> QED
  BY <1>1, <1>2, ListFrame DEF IInv

(* Calls that have been answered are like new ones. *)
LEMMA FinishEffect ==
    ASSUME CredInv, NEW c \in Calls, call' = Finish(c)
    PROVE  /\ OnlyCall(c) /\ call'[c].pc = "done" /\ call'[c].generation = 0
<1> DEFINE new == [Unborn EXCEPT !.pc = "done"]
<1>1. /\ new \in CallType /\ new.pc = "done" /\ new.kind = None /\ new.generation = 0
      /\ new.cred = None
  BY CredentialAssumption DEF CallType, Unborn, Quiet
<1>2. call \in [Calls -> CallType] /\ call' = [call EXCEPT ![c] = new]
  BY DEF CredInv, CredTypeOK, Finish
<1> HIDE DEF new
<1>3. KindOK(new)
  BY <1>1, CredentialAssumption DEF KindOK
<1> QED
  BY <1>1, <1>2, <1>3 DEF OnlyCall

(* A call that goes on is the same but for where it is. *)
LEMMA GoEffect ==
    ASSUME CredInv, NEW c \in Calls, NEW pc \in (Quiet \cup Waiting) \ {"new", "done", "dialogue"},
           call' = Go(c, pc), call[c].kind = "login" => pc = "queued"
    PROVE  /\ OnlyCall(c) /\ call'[c].pc = pc /\ call'[c].kind = call[c].kind
           /\ call'[c].cred = call[c].cred /\ call'[c].reply = call[c].reply
           /\ call'[c].aborted = call[c].aborted /\ call'[c].list = call[c].list
           /\ call'[c].generation = call[c].generation /\ call'[c].network = call[c].network
<1> DEFINE new == [call[c] EXCEPT !.pc = pc]
<1>1. call \in [Calls -> CallType] /\ call' = [call EXCEPT ![c] = new] /\ call[c] \in CallType
  BY DEF CredInv, CredTypeOK, Go
<1>2. /\ new \in CallType /\ new.pc = pc /\ new.kind = call[c].kind
      /\ new.cred = call[c].cred /\ new.reply = call[c].reply
      /\ new.aborted = call[c].aborted /\ new.list = call[c].list
      /\ new.generation = call[c].generation /\ new.network = call[c].network
  BY <1>1 DEF CallType
<1> HIDE DEF new
<1>3. KindOK(new)
  BY <1>2 DEF KindOK, Quiet, Waiting
<1> QED
  BY <1>1, <1>2, <1>3 DEF OnlyCall

-----------------------------------------------------------------------------
(* Steps on the chain *)

(* A new token is behind the others. *)
LEMMA TokenAppended ==
    ASSUME tokens \in Seq(TokenType), NEW token \in TokenType, NEW old \in Seq(TokenType),
           old \in [Tokens -> TokenType], tokens' = Append(old, token)
    PROVE  /\ tokens' \in Seq(TokenType) /\ Tokens' = Tokens \cup {Len(tokens) + 1}
           /\ Len(tokens) + 1 \notin Tokens /\ Len(tokens) + 1 \in Nat
           /\ tokens'[Len(tokens) + 1] = token
           /\ \A t \in Tokens : tokens'[t] = old[t]
<1>1. Tokens = 1..Len(tokens) /\ Len(tokens) \in Nat
  BY DEF Tokens
<1>2. Len(old) = Len(tokens)
  BY <1>1
<1>3. /\ tokens' \in Seq(TokenType) /\ Len(tokens') = Len(tokens) + 1
      /\ tokens'[Len(tokens) + 1] = token /\ \A t \in 1..Len(tokens) : tokens'[t] = old[t]
  BY <1>2
<1>4. Tokens' = 1..(Len(tokens) + 1)
  BY <1>3 DEF Tokens
<1>5. 1..(Len(tokens) + 1) = (1..Len(tokens)) \cup {Len(tokens) + 1} /\ Len(tokens) + 1 \notin 1..Len(tokens)
  BY <1>1
<1> QED
  BY <1>1, <1>3, <1>4, <1>5

(* A token that changes stays where it is, and the others stay as they are. *)
LEMMA TokenChanged ==
    ASSUME tokens \in Seq(TokenType), stored \in Tokens, NEW token \in TokenType,
           NEW new, new = [tokens EXCEPT ![stored] = token]
    PROVE  /\ new \in Seq(TokenType) /\ new \in [Tokens -> TokenType] /\ DOMAIN new = Tokens
           /\ new[stored] = token /\ \A t \in Tokens : t # stored => new[t] = tokens[t]
<1>1. /\ Tokens = 1..Len(tokens) /\ Len(tokens) \in Nat
      /\ tokens \in [1..Len(tokens) -> TokenType]
  BY DEF Tokens
<1>2. new \in [1..Len(tokens) -> TokenType]
  BY <1>1
<1>3. new \in Seq(TokenType)
  BY <1>1, <1>2
<1> QED
  BY <1>1, <1>2, <1>3

(* A call that joins the chain, with a login perhaps, does not disturb the others. *)
LEMMA EnqueueInv ==
    ASSUME CredInv, NEW c \in Calls, OnlyCall(c), call[c].pc \in Quiet, call'[c].pc = "queued",
           chain' = Append(chain, c), UNCHANGED <<stored, out>>,
           \/ tokens' = tokens
           \/ tokens' = Append(tokens, Token(c)) /\ call[c].pc = "dialogue",
           call'[c].kind = "login" =>
               /\ call[c].pc = "dialogue"
               /\ \/ call'[c].cred = Key
                  \/ tokens' = Append(tokens, Token(c)) /\ call'[c].cred = Len(tokens) + 1
    PROVE  CredInv'
<1>1. CredTypeOK /\ ChainOK /\ WorkOK /\ ReplyOK /\ SpentOK /\ LoginsToCome /\ LoginsWaiting
      /\ StoredIsNotOut
  BY DEF CredInv
<1>2. /\ tokens \in Seq(TokenType) /\ Tokens = 1..Len(tokens) /\ Len(tokens) \in Nat
      /\ None \notin Tokens /\ Key \notin Tokens /\ \A t \in Tokens : tokens[t] \in TokenType
  BY <1>1, TokensAreNumbers DEF CredTypeOK
<1>3. Token(c) \in TokenType /\ Token(c).login = c /\ Token(c).spent = FALSE
  BY CredentialAssumption DEF Token, TokenType, Calls, Fresh, Over
<1>4. /\ tokens' \in Seq(TokenType) /\ Tokens \subseteq Tokens'
      /\ \A t \in Tokens : tokens'[t] = tokens[t]
      /\ \A t \in Tokens' : t \in Tokens \/ (call[c].pc = "dialogue" /\ tokens'[t].login = c)
  <2>1. CASE tokens' = tokens
    BY <1>2, <2>1 DEF Tokens
  <2>2. CASE tokens' = Append(tokens, Token(c)) /\ call[c].pc = "dialogue"
    <3>1. tokens \in [Tokens -> TokenType]
      BY <1>2
    <3> QED
      BY <1>2, <1>3, <2>2, <3>1, TokenAppended
  <2> QED
    BY <2>1, <2>2
<1>5. CredTypeOK'
  BY <1>1, <1>4 DEF CredTypeOK, IsCredential, OnlyCall
<1>6. ChainOK'
  <2>1. c \notin {d \in Calls : call[d].pc \in Waiting}
    BY DEF Quiet, Waiting, Writing
  <2>2. Queue(chain', {d \in Calls : call[d].pc \in Waiting} \cup {c})
    BY <1>1, <2>1, QueueAppend DEF ChainOK
  <2>3. \A d \in Calls : d \in {e \in Calls : call[e].pc \in Waiting} \cup {c}
                           <=> d \in {e \in Calls : call'[e].pc \in Waiting}
    BY DEF OnlyCall, Waiting
  <2> QED
    BY <2>2, <2>3, QueueSame DEF ChainOK
<1>7. \A d \in Calls : call'[d].pc \in AtWork => d # c /\ call'[d] = call[d]
  BY DEF OnlyCall, AtWork
<1>8. WorkOK'
  <2> SUFFICES ASSUME NEW d \in Calls, call'[d].pc \in AtWork
               PROVE  AtHead(d)' /\ stored' \in Tokens' /\ call'[d].cred = stored'
    BY DEF WorkOK
  <2>1. AtHead(d) /\ stored \in Tokens /\ call[d].cred = stored /\ call'[d] = call[d]
    BY <1>1, <1>7 DEF WorkOK
  <2>2. c \notin {e \in Calls : call[e].pc \in Waiting}
    BY DEF Quiet, Waiting, Writing
  <2>3. chain' # <<>> /\ Head(chain') = Head(chain)
    BY <1>1, <2>1, <2>2, QueueAppend DEF ChainOK, AtHead
  <2> QED
    BY <1>4, <2>1, <2>3 DEF AtHead
<1>9. ReplyOK'
  BY SMTT(60), <1>1, <1>4, <1>7 DEF ReplyOK, WorkOK, AtWork
<1>10. SpentOK'
  <2> SUFFICES ASSUME stored \in Tokens', tokens'[stored].spent, ~tokens'[stored].lost
               PROVE  \E d \in Calls : call'[d].pc = "replied"
    BY DEF SpentOK
  <2>1. stored \in Tokens
    BY <1>1, <1>2, <1>4, CredentialAssumption DEF CredTypeOK, IsCredential, Tokens
  <2>2. PICK d \in Calls : call[d].pc = "replied"
    BY <1>1, <1>4, <2>1 DEF SpentOK
  <2>3. call'[d] = call[d]
    BY <2>2 DEF OnlyCall, Quiet, Writing
  <2> QED
    BY <2>2, <2>3
<1>11. LoginsToCome'
  BY <1>1, <1>4 DEF LoginsToCome, OnlyCall
<1>12. stored' \in Tokens' => stored \in Tokens
  BY <1>1, <1>2, <1>4, CredentialAssumption DEF CredTypeOK, IsCredential, Tokens
<1>13. LoginsWaiting'
  <2> SUFFICES ASSUME NEW d \in Calls, call'[d].kind = "login", call'[d].pc = "queued"
               PROVE  /\ call'[d].cred # Key => /\ call'[d].cred \in Tokens'
                                               /\ ~tokens'[call'[d].cred].spent
                                               /\ tokens'[call'[d].cred].login = d
                      /\ stored \in Tokens' => tokens'[stored].login # d
                      /\ d \in out => call'[d].aborted
    BY DEF LoginsWaiting
  <2>1. CASE d = c
    <3>1. call[c].pc = "dialogue" /\ c \notin out /\ \A t \in Tokens : tokens[t].login # c
      BY <1>1, <2>1 DEF LoginsToCome
    <3>2. stored \in Tokens' => tokens'[stored].login # d
      BY <1>4, <1>12, <2>1, <3>1
    <3>3. ASSUME call'[c].cred # Key
          PROVE  /\ call'[c].cred \in Tokens' /\ ~tokens'[call'[c].cred].spent
                 /\ tokens'[call'[c].cred].login = c
      <4>1. tokens' = Append(tokens, Token(c)) /\ call'[c].cred = Len(tokens) + 1
        BY <2>1, <3>3
      <4>2. tokens \in [Tokens -> TokenType]
        BY <1>2
      <4> QED
        BY <1>2, <1>3, <4>1, <4>2, TokenAppended
    <3> QED
      BY <2>1, <3>1, <3>2, <3>3
  <2>2. CASE d # c
    <3>1. call'[d] = call[d]
      BY <2>2 DEF OnlyCall
    <3> QED
      BY <1>1, <1>4, <1>12, <3>1 DEF LoginsWaiting
  <2> QED
    BY <2>1, <2>2
<1>14. StoredIsNotOut'
  BY <1>1, <1>4, <1>12 DEF StoredIsNotOut
<1> QED
  BY <1>5, <1>6, <1>8, <1>9, <1>10, <1>11, <1>13, <1>14 DEF CredInv

(* Nobody else is at work, or may run, while a call is at the head of the chain; when it
   leaves, the chain holds the others. *)
LEMMA HeadLeaves ==
    ASSUME CredInv, NEW c \in Calls, OnlyCall(c), AtHead(c), call'[c].pc \in Quiet, chain' = Tail(chain)
    PROVE  ChainOK' /\ \A d \in Calls : call'[d].pc \notin AtWork
<1>1. ChainOK /\ WorkOK
  BY DEF CredInv
<1>2. Queue(chain', {d \in Calls : call[d].pc \in Waiting} \ {c})
  BY <1>1, QueueTail DEF ChainOK, AtHead
<1>3. \A d \in Calls : d \in {e \in Calls : call[e].pc \in Waiting} \ {c}
                         <=> d \in {e \in Calls : call'[e].pc \in Waiting}
  BY DEF OnlyCall, Quiet, Waiting, Writing
<1>4. ChainOK'
  BY <1>2, <1>3, QueueSame DEF ChainOK
<1>5. \A d \in Calls : call'[d].pc \notin AtWork
  <2> SUFFICES ASSUME NEW d \in Calls, call'[d].pc \in AtWork PROVE FALSE
    OBVIOUS
  <2>1. d # c /\ call[d].pc \in AtWork
    BY DEF OnlyCall, Quiet, AtWork, Writing
  <2> QED
    BY <1>1, <2>1 DEF WorkOK, AtHead
<1> QED
  BY <1>4, <1>5

(* A task that ends without storing anything leaves what is stored good: an answer that it
   had is marked as lost. *)
LEMMA LeaveChainInv ==
    ASSUME CredInv, NEW c \in Calls, OnlyCall(c), AtHead(c), call'[c].pc \in Quiet \ {"new", "dialogue"},
           chain' = Tail(chain), UNCHANGED <<stored, out>>,
           tokens' = IF call[c].pc = "replied" THEN [tokens EXCEPT ![call[c].cred].lost = TRUE]
                                               ELSE tokens
    PROVE  CredInv'
<1>1. CredTypeOK /\ WorkOK /\ SpentOK /\ LoginsToCome /\ LoginsWaiting /\ StoredIsNotOut
  BY DEF CredInv
<1>2. ChainOK' /\ \A d \in Calls : call'[d].pc \notin AtWork
  BY HeadLeaves
<1>3. /\ tokens \in Seq(TokenType) /\ Tokens = 1..Len(tokens) /\ Len(tokens) \in Nat
      /\ \A t \in Tokens : tokens[t] \in TokenType
  BY <1>1, TokensAreNumbers DEF CredTypeOK
<1>4. call[c].pc = "replied" => call[c].cred = stored /\ stored \in Tokens
  BY <1>1 DEF WorkOK, AtWork
<1>5. /\ tokens' \in Seq(TokenType) /\ Tokens' = Tokens
      /\ \A t \in Tokens : tokens'[t].login = tokens[t].login /\ tokens'[t].spent = tokens[t].spent
      /\ \A t \in Tokens : tokens[t].lost => tokens'[t].lost
      /\ call[c].pc = "replied" => tokens'[stored].lost
  <2>1. CASE call[c].pc # "replied"
    BY <1>3, <2>1 DEF Tokens
  <2>2. CASE call[c].pc = "replied"
    <3> DEFINE token == [tokens[stored] EXCEPT !.lost = TRUE]
    <3>1. tokens' = [tokens EXCEPT ![stored] = token] /\ stored \in Tokens
      BY <1>3, <1>4, <2>2
    <3>2. /\ token \in TokenType /\ token.login = tokens[stored].login
          /\ token.spent = tokens[stored].spent /\ token.lost
      BY <1>3, <3>1 DEF TokenType
    <3> HIDE DEF token
    <3>3. /\ tokens' \in Seq(TokenType) /\ DOMAIN tokens' = Tokens
          /\ tokens'[stored] = token /\ \A t \in Tokens : t # stored => tokens'[t] = tokens[t]
      BY <1>3, <3>1, <3>2, TokenChanged
    <3> QED
      BY <3>2, <3>3 DEF Tokens
  <2> QED
    BY <2>1, <2>2
<1>6. CredTypeOK'
  BY <1>1, <1>5 DEF CredTypeOK, IsCredential, OnlyCall
<1>7. WorkOK' /\ ReplyOK'
  BY <1>2 DEF WorkOK, ReplyOK, AtWork
<1>8. SpentOK'
  <2> SUFFICES ASSUME stored \in Tokens, tokens'[stored].spent PROVE tokens'[stored].lost
    BY <1>5 DEF SpentOK
  <2>1. CASE tokens[stored].lost
    BY <1>5, <2>1
  <2>2. CASE ~tokens[stored].lost
    <3>1. PICK d \in Calls : call[d].pc = "replied"
      BY <1>1, <1>5, <2>2 DEF SpentOK
    <3>2. d = c
      BY <1>1, <3>1 DEF WorkOK, AtWork, AtHead
    <3> QED
      BY <1>5, <3>1, <3>2
  <2> QED
    BY <2>1, <2>2
<1>9. \A d \in Calls : call'[d].pc \in {"new", "dialogue", "queued"} => call'[d] = call[d]
  BY DEF OnlyCall, Quiet, Writing
<1>10. LoginsToCome' /\ LoginsWaiting' /\ StoredIsNotOut'
  BY <1>1, <1>5, <1>9 DEF LoginsToCome, LoginsWaiting, StoredIsNotOut
<1> QED
  BY <1>2, <1>6, <1>7, <1>8, <1>10 DEF CredInv

(* A task that stores a credential which no one has used, of a login that is not over and
   not to come, leaves what is stored good. *)
LEMMA StoreInv ==
    ASSUME CredInv, NEW c \in Calls, OnlyCall(c), AtHead(c), call'[c].pc \in Quiet \ {"new", "dialogue"},
           NEW credential, IsCredential(credential), Stored(c, credential), tokens' = tokens,
           credential \in Tokens =>
               /\ ~tokens[credential].spent /\ tokens[credential].login \notin out
               /\ \A d \in Calls : d # c /\ call[d].kind = "login" /\ call[d].pc = "queued" =>
                     tokens[credential].login # d
    PROVE  CredInv'
<1>1. CredTypeOK /\ LoginsToCome /\ LoginsWaiting
  BY DEF CredInv
<1>2. chain' = Tail(chain) /\ stored' = credential
      /\ out' = out \cup (LoginOf(stored) \ LoginOf(credential))
  BY DEF Stored
<1>3. ChainOK' /\ \A d \in Calls : call'[d].pc \notin AtWork
  BY <1>2, HeadLeaves
<1>4. /\ Tokens' = Tokens
      /\ LoginOf(stored) = (IF stored \in Tokens THEN {tokens[stored].login} ELSE {})
      /\ LoginOf(credential) = (IF credential \in Tokens THEN {tokens[credential].login} ELSE {})
  BY <1>1, TokensAreNumbers DEF CredTypeOK, Tokens
<1>5. CredTypeOK'
  BY <1>1, <1>2, <1>4 DEF CredTypeOK, IsCredential, OnlyCall
<1>6. WorkOK' /\ ReplyOK' /\ SpentOK'
  BY <1>2, <1>3, <1>4 DEF WorkOK, ReplyOK, SpentOK, AtWork
<1>7. \A d \in Calls : call'[d].pc \in {"new", "dialogue", "queued"} => d # c /\ call'[d] = call[d]
  BY DEF OnlyCall, Quiet, Writing
<1>8. LoginsToCome'
  <2> SUFFICES ASSUME NEW d \in Calls, call[d].pc \in {"new", "dialogue"}
               PROVE  d \notin out' /\ \A t \in Tokens : tokens[t].login # d
    BY <1>4, <1>7 DEF LoginsToCome
  <2>1. d \notin out /\ \A t \in Tokens : tokens[t].login # d
    BY <1>1 DEF LoginsToCome
  <2> QED
    BY <1>2, <1>4, <2>1
<1>9. LoginsWaiting'
  <2> SUFFICES ASSUME NEW d \in Calls, d # c, call'[d] = call[d],
                      call[d].kind = "login", call[d].pc = "queued"
               PROVE  /\ call[d].cred # Key => /\ call[d].cred \in Tokens
                                              /\ ~tokens[call[d].cred].spent
                                              /\ tokens[call[d].cred].login = d
                      /\ credential \in Tokens => tokens[credential].login # d
                      /\ d \in out' => call[d].aborted
    BY <1>2, <1>4, <1>7 DEF LoginsWaiting
  <2>1. /\ call[d].cred # Key => /\ call[d].cred \in Tokens /\ ~tokens[call[d].cred].spent
                                /\ tokens[call[d].cred].login = d
        /\ stored \in Tokens => tokens[stored].login # d
        /\ d \in out => call[d].aborted
    BY <1>1 DEF LoginsWaiting
  <2> QED
    BY <1>2, <1>4, <2>1
<1>10. StoredIsNotOut'
  BY <1>2, <1>4 DEF StoredIsNotOut
<1> QED
  BY <1>3, <1>5, <1>6, <1>8, <1>9, <1>10 DEF CredInv

(* Who is at the head asks the server with what is stored. *)
LEMMA AskServerInv == ASSUME CredInv, NEW c \in Calls, AskServer(c) PROVE CredInv' /\ OnlyCall(c)
<1>1. CredTypeOK /\ ChainOK /\ WorkOK /\ ReplyOK /\ SpentOK /\ LoginsToCome /\ LoginsWaiting
      /\ StoredIsNotOut
  BY DEF CredInv
<1>2. /\ AtHead(c) /\ call[c].pc = "queued" /\ call[c].kind \in {"getAuth", "refresh"}
      /\ stored \in Tokens /\ call' = [call EXCEPT ![c].pc = "asking", ![c].cred = stored]
      /\ UNCHANGED <<stored, tokens, out, chain>>
  BY DEF AskServer, MayRun, NeedsRefresh, credVars
<1> DEFINE new == [call[c] EXCEPT !.pc = "asking", !.cred = stored]
<1>3. stored \in Nat /\ call[c] \in CallType /\ call \in [Calls -> CallType] /\ Tokens' = Tokens
  BY <1>1, <1>2, TokensAreNumbers DEF CredTypeOK, Tokens
<1>4. new \in CallType /\ new.pc = "asking" /\ new.cred = stored /\ new.kind = call[c].kind
  BY <1>3 DEF CallType, Waiting
<1>5. call' = [call EXCEPT ![c] = new]
  BY <1>2, <1>3
<1> HIDE DEF new
<1>6. OnlyCall(c) /\ call'[c] = new
  BY <1>2, <1>3, <1>4, <1>5 DEF OnlyCall, KindOK
<1>7. CredTypeOK'
  BY <1>1, <1>2, <1>3, <1>6 DEF CredTypeOK, IsCredential, OnlyCall
<1>8. ChainOK'
  <2>1. \A d \in Calls : call'[d].pc \in Waiting <=> call[d].pc \in Waiting
    BY <1>2, <1>4, <1>6 DEF OnlyCall, Waiting
  <2> QED
    BY <1>1, <1>2, <2>1, QueueSame DEF ChainOK
<1>9. WorkOK'
  BY <1>1, <1>2, <1>3, <1>4, <1>6 DEF WorkOK, AtHead, OnlyCall
<1>10. \A d \in Calls : call'[d].pc # "asking" => d # c /\ call'[d] = call[d]
  BY <1>4, <1>6 DEF OnlyCall
<1>11. ReplyOK' /\ LoginsToCome' /\ LoginsWaiting' /\ StoredIsNotOut'
  BY <1>1, <1>2, <1>3, <1>10 DEF ReplyOK, LoginsToCome, LoginsWaiting, StoredIsNotOut
<1>12. SpentOK'
  <2> SUFFICES ASSUME stored \in Tokens, tokens[stored].spent, ~tokens[stored].lost
               PROVE  \E d \in Calls : call'[d].pc = "replied"
    BY <1>2, <1>3 DEF SpentOK
  <2>1. PICK d \in Calls : call[d].pc = "replied"
    BY <1>1 DEF SpentOK
  <2>2. d # c /\ call'[d] = call[d]
    BY <1>2, <1>6, <2>1 DEF OnlyCall
  <2> QED
    BY <2>1, <2>2
<1> QED
  BY <1>6, <1>7, <1>8, <1>9, <1>11, <1>12 DEF CredInv

(* The server takes a token that is stored and has not been spent, or refuses one whose
   answer was lost. *)
LEMMA ServerAnswersInv ==
    ASSUME CredInv, NEW c \in Calls, ServerAnswers(c)
    PROVE  CredInv' /\ OnlyCall(c)
<1>1. CredTypeOK /\ ChainOK /\ WorkOK /\ ReplyOK /\ SpentOK /\ LoginsToCome /\ LoginsWaiting
      /\ StoredIsNotOut
  BY DEF CredInv
<1>2. /\ call[c].pc = "asking" /\ AtHead(c) /\ stored \in Tokens /\ call[c].cred = stored
      /\ UNCHANGED <<stored, out, chain>>
  BY <1>1 DEF ServerAnswers, WorkOK, AtWork
<1>3. /\ tokens \in Seq(TokenType) /\ Tokens = 1..Len(tokens) /\ Len(tokens) \in Nat
      /\ \A t \in Tokens : tokens[t] \in TokenType
      /\ call \in [Calls -> CallType] /\ call[c] \in CallType
  BY <1>1, TokensAreNumbers DEF CredTypeOK
<1>4. call[c].kind # "login"
  BY <1>1, <1>2 DEF CredTypeOK, KindOK
<1>5. \A d \in Calls : call[d].pc \in AtWork => d = c
  BY <1>1, <1>2 DEF WorkOK, AtHead
<1>6. CASE tokens[stored].spent
  <2>1. call' = Go(c, "refused") /\ tokens' = tokens
    BY <1>2, <1>6 DEF ServerAnswers
  <2>2. /\ OnlyCall(c) /\ call'[c].pc = "refused" /\ call'[c].cred = stored
        /\ call'[c].kind = call[c].kind
    BY <1>2, <1>4, <2>1, GoEffect DEF Waiting
  <2>3. Tokens' = Tokens
    BY <2>1 DEF Tokens
  <2>4. \A d \in Calls : d # c => call'[d] = call[d]
    BY <2>2 DEF OnlyCall
  <2>5. CredTypeOK'
    BY <1>1, <1>2, <2>1, <2>2, <2>3 DEF CredTypeOK, IsCredential, OnlyCall
  <2>6. ChainOK'
    <3>1. \A d \in Calls : call'[d].pc \in Waiting <=> call[d].pc \in Waiting
      BY <1>2, <2>2, <2>4 DEF Waiting
    <3> QED
      BY <1>1, <1>2, <3>1, QueueSame DEF ChainOK
  <2>7. WorkOK'
    BY <1>1, <1>2, <2>2, <2>3, <2>4 DEF WorkOK, AtHead
  <2>8. \A d \in Calls : call'[d].pc # "refused" => d # c /\ call'[d] = call[d]
    BY <2>2, <2>4
  <2>9. ReplyOK' /\ LoginsToCome' /\ LoginsWaiting' /\ StoredIsNotOut'
    BY <1>1, <1>2, <2>1, <2>3, <2>8 DEF ReplyOK, LoginsToCome, LoginsWaiting, StoredIsNotOut
  <2>10. SpentOK'
    BY <1>1, <1>2, <1>5, <2>1, <2>3 DEF SpentOK, AtWork
  <2> QED
    BY <2>2, <2>5, <2>6, <2>7, <2>9, <2>10 DEF CredInv
<1>7. CASE ~tokens[stored].spent
  <2> DEFINE old == [tokens EXCEPT ![stored].spent = TRUE]
             next == Len(tokens) + 1
             new == [call[c] EXCEPT !.pc = "replied", !.reply = next]
  <2>1. tokens' = Append(old, Token(tokens[stored].login)) /\ call' = [call EXCEPT ![c] = new]
    BY <1>2, <1>3, <1>7 DEF ServerAnswers
  <2>2. /\ old \in Seq(TokenType) /\ old \in [Tokens -> TokenType]
        /\ \A t \in Tokens : /\ old[t].login = tokens[t].login
                             /\ t # stored => old[t] = tokens[t]
    <3> DEFINE token == [tokens[stored] EXCEPT !.spent = TRUE]
    <3>1. old = [tokens EXCEPT ![stored] = token]
      BY <1>2, <1>3
    <3>2. token \in TokenType /\ token.login = tokens[stored].login
      BY <1>2, <1>3 DEF TokenType
    <3> HIDE DEF token, old
    <3>3. /\ old \in Seq(TokenType) /\ old \in [Tokens -> TokenType]
          /\ old[stored] = token /\ \A t \in Tokens : t # stored => old[t] = tokens[t]
      BY <1>2, <1>3, <3>1, <3>2, TokenChanged
    <3> QED
      BY <3>2, <3>3
  <2>3. /\ Token(tokens[stored].login) \in TokenType
        /\ Token(tokens[stored].login).login = tokens[stored].login
        /\ ~Token(tokens[stored].login).spent
    BY <1>2, <1>3 DEF Token, TokenType, Fresh, Over
  <2> HIDE DEF old
  <2>4. /\ tokens' \in Seq(TokenType) /\ Tokens' = Tokens \cup {next}
        /\ next \notin Tokens /\ next \in Nat
        /\ tokens'[next].login = tokens[stored].login /\ ~tokens'[next].spent
        /\ \A t \in Tokens : tokens'[t].login = tokens[t].login
        /\ \A t \in Tokens : t # stored => tokens'[t] = tokens[t]
    BY <1>3, <2>1, <2>2, <2>3, TokenAppended
  <2> HIDE DEF next
  <2>5. /\ new \in CallType /\ new.pc = "replied" /\ new.cred = stored /\ new.reply = next
        /\ new.kind = call[c].kind
    BY <1>2, <1>3, <2>4 DEF CallType, Waiting
  <2> HIDE DEF new
  <2>6. /\ OnlyCall(c) /\ call'[c] = new /\ \A d \in Calls : d # c => call'[d] = call[d]
    BY <1>3, <1>4, <2>1, <2>5 DEF OnlyCall, KindOK
  <2>7. CredTypeOK'
    BY <1>1, <1>2, <2>4, <2>6 DEF CredTypeOK, IsCredential, OnlyCall
  <2>8. ChainOK'
    <3>1. \A d \in Calls : call'[d].pc \in Waiting <=> call[d].pc \in Waiting
      BY <1>2, <2>5, <2>6 DEF Waiting
    <3> QED
      BY <1>1, <1>2, <3>1, QueueSame DEF ChainOK
  <2>9. WorkOK'
    BY <1>1, <1>2, <2>4, <2>5, <2>6 DEF WorkOK, AtHead
  <2>10. ReplyOK'
    <3>1. \A d \in Calls : call'[d].pc = "replied" => d = c
      BY <1>5, <2>6 DEF AtWork
    <3> QED
      BY <1>2, <2>4, <2>5, <2>6, <3>1 DEF ReplyOK
  <2>11. SpentOK'
    BY <2>5, <2>6 DEF SpentOK
  <2>12. \A d \in Calls : call'[d].pc # "replied" => call'[d] = call[d]
    BY <2>5, <2>6
  <2>13. LoginsToCome'
    BY <1>1, <1>2, <2>4, <2>12 DEF LoginsToCome
  <2>14. LoginsWaiting'
    <3> SUFFICES ASSUME NEW d \in Calls, call'[d] = call[d], call[d].kind = "login", call[d].pc = "queued"
                 PROVE  /\ call[d].cred # Key => /\ call[d].cred \in Tokens'
                                                /\ ~tokens'[call[d].cred].spent
                                                /\ tokens'[call[d].cred].login = d
                        /\ tokens'[stored].login # d
                        /\ d \in out => call[d].aborted
      BY <1>2, <2>12 DEF LoginsWaiting
    <3>1. /\ call[d].cred # Key => /\ call[d].cred \in Tokens /\ ~tokens[call[d].cred].spent
                                  /\ tokens[call[d].cred].login = d
          /\ tokens[stored].login # d
          /\ d \in out => call[d].aborted
      BY <1>1, <1>2 DEF LoginsWaiting
    <3> QED
      BY <1>2, <2>4, <3>1
  <2>15. StoredIsNotOut'
    BY <1>1, <1>2, <2>4 DEF StoredIsNotOut
  <2> QED
    BY <2>6, <2>7, <2>8, <2>9, <2>10, <2>11, <2>13, <2>14, <2>15 DEF CredInv
<1> QED
  BY <1>6, <1>7

-----------------------------------------------------------------------------
(* The steps of Credentials *)

(* A call that is answered without a task on the chain. *)
LEMMA AnsweredInv ==
    ASSUME CredInv, NEW c \in Calls, call[c].pc \in Quiet, call' = Finish(c),
           UNCHANGED <<stored, tokens, out, chain>>
    PROVE  CredInv' /\ OnlyCall(c) /\ call'[c].pc = "done" /\ call'[c].generation = 0
<1>1. OnlyCall(c) /\ call'[c].pc = "done" /\ call'[c].generation = 0
  BY FinishEffect
<1>2. OffTheChain(c)
  BY <1>1 DEF OffTheChain, OnlyCall, Quiet
<1>3. \A d \in Calls : d # c => AsBefore(d)
  BY <1>1 DEF OnlyCall, AsBefore
<1>4. CredInv'
  BY <1>1, <1>2, <1>3, CredFrame DEF OnlyCall
<1> QED
  BY <1>1, <1>4

(* A call that goes on without a task on the chain. *)
LEMMA GoesOnInv ==
    ASSUME CredInv, NEW c \in Calls, OnlyCall(c), call[c].pc \in Quiet, call'[c].pc \in Quiet,
           call'[c].pc \in {"new", "dialogue"} => call[c].pc \in {"new", "dialogue"},
           UNCHANGED <<stored, tokens, out, chain>>
    PROVE  CredInv'
<1>1. OffTheChain(c)
  BY DEF OffTheChain, OnlyCall
<1>2. \A d \in Calls : d # c => AsBefore(d)
  BY DEF OnlyCall, AsBefore
<1> QED
  BY <1>1, <1>2, CredFrame DEF OnlyCall

(* Reading the store and opening the dialogue change nothing but the call; a logout
   joins the chain. *)
LEMMA BeginInv == ASSUME IInv, NEW c \in Calls, Begin(c) PROVE CredInv' /\ OnlyCall(c) /\ AsListed(c)
<1> USE DEF IInv
<1>1. /\ call \in [Calls -> CallType] /\ call[c] \in CallType /\ KindOK(call[c])
      /\ stored \in {None, Key} \cup Nat
  BY TokensAreNumbers DEF CredInv, CredTypeOK, IsCredential
<1>2. call[c].pc = "new" /\ call[c].kind = None /\ call[c].cred = None
  BY <1>1 DEF Begin, GetAuth, Login, Logout, First, KindOK
<1>3. None \notin {"getAuth", "login", "logout", "refresh"}
  BY CredentialAssumption
<1>4. CASE GetAuth(c)
  <2> DEFINE new == [call[c] EXCEPT !.kind = "getAuth", !.pc = "read", !.cred = stored]
  <2>1. call' = [call EXCEPT ![c] = new] /\ UNCHANGED <<stored, tokens, out, chain>>
    BY <1>1, <1>4 DEF GetAuth, credVars
  <2>2. /\ new \in CallType /\ new.pc = "read" /\ new.kind = "getAuth"
        /\ new.generation = call[c].generation
    BY <1>1 DEF CallType, Quiet
  <2> HIDE DEF new
  <2>3. OnlyCall(c) /\ call'[c] = new
    BY <1>1, <2>1, <2>2, <1>3 DEF OnlyCall, KindOK
  <2>4. CredInv'
    BY <1>2, <2>1, <2>2, <2>3, GoesOnInv DEF Quiet
  <2> QED
    BY <1>2, <2>2, <2>3, <2>4 DEF AsListed, Writing
<1>5. CASE Login(c)
  <2> DEFINE new == [call[c] EXCEPT !.kind = "login", !.pc = "dialogue"]
  <2>1. call' = [call EXCEPT ![c] = new] /\ UNCHANGED <<stored, tokens, out, chain>>
    BY <1>1, <1>5 DEF Login, credVars
  <2>2. /\ new \in CallType /\ new.pc = "dialogue" /\ new.kind = "login" /\ new.cred = None
        /\ new.generation = call[c].generation
    BY <1>1, <1>2 DEF CallType, Quiet
  <2> HIDE DEF new
  <2>3. OnlyCall(c) /\ call'[c] = new
    BY <1>1, <2>1, <2>2, <1>3 DEF OnlyCall, KindOK
  <2>4. CredInv'
    BY <1>2, <2>1, <2>2, <2>3, GoesOnInv DEF Quiet
  <2> QED
    BY <1>2, <2>2, <2>3, <2>4 DEF AsListed, Writing
<1>6. CASE Logout(c)
  <2> DEFINE new == [call[c] EXCEPT !.kind = "logout", !.pc = "queued"]
  <2>1. call' = [call EXCEPT ![c] = new] /\ UNCHANGED <<stored, tokens, out>> /\ chain' = Append(chain, c)
    BY <1>1, <1>6 DEF Logout
  <2>2. /\ new \in CallType /\ new.pc = "queued" /\ new.kind = "logout"
        /\ new.generation = call[c].generation
    BY <1>1 DEF CallType, Waiting
  <2> HIDE DEF new
  <2>3. OnlyCall(c) /\ call'[c] = new
    BY <1>1, <2>1, <2>2, <1>3 DEF OnlyCall, KindOK
  <2>4. CredInv'
    BY <1>2, <2>1, <2>2, <2>3, EnqueueInv DEF Quiet
  <2> QED
    BY <1>2, <2>2, <2>3, <2>4 DEF AsListed, Writing
<1> QED
  BY <1>4, <1>5, <1>6 DEF Begin

(* A stale token takes getAuth to the chain. *)
LEMMA CheckInv == ASSUME IInv, NEW c \in Calls, Check(c) PROVE CredInv' /\ OnlyCall(c) /\ AsListed(c)
<1>1. /\ CredInv /\ call[c].pc = "read" /\ call[c].kind = "getAuth"
      /\ UNCHANGED <<stored, tokens, out>>
  BY DEF IInv, Check
<1>2. CASE chain' = Append(chain, c) /\ call' = Go(c, "queued")
  <2>1. /\ OnlyCall(c) /\ call'[c].pc = "queued" /\ call'[c].kind = "getAuth"
        /\ call'[c].generation = call[c].generation
    BY <1>1, <1>2, GoEffect DEF Waiting
  <2>2. CredInv'
    BY <1>1, <1>2, <2>1, EnqueueInv DEF Quiet
  <2> QED
    BY <1>1, <2>1, <2>2 DEF AsListed, Writing
<1>3. CASE call' = Finish(c) /\ UNCHANGED chain
  BY <1>1, <1>3, AnsweredInv DEF AsListed, Writing, Quiet
<1> QED
  BY <1>2, <1>3 DEF Check

(* A task that ends without storing anything: aborted, not needed or failed. *)
LEMMA EndsInv ==
    ASSUME IInv, NEW c \in Calls, Cancel(c) \/ RefreshFails(c) \/ NotNeeded(c)
    PROVE  CredInv' /\ OnlyCall(c) /\ AsListed(c)
<1>1. /\ CredInv /\ call' = Finish(c) /\ call[c].pc \in Waiting /\ AtHead(c)
      /\ chain' = Tail(chain) /\ UNCHANGED <<stored, out>>
      /\ tokens' = IF call[c].pc = "replied" THEN [tokens EXCEPT ![call[c].cred].lost = TRUE]
                                              ELSE tokens
  <2>1. CASE Cancel(c) \/ NotNeeded(c)
    BY <2>1 DEF IInv, Cancel, NotNeeded, MayRun, Waiting
  <2>2. CASE RefreshFails(c)
    BY <2>2 DEF IInv, RefreshFails, Failed, CredInv, WorkOK, AtWork, Waiting
  <2> QED
    BY <2>1, <2>2
<1>2. OnlyCall(c) /\ call'[c].pc = "done" /\ call'[c].generation = 0
  BY <1>1, FinishEffect
<1>3. CredInv'
  BY <1>1, <1>2, LeaveChainInv DEF Quiet
<1> QED
  BY <1>1, <1>2, <1>3 DEF AsListed, Writing, Waiting

(* The answer of a refresh may be stored: no one has used it, and its login is the one of
   what is stored. *)
LEMMA ReplyMayBeStored ==
    ASSUME CredInv, NEW c \in Calls, call[c].pc = "replied"
    PROVE  /\ AtHead(c) /\ call[c].reply \in Tokens
           /\ ~tokens[call[c].reply].spent /\ tokens[call[c].reply].login \notin out
           /\ \A d \in Calls : call[d].kind = "login" /\ call[d].pc = "queued" =>
                 tokens[call[c].reply].login # d
BY DEF CredInv, WorkOK, AtWork, ReplyOK, StoredIsNotOut, LoginsWaiting

(* A task that stores what it came to: the rotated token, the login, nothing. *)
LEMMA StoresInv ==
    ASSUME IInv, NEW c \in Calls, StoreRefreshed(c) \/ StoreLogin(c) \/ Delete(c)
    PROVE  CredInv' /\ OnlyCall(c) /\ AsListed(c)
<1>1. CredInv /\ call' = Finish(c) /\ tokens' = tokens
  BY DEF IInv, StoreRefreshed, StoreLogin, Delete
<1>2. OnlyCall(c) /\ call'[c].pc = "done" /\ call'[c].generation = 0
  BY <1>1, FinishEffect
<1>3. call'[c].pc \in Quiet \ {"new", "dialogue"}
  BY <1>2 DEF Quiet
<1>4. CASE StoreRefreshed(c)
  <2>1. call[c].pc = "replied" /\ Stored(c, call[c].reply)
    BY <1>4 DEF StoreRefreshed, Replied
  <2>2. CredInv'
    BY <1>1, <1>2, <1>3, <2>1, ReplyMayBeStored, StoreInv DEF IsCredential
  <2> QED
    BY <1>2, <2>1, <2>2 DEF AsListed, Writing
<1>5. CASE StoreLogin(c)
  <2>1. /\ AtHead(c) /\ call[c].pc = "queued" /\ call[c].kind = "login" /\ ~call[c].aborted
        /\ Stored(c, call[c].cred)
    BY <1>5 DEF StoreLogin, MayRun
  <2>2. /\ call[c].cred # Key => /\ call[c].cred \in Tokens /\ ~tokens[call[c].cred].spent
                                 /\ tokens[call[c].cred].login = c
        /\ c \notin out
    BY <1>1, <2>1 DEF CredInv, LoginsWaiting
  <2>3. Key \notin Tokens
    BY <1>1, TokensAreNumbers DEF CredInv, CredTypeOK
  <2>4. CredInv'
    BY <1>1, <1>2, <1>3, <2>1, <2>2, <2>3, StoreInv DEF IsCredential
  <2> QED
    BY <1>2, <2>1, <2>4 DEF AsListed, Writing
<1>6. CASE Delete(c)
  <2>1. AtHead(c) /\ call[c].pc = "queued" /\ Stored(c, None)
    BY <1>6 DEF Delete, MayRun
  <2>2. None \notin Tokens /\ IsCredential(None)
    BY <1>1, TokensAreNumbers DEF CredInv, CredTypeOK, IsCredential
  <2>3. CredInv'
    BY <1>1, <1>2, <1>3, <2>1, <2>2, StoreInv
  <2> QED
    BY <1>2, <2>1, <2>3 DEF AsListed, Writing
<1> QED
  BY <1>4, <1>5, <1>6

(* The dialogue comes to a key, to a token that is the login's own, or to nothing. *)
LEMMA DialogueInv ==
    ASSUME IInv, NEW c \in Calls,
           LoginFails(c) \/ \E credential \in {Key, "token"} : LoggedIn(c, credential)
    PROVE  CredInv' /\ OnlyCall(c) /\ AsListed(c)
<1>1. /\ CredInv /\ call[c].pc = "dialogue" /\ call[c].kind = "login" /\ KindOK(call[c])
      /\ call \in [Calls -> CallType] /\ call[c] \in CallType
      /\ Len(tokens) + 1 \in Nat
  BY TokensAreNumbers DEF IInv, CredInv, CredTypeOK, KindOK, LoginFails, LoggedIn
<1>2. CASE LoginFails(c)
  <2>1. call' = Finish(c) /\ UNCHANGED <<stored, tokens, out, chain>>
    BY <1>2 DEF LoginFails, credVars
  <2> QED
    BY <1>1, <2>1, AnsweredInv DEF AsListed, Writing, Quiet
<1>3. ASSUME NEW x \in {Key, Len(tokens) + 1}, call' = [call EXCEPT ![c].pc = "queued", ![c].cred = x],
             chain' = Append(chain, c), UNCHANGED <<stored, out>>,
             \/ tokens' = tokens /\ x = Key
             \/ tokens' = Append(tokens, Token(c)) /\ x = Len(tokens) + 1
      PROVE  CredInv' /\ OnlyCall(c) /\ AsListed(c)
  <2> DEFINE new == [call[c] EXCEPT !.pc = "queued", !.cred = x]
  <2>1. call' = [call EXCEPT ![c] = new]
    BY <1>1, <1>3
  <2>2. /\ new \in CallType /\ new.pc = "queued" /\ new.kind = "login" /\ new.cred = x
        /\ new.generation = call[c].generation
    BY <1>1 DEF CallType, Waiting
  <2> HIDE DEF new
  <2>3. OnlyCall(c) /\ call'[c] = new
    BY <1>1, <2>1, <2>2, CredentialAssumption DEF OnlyCall, KindOK
  <2>4. CredInv'
    BY <1>1, <1>3, <2>2, <2>3, EnqueueInv DEF Quiet
  <2> QED
    BY <1>1, <2>2, <2>3, <2>4 DEF AsListed, Writing
<1>4. CASE \E credential \in {Key, "token"} : LoggedIn(c, credential)
  BY <1>3, <1>4 DEF LoggedIn
<1> QED
  BY <1>2, <1>4

(* Who aborts while its login waits is told so; its login is over before it is stored. *)
LEMMA AbortInv == ASSUME IInv, NEW c \in Calls, Abort(c) PROVE CredInv' /\ OnlyCall(c) /\ AsListed(c)
<1>1. /\ CredInv /\ KindOK(call[c]) /\ call \in [Calls -> CallType] /\ call[c] \in CallType
      /\ UNCHANGED <<stored, tokens, chain>>
  BY DEF IInv, CredInv, CredTypeOK, Abort
<1>2. /\ LoginOf(call[c].cred) = IF call[c].cred \in Tokens THEN {tokens[call[c].cred].login} ELSE {}
      /\ None \notin Tokens /\ Key \notin Tokens
  BY <1>1, TokensAreNumbers DEF CredInv, CredTypeOK
<1>3. CASE call[c].pc = "dialogue"
  <2>1. call' = Finish(c) /\ out' = out
    BY <1>1, <1>2, <1>3 DEF Abort, KindOK
  <2> QED
    BY <1>1, <1>3, <2>1, AnsweredInv DEF AsListed, Writing, Quiet
<1>4. CASE call[c].pc # "dialogue"
  <2> DEFINE new == [call[c] EXCEPT !.aborted = TRUE]
  <2>1. call' = [call EXCEPT ![c] = new]
    BY <1>1, <1>4 DEF Abort
  <2>2. /\ new \in CallType /\ new.pc = call[c].pc /\ new.kind = call[c].kind /\ new.aborted
        /\ new.cred = call[c].cred /\ new.reply = call[c].reply /\ new.list = call[c].list
        /\ new.generation = call[c].generation
    BY <1>1 DEF CallType
  <2> HIDE DEF new
  <2>3. /\ OnlyCall(c) /\ call'[c] = new
    BY <1>1, <2>1, <2>2 DEF OnlyCall, KindOK
  <2>4. \A d \in Calls : AsBefore(d)
    BY <2>2, <2>3 DEF AsBefore, OnlyCall
  <2>5. \A d \in out' : d \in out \/ (d = c /\ call[c].kind = "login")
    <3>1. CASE call[c].kind # "login"
      BY <3>1 DEF Abort
    <3>2. CASE call[c].kind = "login"
      <4>1. call[c].pc = "queued"
        BY <1>1, <1>4, <3>2 DEF KindOK
      <4>2. call[c].cred \in Tokens => tokens[call[c].cred].login = c
        BY <1>1, <1>2, <3>2, <4>1 DEF CredInv, LoginsWaiting
      <4>3. out' = out \cup LoginOf(call[c].cred)
        BY <3>2 DEF Abort
      <4> QED
        BY <1>2, <3>2, <4>2, <4>3
    <3> QED
      BY <3>1, <3>2
  <2>6. call[c].kind = "login" => call[c].pc = "queued"
    BY <1>1, <1>4 DEF KindOK
  <2>7. CredInv'
    BY <1>1, <2>2, <2>3, <2>4, <2>5, <2>6, CredFrame DEF OnlyCall
  <2> QED
    BY <2>2, <2>3, <2>7 DEF AsListed
<1> QED
  BY <1>3, <1>4

(* Any step of a call on the credential keeps both invariants. *)
LEMMA CredentialStep ==
    ASSUME IInv, NEW c \in Calls, NEW A, OnCredential(A, c),
           A => CredInv' /\ OnlyCall(c) /\ AsListed(c)
    PROVE  IInv' /\ UNCHANGED <<catalog, shelf>>
<1>1. /\ CredInv' /\ OnlyCall(c) /\ AsListed(c) /\ LetGo(c)
      /\ UNCHANGED <<generation, catalog, shelf, publications>>
  BY DEF OnCredential
<1>2. active' \in Calls \cup {None}
  BY <1>1, LetGoType DEF IInv
<1> QED
  BY <1>1, <1>2, ListsAlone DEF IInv

(* Time only shortens the life of the token that is stored. *)
LEMMA AgeInv == ASSUME IInv, Age, UNCHANGED modelVars PROVE IInv'
<1>1. /\ CredTypeOK /\ ChainOK /\ WorkOK /\ ReplyOK /\ SpentOK /\ LoginsToCome /\ LoginsWaiting
      /\ StoredIsNotOut
  BY DEF IInv, CredInv
<1>2. /\ tokens \in Seq(TokenType) /\ \A t \in Tokens : tokens[t] \in TokenType
  BY <1>1, TokensAreNumbers DEF CredTypeOK
<1> DEFINE token == [tokens[stored] EXCEPT !.life = @ - 1]
<1>3. /\ stored \in Tokens /\ tokens[stored].life > Over /\ tokens' = [tokens EXCEPT ![stored] = token]
      /\ UNCHANGED <<stored, out, chain, call>>
  BY <1>2 DEF Age
<1>4. tokens[stored].life - 1 \in Over..Fresh
  BY <1>2, <1>3 DEF TokenType, Over, Fresh
<1>5. /\ token \in TokenType /\ token.login = tokens[stored].login
      /\ token.spent = tokens[stored].spent /\ token.lost = tokens[stored].lost
  BY <1>2, <1>3, <1>4 DEF TokenType
<1> HIDE DEF token
<1>6. /\ tokens' \in Seq(TokenType) /\ Tokens' = Tokens
      /\ \A t \in Tokens : /\ tokens'[t].login = tokens[t].login /\ tokens'[t].spent = tokens[t].spent
                           /\ tokens'[t].lost = tokens[t].lost
  BY <1>2, <1>3, <1>5, TokenChanged DEF Tokens
<1>7. CredTypeOK' /\ ChainOK' /\ WorkOK'
  BY <1>1, <1>3, <1>6 DEF CredTypeOK, IsCredential, ChainOK, WorkOK, AtHead
<1>8. ReplyOK' /\ SpentOK'
  BY <1>1, <1>3, <1>6 DEF ReplyOK, SpentOK
<1>9. LoginsToCome' /\ LoginsWaiting' /\ StoredIsNotOut'
  BY <1>1, <1>3, <1>6 DEF LoginsToCome, LoginsWaiting, StoredIsNotOut
<1>10. ListInv'
  BY <1>3 DEF IInv, modelVars, ListInv, ListTypeOK, PublicationsOK, GenerationsOK, ListsOK, Publishing, Current
<1> QED
  BY <1>7, <1>8, <1>9, <1>10 DEF IInv, CredInv

-----------------------------------------------------------------------------
(* The steps of a refresh *)

(* With its credential a refresh begins the other phase. *)
LEMMA HasCredentialEffect ==
    ASSUME CredInv, NEW c \in Calls, call[c].kind # "login", NEW x \in {None, Key} \cup Nat,
           HasCredential(c, x), call[c].pc \notin {"new", "done"}
    PROVE  OnlyCall(c) /\ call'[c].pc = "shelf" /\ call'[c].generation = call[c].generation
<1> DEFINE new == [call[c] EXCEPT !.pc = "shelf", !.cred = x, !.network = TRUE]
<1>1. /\ call \in [Calls -> CallType] /\ call' = [call EXCEPT ![c] = new] /\ call[c] \in CallType
      /\ KindOK(call[c])
  BY DEF CredInv, CredTypeOK, HasCredential
<1>2. /\ new \in CallType /\ new.pc = "shelf" /\ new.kind = call[c].kind
      /\ new.generation = call[c].generation
  BY <1>1 DEF CallType, Quiet
<1> HIDE DEF new
<1>3. KindOK(new)
  BY <1>2 DEF KindOK
<1> QED
  BY <1>1, <1>2, <1>3 DEF OnlyCall

(* Once the list is restored, the refresh is answered, fetches, has its credential or joins
   the chain for it. *)
LEMMA RestoredInv ==
    ASSUME CredInv, NEW c \in Calls, call[c].pc \in {"shelf", "restore"}, Restored(c),
           UNCHANGED <<stored, tokens, out>>
    PROVE  /\ CredInv' /\ OnlyCall(c) /\ call'[c].pc \notin Writing
           /\ call'[c].generation \in {0, call[c].generation}
<1>1. /\ call \in [Calls -> CallType] /\ call[c] \in CallType /\ call[c].kind # "login"
      /\ call[c].pc \in Quiet
  BY DEF CredInv, CredTypeOK, KindOK, Quiet, Writing
<1>2. CASE call' = Finish(c) /\ UNCHANGED chain
  BY <1>1, <1>2, AnsweredInv DEF Writing
<1>3. CASE call' = Go(c, "fetch") /\ UNCHANGED chain
  <2>1. OnlyCall(c) /\ call'[c].pc = "fetch" /\ call'[c].generation = call[c].generation
    BY <1>1, <1>3, GoEffect DEF Quiet
  <2>2. CredInv'
    BY <1>1, <1>3, <2>1, GoesOnInv DEF Quiet
  <2> QED
    BY <2>1, <2>2 DEF Writing
<1>4. CASE chain' = Append(chain, c) /\ call' = Go(c, "queued")
  <2>1. /\ OnlyCall(c) /\ call'[c].pc = "queued" /\ call'[c].generation = call[c].generation
        /\ call'[c].kind = call[c].kind
    BY <1>1, <1>4, GoEffect DEF Waiting
  <2>2. CredInv'
    BY <1>1, <1>4, <2>1, EnqueueInv
  <2> QED
    BY <2>1, <2>2 DEF Writing
<1>5. CASE HasCredential(c, call[c].cred) /\ UNCHANGED chain
  <2>1. call[c].cred \in {None, Key} \cup Nat
    BY <1>1 DEF CallType
  <2>2. OnlyCall(c) /\ call'[c].pc = "shelf" /\ call'[c].generation = call[c].generation
    BY <1>1, <1>5, <2>1, HasCredentialEffect
  <2>3. CredInv'
    BY <1>1, <1>5, <2>2, GoesOnInv DEF Quiet
  <2> QED
    BY <2>2, <2>3 DEF Writing
<1> QED
  BY <1>2, <1>3, <1>4, <1>5 DEF Restored

(* A publication at the end of the queue leaves the others as they are. *)
LEMMA JoinsThePublications ==
    ASSUME IInv, NEW c \in Calls, OnlyCall(c), call[c].pc \notin Writing,
           call'[c].generation = call[c].generation,
           \/ call'[c].pc = "restore" /\ call'[c].list = shelf
           \/ call'[c].pc = "publish" /\ call'[c].list = call[c].generation,
           publications' = Append(publications, c), UNCHANGED <<generation, catalog, shelf>>,
           active' \in Calls \cup {None}
    PROVE  ListInv'
<1>1. ListTypeOK /\ PublicationsOK /\ GenerationsOK /\ ListsOK
  BY DEF IInv, ListInv
<1>2. ListTypeOK'
  BY <1>1 DEF ListTypeOK
<1>3. \A d \in Calls : d # c => call'[d] = call[d]
  BY DEF OnlyCall
<1>4. PublicationsOK'
  <2>1. c \notin {d \in Calls : call[d].pc \in Writing}
    OBVIOUS
  <2>2. /\ Queue(publications', {d \in Calls : call[d].pc \in Writing} \cup {c})
        /\ publications # <<>> => publications' # <<>> /\ Head(publications') = Head(publications)
    BY <1>1, <2>1, QueueAppend DEF PublicationsOK
  <2>3. \A d \in Calls : d \in {e \in Calls : call[e].pc \in Writing} \cup {c}
                           <=> d \in {e \in Calls : call'[e].pc \in Writing}
    BY <1>3 DEF Writing
  <2>4. Queue(publications', {d \in Calls : call'[d].pc \in Writing})
    BY <2>2, <2>3, QueueSame
  <2>5. \A d \in Calls : call'[d].pc \in {"write", "written"} => Publishing(d)'
    BY <1>1, <1>3, <2>2 DEF PublicationsOK, Publishing
  <2> QED
    BY <2>4, <2>5 DEF PublicationsOK
<1>5. GenerationsOK'
  BY <1>1, <1>3 DEF GenerationsOK
<1>6. ListsOK'
  <2> SUFFICES ASSUME NEW d \in Calls
               PROVE  /\ call'[d].pc = "restore" => /\ call'[d].list <= shelf
                                                    /\ Current(d)' => catalog <= call'[d].list
                      /\ call'[d].pc \in {"publish", "write", "written"} =>
                            call'[d].list = call'[d].generation
                      /\ call'[d].pc = "write" => shelf <= call'[d].list
                      /\ call'[d].pc = "written" => shelf = call'[d].list
    BY DEF ListsOK
  <2>1. CASE d = c
    BY <1>1, <2>1 DEF ListTypeOK
  <2>2. CASE d # c
    <3>1. call'[d] = call[d] /\ (Current(d)' => Current(d))
      BY <1>3, <2>2 DEF Current
    <3> QED
      BY <1>1, <3>1 DEF ListsOK
  <2> QED
    BY <2>1, <2>2
<1> QED
  BY <1>2, <1>4, <1>5, <1>6 DEF ListInv

(* The first publication leaves. If it was shown, its refresh is the current one, and none
   of the others is. *)
LEMMA LeavesThePublications ==
    ASSUME IInv, NEW c \in Calls, OnlyCall(c), Publishing(c), call'[c].pc \notin Writing,
           call'[c].generation \in {0, call[c].generation},
           publications' = Tail(publications), UNCHANGED <<generation, shelf>>,
           \/ catalog' = catalog
           \/ catalog' = call[c].list /\ Current(c) /\ call[c].list \in Nat /\ call[c].list <= shelf,
           active' \in Calls \cup {None}
    PROVE  ListInv'
<1>1. ListTypeOK /\ PublicationsOK /\ GenerationsOK /\ ListsOK
  BY DEF IInv, ListInv
<1>2. ListTypeOK'
  BY <1>1 DEF ListTypeOK
<1>3. \A d \in Calls : d # c => call'[d] = call[d]
  BY DEF OnlyCall
<1>4. PublicationsOK'
  <2>1. Queue(publications', {d \in Calls : call[d].pc \in Writing} \ {c})
    BY <1>1, QueueTail DEF PublicationsOK, Publishing
  <2>2. \A d \in Calls : d \in {e \in Calls : call[e].pc \in Writing} \ {c}
                           <=> d \in {e \in Calls : call'[e].pc \in Writing}
    BY <1>3
  <2>3. Queue(publications', {d \in Calls : call'[d].pc \in Writing})
    BY <2>1, <2>2, QueueSame
  <2>4. \A d \in Calls : call'[d].pc \notin {"write", "written"}
    BY <1>1, <1>3 DEF PublicationsOK, Publishing, Writing
  <2> QED
    BY <2>3, <2>4 DEF PublicationsOK
<1>5. GenerationsOK'
  BY <1>1, <1>3 DEF GenerationsOK, ListTypeOK
<1>6. ListsOK'
  <2> SUFFICES ASSUME NEW d \in Calls, call'[d].pc \in Writing
               PROVE  /\ call'[d].pc = "restore" => /\ call'[d].list <= shelf
                                                    /\ Current(d)' => catalog' <= call'[d].list
                      /\ call'[d].pc \in {"publish", "write", "written"} =>
                            call'[d].list = call'[d].generation
                      /\ call'[d].pc = "write" => shelf <= call'[d].list
                      /\ call'[d].pc = "written" => shelf = call'[d].list
    BY DEF ListsOK, Writing
  <2>1. d # c /\ call'[d] = call[d]
    BY <1>3
  <2>2. Current(d)' => Current(d) /\ catalog' = catalog
    BY <1>1, <2>1 DEF Current, GenerationsOK, ListTypeOK
  <2> QED
    BY <1>1, <2>1, <2>2 DEF ListsOK
<1> QED
  BY <1>2, <1>4, <1>5, <1>6 DEF ListInv

NotBack == catalog' >= catalog /\ shelf' >= shelf

(* A new refresh takes the next generation: none of the others is current any more. *)
LEMMA RefreshInv == ASSUME IInv, NEW c \in Calls, Refresh(c) PROVE IInv' /\ NotBack
<1>1. /\ CredInv /\ ListTypeOK /\ PublicationsOK /\ GenerationsOK /\ ListsOK
  BY DEF IInv, ListInv
<1>2. /\ call \in [Calls -> CallType] /\ \A d \in Calls : call[d] \in CallType /\ KindOK(call[d])
      /\ stored \in {None, Key} \cup Nat /\ generation \in Nat
  BY <1>1, TokensAreNumbers DEF CredInv, CredTypeOK, IsCredential, ListTypeOK
<1>3. /\ call[c].pc = "new" /\ generation' = generation + 1 /\ active' = c
      /\ UNCHANGED <<stored, tokens, out, chain, catalog, shelf, publications>>
  BY DEF Refresh, First, credVars
<1>4. /\ Superseded \in [Calls -> CallType]
      /\ \A d \in Calls : /\ Superseded[d].pc = call[d].pc /\ Superseded[d].kind = call[d].kind
                          /\ Superseded[d].cred = call[d].cred /\ Superseded[d].reply = call[d].reply
                          /\ Superseded[d].list = call[d].list
                          /\ Superseded[d].generation = call[d].generation
                          /\ call[d].aborted => Superseded[d].aborted
  <2>1. CASE active = None
    BY <1>2, <2>1 DEF Superseded
  <2>2. CASE active # None
    <3> DEFINE told == [call[active] EXCEPT !.aborted = TRUE]
    <3>1. active \in Calls /\ Superseded = [call EXCEPT ![active] = told]
      BY <1>1, <1>2, <2>2 DEF Superseded, ListTypeOK
    <3>2. /\ told \in CallType /\ told.pc = call[active].pc /\ told.kind = call[active].kind
          /\ told.cred = call[active].cred /\ told.reply = call[active].reply
          /\ told.list = call[active].list /\ told.generation = call[active].generation
          /\ told.aborted
      BY <1>2, <3>1 DEF CallType
    <3> HIDE DEF told
    <3> QED
      BY <1>2, <3>1, <3>2
  <2> QED
    BY <2>1, <2>2
<1> DEFINE next == generation + 1
           new == [Superseded[c] EXCEPT !.kind = "refresh", !.pc = "shelf", !.cred = stored,
                                        !.generation = next]
<1>5. call' = [Superseded EXCEPT ![c] = new]
  BY <1>4 DEF Refresh
<1>6. /\ new \in CallType /\ new.pc = "shelf" /\ new.kind = "refresh"
      /\ new.generation = generation + 1
  <2>1. next \in Nat /\ next = generation + 1
    BY <1>2
  <2> HIDE DEF next
  <2>2. Superseded[c] \in CallType
    BY <1>4
  <2> QED
    BY <1>2, <2>1, <2>2 DEF CallType, Quiet
<1> HIDE DEF new
<1>7. /\ call' \in [Calls -> CallType] /\ call'[c] = new
      /\ \A d \in Calls : d # c => call'[d] = Superseded[d]
  BY <1>4, <1>5, <1>6
<1>8. CredInv'
  <2>1. \A d \in Calls : d # c => AsBefore(d)
    BY <1>4, <1>7 DEF AsBefore
  <2>2. KindOK(new)
    BY <1>6, CredentialAssumption DEF KindOK
  <2>3. OffTheChain(c)
    BY <1>3, <1>6, <1>7, <2>2 DEF OffTheChain, Quiet
  <2> QED
    BY <1>1, <1>3, <1>7, <2>1, <2>3, CredFrame
<1>9. ListTypeOK'
  BY <1>1, <1>3 DEF ListTypeOK
<1>10. \A d \in Calls : call'[d].pc \in Writing <=> call[d].pc \in Writing
  BY <1>3, <1>4, <1>6, <1>7 DEF Writing
<1>11. \A d \in Calls : call'[d].pc \in Writing => d # c /\ call'[d] = Superseded[d]
  BY <1>6, <1>7 DEF Writing
<1>12. PublicationsOK'
  <2>1. Queue(publications', {d \in Calls : call'[d].pc \in Writing})
    BY <1>1, <1>3, <1>10, QueueSame DEF PublicationsOK
  <2>2. \A d \in Calls : call'[d].pc \in {"write", "written"} => Publishing(d)'
    BY <1>1, <1>3, <1>4, <1>11 DEF PublicationsOK, Publishing, Writing
  <2> QED
    BY <2>1, <2>2 DEF PublicationsOK
<1>13. \A d \in Calls : d # c => call'[d].generation = call[d].generation /\ call[d].generation <= generation
  BY <1>1, <1>4, <1>7 DEF GenerationsOK
<1>14. \A d \in Calls : call[d].generation \in Nat
  BY <1>2 DEF CallType
<1>15. GenerationsOK'
  BY <1>1, <1>2, <1>3, <1>6, <1>7, <1>13, <1>14 DEF GenerationsOK
<1>16. \A d \in Calls : d # c => ~Current(d)'
  BY <1>2, <1>3, <1>13, <1>14 DEF Current
<1>17. ListsOK'
  <2> SUFFICES ASSUME NEW d \in Calls, call'[d].pc \in Writing
               PROVE  /\ call'[d].pc = "restore" => /\ call'[d].list <= shelf
                                                    /\ Current(d)' => catalog <= call'[d].list
                      /\ call'[d].pc \in {"publish", "write", "written"} =>
                            call'[d].list = call'[d].generation
                      /\ call'[d].pc = "write" => shelf <= call'[d].list
                      /\ call'[d].pc = "written" => shelf = call'[d].list
    BY <1>3 DEF ListsOK, Writing
  <2>1. /\ call'[d].pc = call[d].pc /\ call'[d].list = call[d].list
        /\ call'[d].generation = call[d].generation /\ ~Current(d)'
    BY <1>4, <1>11, <1>16
  <2> QED
    BY <1>1, <2>1 DEF ListsOK
<1>18. NotBack
  BY <1>1, <1>3 DEF NotBack, ListTypeOK
<1> QED
  BY <1>8, <1>9, <1>12, <1>15, <1>17, <1>18 DEF IInv, ListInv

(* The list that is read from the shelf waits for its turn, or there is none. *)
LEMMA ReadShelfInv == ASSUME IInv, NEW c \in Calls, ReadShelf(c) PROVE IInv' /\ NotBack
<1>1. /\ CredInv /\ ListTypeOK /\ call[c].pc = "shelf" /\ LetGo(c)
      /\ UNCHANGED <<stored, tokens, out, generation, catalog, shelf>>
  BY DEF IInv, ListInv, ReadShelf
<1>2. active' \in Calls \cup {None}
  BY <1>1, LetGoType DEF IInv
<1>3. CASE Restored(c) /\ UNCHANGED publications
  <2>1. /\ CredInv' /\ OnlyCall(c) /\ call'[c].pc \notin Writing
        /\ call'[c].generation \in {0, call[c].generation}
    BY <1>1, <1>3, RestoredInv
  <2>2. AsListed(c)
    BY <1>1, <2>1 DEF AsListed, Writing
  <2>3. ListInv'
    BY <1>1, <1>2, <1>3, <2>1, <2>2, ListsAlone
  <2> QED
    BY <1>1, <2>1, <2>3 DEF IInv, NotBack, ListTypeOK
<1>4. CASE /\ publications' = Append(publications, c) /\ UNCHANGED chain
           /\ call' = [call EXCEPT ![c].pc = "restore", ![c].list = shelf]
  <2> DEFINE new == [call[c] EXCEPT !.pc = "restore", !.list = shelf]
  <2>1. /\ call \in [Calls -> CallType] /\ call[c] \in CallType /\ KindOK(call[c])
        /\ call' = [call EXCEPT ![c] = new] /\ shelf \in Nat
    BY <1>1, <1>4 DEF CredInv, CredTypeOK, ListTypeOK
  <2>2. /\ new \in CallType /\ new.pc = "restore" /\ new.list = shelf /\ new.kind = call[c].kind
        /\ new.generation = call[c].generation
    BY <2>1 DEF CallType, Quiet, Writing
  <2> HIDE DEF new
  <2>3. OnlyCall(c) /\ call'[c] = new
    BY <1>1, <2>1, <2>2 DEF OnlyCall, KindOK
  <2>4. CredInv'
    BY <1>1, <1>4, <2>2, <2>3, GoesOnInv DEF Quiet, Writing
  <2>5. ListInv'
    BY <1>1, <1>2, <1>4, <2>2, <2>3, JoinsThePublications DEF Writing
  <2> QED
    BY <1>1, <2>4, <2>5 DEF IInv, NotBack, ListTypeOK
<1> QED
  BY <1>3, <1>4 DEF ReadShelf

(* The list is restored unless its refresh has been superseded: it is no older than what
   memory shows, which nobody else may have changed. *)
LEMMA RestoreInv == ASSUME IInv, NEW c \in Calls, Restore(c) PROVE IInv' /\ NotBack
<1>1. /\ CredInv /\ ListTypeOK /\ ListsOK /\ call[c].pc = "restore" /\ Publishing(c)
      /\ publications' = Tail(publications) /\ Restored(c) /\ LetGo(c)
      /\ catalog' = (IF Current(c) THEN call[c].list ELSE catalog)
      /\ UNCHANGED <<stored, tokens, out, generation, shelf>>
  BY DEF IInv, ListInv, Restore
<1>2. active' \in Calls \cup {None}
  BY <1>1, LetGoType DEF IInv
<1>3. /\ call[c].list \in Nat /\ call[c].list <= shelf /\ (Current(c) => catalog <= call[c].list)
  BY <1>1 DEF CredInv, CredTypeOK, CallType, ListsOK
<1>4. /\ CredInv' /\ OnlyCall(c) /\ call'[c].pc \notin Writing
      /\ call'[c].generation \in {0, call[c].generation}
  BY <1>1, RestoredInv
<1>5. ListInv'
  BY <1>1, <1>2, <1>3, <1>4, LeavesThePublications
<1>6. NotBack
  BY <1>1, <1>3 DEF NotBack, ListTypeOK
<1> QED
  BY <1>4, <1>5, <1>6 DEF IInv

(* What the task on the credential came to: a token, one that another refreshed, or none. *)
LEMMA CredentialForModelsInv ==
    ASSUME IInv, NEW c \in Calls, StoreRefreshedForModels(c) \/ NotNeededForModels(c)
    PROVE  IInv' /\ NotBack
<1>1. /\ CredInv /\ ListTypeOK /\ tokens' = tokens
      /\ UNCHANGED <<generation, catalog, shelf, publications>>
  BY DEF IInv, ListInv, StoreRefreshedForModels, NotNeededForModels
<1>2. CASE StoreRefreshedForModels(c)
  <2>1. /\ call[c].pc = "replied" /\ call[c].kind = "refresh" /\ Stored(c, call[c].reply)
        /\ HasCredential(c, call[c].reply) /\ active' = active
    BY <1>2 DEF StoreRefreshedForModels, Replied
  <2>2. call[c].reply \in Tokens /\ call[c].reply \in Nat
    BY <1>1, <2>1, ReplyMayBeStored, TokensAreNumbers DEF CredInv, CredTypeOK
  <2>3. OnlyCall(c) /\ call'[c].pc = "shelf" /\ call'[c].generation = call[c].generation
    BY <1>1, <2>1, <2>2, HasCredentialEffect
  <2>4. CredInv'
    BY <1>1, <2>1, <2>2, <2>3, ReplyMayBeStored, StoreInv DEF IsCredential, Quiet
  <2>5. AsListed(c)
    BY <2>1, <2>3 DEF AsListed, Writing
  <2>6. ListInv'
    BY <1>1, <2>1, <2>3, <2>5, ListsAlone DEF ListTypeOK
  <2> QED
    BY <1>1, <2>4, <2>6 DEF IInv, NotBack, ListTypeOK
<1>3. CASE NotNeededForModels(c)
  <2>1. /\ AtHead(c) /\ call[c].pc = "queued" /\ call[c].kind = "refresh"
        /\ chain' = Tail(chain) /\ UNCHANGED <<stored, out>> /\ LetGo(c)
        /\ IF stored \in Tokens THEN HasCredential(c, stored) ELSE call' = Finish(c)
    BY <1>3 DEF NotNeededForModels, MayRun
  <2>2. stored \in Tokens => stored \in Nat
    BY <1>1, TokensAreNumbers DEF CredInv, CredTypeOK
  <2>3. /\ OnlyCall(c) /\ call'[c].pc \in {"shelf", "done"}
        /\ call'[c].generation \in {0, call[c].generation}
    BY <1>1, <2>1, <2>2, HasCredentialEffect, FinishEffect
  <2>4. CredInv'
    BY <1>1, <2>1, <2>3, LeaveChainInv DEF Quiet
  <2>5. AsListed(c)
    BY <2>1, <2>3 DEF AsListed, Writing
  <2>6. active' \in Calls \cup {None}
    BY <2>1, LetGoType DEF IInv
  <2>7. ListInv'
    BY <1>1, <2>3, <2>5, <2>6, ListsAlone
  <2> QED
    BY <1>1, <2>4, <2>7 DEF IInv, NotBack, ListTypeOK
<1> QED
  BY <1>2, <1>3

(* What was fetched waits for its turn, or nothing was. *)
LEMMA FetchedInv == ASSUME IInv, NEW c \in Calls, Fetched(c) PROVE IInv' /\ NotBack
<1>1. /\ CredInv /\ ListTypeOK /\ call[c].pc = "fetch" /\ LetGo(c)
      /\ UNCHANGED <<stored, tokens, out, chain, generation, catalog, shelf>>
  BY DEF IInv, ListInv, Fetched, credVars
<1>2. active' \in Calls \cup {None}
  BY <1>1, LetGoType DEF IInv
<1>3. CASE call' = Finish(c) /\ UNCHANGED publications
  <2>1. CredInv' /\ OnlyCall(c) /\ call'[c].pc = "done" /\ call'[c].generation = 0
    BY <1>1, <1>3, AnsweredInv DEF Quiet
  <2>2. AsListed(c)
    BY <1>1, <2>1 DEF AsListed, Writing
  <2>3. ListInv'
    BY <1>1, <1>2, <1>3, <2>1, <2>2, ListsAlone
  <2> QED
    BY <1>1, <2>1, <2>3 DEF IInv, NotBack, ListTypeOK
<1>4. CASE /\ publications' = Append(publications, c)
           /\ call' = [call EXCEPT ![c].pc = "publish", ![c].list = call[c].generation]
  <2> DEFINE new == [call[c] EXCEPT !.pc = "publish", !.list = call[c].generation]
  <2>1. /\ call \in [Calls -> CallType] /\ call[c] \in CallType /\ KindOK(call[c])
        /\ call' = [call EXCEPT ![c] = new]
    BY <1>1, <1>4 DEF CredInv, CredTypeOK
  <2>2. /\ new \in CallType /\ new.pc = "publish" /\ new.list = call[c].generation
        /\ new.kind = call[c].kind /\ new.generation = call[c].generation
    BY <2>1 DEF CallType, Quiet, Writing
  <2> HIDE DEF new
  <2>3. OnlyCall(c) /\ call'[c] = new
    BY <1>1, <2>1, <2>2 DEF OnlyCall, KindOK
  <2>4. CredInv'
    BY <1>1, <1>4, <2>2, <2>3, GoesOnInv DEF Quiet, Writing
  <2>5. ListInv'
    BY <1>1, <1>2, <1>4, <2>2, <2>3, JoinsThePublications DEF Writing
  <2> QED
    BY <1>1, <2>4, <2>5 DEF IInv, NotBack, ListTypeOK
<1> QED
  BY <1>3, <1>4 DEF Fetched

(* Who writes has checked that its list is the newest there is; it stays first until the
   list has landed and was shown. *)
LEMMA WritesInv ==
    ASSUME IInv, NEW c \in Calls, OnlyCall(c), UNCHANGED <<generation, catalog, publications>>,
           active' \in Calls \cup {None}, Publishing(c),
           call'[c].list = call[c].list, call'[c].generation = call[c].generation,
           call[c].pc \in {"publish", "write"}, call'[c].pc \in {"write", "written"},
           shelf <= call[c].list,
           call'[c].pc = "write" => shelf' = shelf,
           call'[c].pc = "written" => shelf' = call[c].list,
           UNCHANGED <<stored, tokens, out, chain>>
    PROVE  IInv' /\ NotBack
<1>1. CredInv /\ ListTypeOK /\ PublicationsOK /\ GenerationsOK /\ ListsOK
  BY DEF IInv, ListInv
<1>2. CredInv'
  BY <1>1, GoesOnInv DEF Quiet, Writing
<1>3. \A d \in Calls : d # c => call'[d] = call[d]
  BY DEF OnlyCall
<1>4. /\ call[c].list \in Nat /\ call[c].list = call[c].generation /\ call[c].generation <= generation
  BY <1>1 DEF CredInv, CredTypeOK, CallType, ListsOK, GenerationsOK
<1>5. /\ shelf' \in Nat /\ shelf <= shelf' /\ shelf' <= generation
  BY <1>1, <1>4 DEF ListTypeOK
<1>6. ListTypeOK'
  BY <1>1, <1>5 DEF ListTypeOK
<1>7. PublicationsOK'
  <2>1. \A d \in Calls : call'[d].pc \in Writing <=> call[d].pc \in Writing
    BY <1>3 DEF Writing
  <2>2. Queue(publications', {d \in Calls : call'[d].pc \in Writing})
    BY <1>1, <2>1, QueueSame DEF PublicationsOK
  <2>3. \A d \in Calls : call'[d].pc \in {"write", "written"} => Publishing(d)'
    BY <1>1, <1>3 DEF PublicationsOK, Publishing
  <2> QED
    BY <2>2, <2>3 DEF PublicationsOK
<1>8. GenerationsOK'
  BY <1>1, <1>3 DEF GenerationsOK
<1>9. ListsOK'
  <2> SUFFICES ASSUME NEW d \in Calls
               PROVE  /\ call'[d].pc = "restore" => /\ call'[d].list <= shelf'
                                                    /\ Current(d)' => catalog <= call'[d].list
                      /\ call'[d].pc \in {"publish", "write", "written"} =>
                            call'[d].list = call'[d].generation
                      /\ call'[d].pc = "write" => shelf' <= call'[d].list
                      /\ call'[d].pc = "written" => shelf' = call'[d].list
    BY DEF ListsOK
  <2>1. CASE d = c
    BY <1>4, <2>1
  <2>2. CASE d # c
    <3>1. /\ call'[d] = call[d] /\ (Current(d)' => Current(d))
          /\ call[d].pc \notin {"write", "written"} /\ call[d].list \in Nat
      BY <1>1, <1>3, <2>2 DEF Current, PublicationsOK, Publishing, CredInv, CredTypeOK, CallType
    <3> QED
      BY <1>1, <1>5, <3>1 DEF ListsOK, ListTypeOK
  <2> QED
    BY <2>1, <2>2
<1>10. NotBack
  BY <1>1, <1>5 DEF NotBack, ListTypeOK
<1> QED
  BY <1>2, <1>6, <1>7, <1>8, <1>9, <1>10 DEF IInv, ListInv

(* A publication that is over: superseded before it wrote, failed, or shown. *)
LEMMA PublishedInv ==
    ASSUME IInv, NEW c \in Calls, call[c].pc \in {"publish", "write", "written"}, Publishing(c),
           call' = Finish(c), publications' = Tail(publications), LetGo(c),
           UNCHANGED <<stored, tokens, out, chain, generation, shelf>>,
           \/ catalog' = catalog
           \/ call[c].pc = "written" /\ Current(c) /\ catalog' = call[c].list
    PROVE  IInv' /\ NotBack
<1>1. CredInv /\ ListTypeOK /\ ListsOK
  BY DEF IInv, ListInv
<1>2. active' \in Calls \cup {None}
  BY LetGoType DEF IInv
<1>3. CredInv' /\ OnlyCall(c) /\ call'[c].pc = "done" /\ call'[c].generation = 0
  BY <1>1, AnsweredInv DEF Quiet, Writing
<1>4. call[c].list \in Nat /\ (call[c].pc = "written" => call[c].list = shelf)
  BY <1>1 DEF CredInv, CredTypeOK, CallType, ListsOK
<1>5. ListInv'
  BY <1>1, <1>2, <1>3, <1>4, LeavesThePublications DEF Writing, ListTypeOK
<1>6. NotBack
  BY <1>1, <1>4 DEF NotBack, ListTypeOK
<1> QED
  BY <1>3, <1>5, <1>6 DEF IInv

(* Each step of a publication is one of these. *)
LEMMA PublishInv == ASSUME IInv, NEW c \in Calls, Publish(c) PROVE IInv' /\ NotBack
<1>1. CredInv /\ ListTypeOK /\ PublicationsOK /\ ListsOK
  BY DEF IInv, ListInv
<1>2. CASE StartWrite(c)
  <2>1. /\ call[c].pc = "publish" /\ Publishing(c) /\ LetGo(c)
        /\ UNCHANGED <<stored, tokens, out, chain, generation, catalog, shelf>>
    BY <1>2 DEF StartWrite, credVars
  <2>2. CASE Current(c)
    <3>1. call' = Go(c, "write") /\ UNCHANGED publications
      BY <1>2, <2>2 DEF StartWrite
    <3>2. call[c].kind # "login"
      BY <1>1, <2>1 DEF CredInv, CredTypeOK, KindOK
    <3>3. /\ OnlyCall(c) /\ call'[c].pc = "write" /\ call'[c].list = call[c].list
          /\ call'[c].generation = call[c].generation
      BY <1>1, <3>1, <3>2, GoEffect DEF Quiet, Writing
    <3>4. shelf <= call[c].list
      BY <1>1, <2>1, <2>2 DEF ListsOK, ListTypeOK, Current
    <3>5. active' \in Calls \cup {None}
      BY <2>1, LetGoType DEF IInv
    <3> QED
      BY <2>1, <3>1, <3>3, <3>4, <3>5, WritesInv
  <2>3. CASE ~Current(c)
    <3>1. call' = Finish(c) /\ publications' = Tail(publications)
      BY <1>2, <2>3 DEF StartWrite
    <3> QED
      BY <2>1, <3>1, PublishedInv
  <2> QED
    BY <2>2, <2>3
<1>3. CASE WriteLands(c)
  <2>1. /\ call[c].pc = "write" /\ shelf' = call[c].list /\ call' = Go(c, "written")
        /\ UNCHANGED <<stored, tokens, out, chain, generation, active, catalog, publications>>
    BY <1>3 DEF WriteLands, credVars
  <2>2. Publishing(c) /\ shelf <= call[c].list /\ call[c].kind # "login"
    BY <1>1, <2>1 DEF PublicationsOK, ListsOK, CredInv, CredTypeOK, KindOK
  <2>3. /\ OnlyCall(c) /\ call'[c].pc = "written" /\ call'[c].list = call[c].list
        /\ call'[c].generation = call[c].generation
    BY <1>1, <2>1, <2>2, GoEffect DEF Quiet, Writing
  <2>4. active' \in Calls \cup {None}
    BY <1>1, <2>1 DEF ListTypeOK
  <2> QED
    BY <2>1, <2>2, <2>3, <2>4, WritesInv
<1>4. CASE WriteFails(c) \/ Show(c)
  <2>1. /\ call[c].pc \in {"write", "written"} /\ Publishing(c)
    BY <1>1, <1>4 DEF WriteFails, Show, PublicationsOK
  <2>2. /\ call' = Finish(c) /\ publications' = Tail(publications) /\ LetGo(c)
        /\ UNCHANGED <<stored, tokens, out, chain, generation, shelf>>
        /\ \/ catalog' = catalog
           \/ call[c].pc = "written" /\ Current(c) /\ catalog' = call[c].list
    BY <1>4 DEF WriteFails, Show, credVars
  <2> QED
    BY <2>1, <2>2, PublishedInv
<1> QED
  BY <1>2, <1>3, <1>4 DEF Publish

-----------------------------------------------------------------------------
(* The specification *)

(* In the first state no call was made, and memory shows nothing. *)
LEMMA InitInv == ASSUME Init PROVE IInv
<1>1. /\ out = {} /\ chain = <<>> /\ call = [c \in Calls |-> Unborn] /\ publications = <<>>
      /\ generation = 1 /\ active = None /\ catalog = 0 /\ shelf \in {0, 1}
  BY DEF Init, CInit
<1>2. /\ Unborn \in CallType /\ Unborn.pc = "new" /\ Unborn.kind = None /\ Unborn.cred = None
      /\ Unborn.generation = 0
  BY DEF Unborn, CallType, Quiet
<1>3. KindOK(Unborn)
  BY <1>2, CredentialAssumption DEF KindOK
<1>4. /\ tokens \in Seq(TokenType) /\ IsCredential(stored)
      /\ \A t \in Tokens : tokens[t].login = 0 /\ ~tokens[t].spent
  <2>1. CASE stored \in {Key, None} /\ tokens = <<>>
    BY <2>1 DEF IsCredential, Tokens
  <2>2. CASE stored = 1 /\ \E life \in {Over, Ageing, Fresh} : tokens = <<[Token(0) EXCEPT !.life = life]>>
    <3>1. PICK life \in {Over, Ageing, Fresh} : tokens = <<[Token(0) EXCEPT !.life = life]>>
      BY <2>2
    <3> DEFINE token == [Token(0) EXCEPT !.life = life]
    <3>2. life \in Over..Fresh
      BY DEF Over, Ageing, Fresh
    <3>3. token \in TokenType /\ token.login = 0 /\ ~token.spent
      <4>1. 0 \in 0..MaxCalls /\ Fresh \in Over..Fresh
        BY CredentialAssumption DEF Over, Fresh
      <4>2. Token(0) \in TokenType /\ Token(0).login = 0 /\ ~Token(0).spent
        BY <4>1 DEF TokenType, Token
      <4> QED
        BY <3>2, <4>2 DEF TokenType
    <3> HIDE DEF token
    <3>4. tokens = <<token>>
      BY <3>1 DEF token
    <3>5. tokens \in Seq(TokenType) /\ Tokens = {1} /\ tokens[1] = token
      BY <3>3, <3>4 DEF Tokens
    <3> QED
      BY <2>2, <3>3, <3>5 DEF IsCredential
  <2> QED
    BY <2>1, <2>2 DEF Init, CInit
<1>5. \A c \in Calls : call[c] = Unborn
  BY <1>1
<1>6. CredTypeOK
  BY <1>1, <1>2, <1>3, <1>4, <1>5 DEF CredTypeOK
<1>7. \A set : (\A c \in Calls : c \notin set) => Queue(<<>>, set)
  BY DEF Queue
<1>8. ChainOK /\ PublicationsOK
  <2>1. \A c \in Calls : call[c].pc \notin Waiting /\ call[c].pc \notin Writing
    BY <1>2, <1>5 DEF Waiting, Writing
  <2> QED
    BY <1>1, <1>7, <2>1 DEF ChainOK, PublicationsOK, Writing
<1>9. WorkOK /\ ReplyOK /\ SpentOK
  BY <1>2, <1>4, <1>5 DEF WorkOK, ReplyOK, SpentOK, AtWork
<1>10. LoginsToCome /\ LoginsWaiting /\ StoredIsNotOut
  <2>1. 0 \notin Calls
    BY DEF Calls
  <2> QED
    BY <1>1, <1>2, <1>4, <1>5, <2>1 DEF LoginsToCome, LoginsWaiting, StoredIsNotOut
<1>11. ListTypeOK
  BY <1>1 DEF ListTypeOK
<1>12. GenerationsOK /\ ListsOK
  BY <1>1, <1>2, <1>5 DEF GenerationsOK, ListsOK
<1> QED
  BY <1>6, <1>8, <1>9, <1>10, <1>11, <1>12 DEF IInv, CredInv, ListInv

(* Every step keeps the invariant, and neither list is replaced by an older one. *)
LEMMA NextInv == ASSUME IInv, [Next]_vars PROVE IInv' /\ NotBack
<1>1. ListTypeOK
  BY DEF IInv, ListInv
<1>2. ASSUME IInv', UNCHANGED <<catalog, shelf>> PROVE IInv' /\ NotBack
  BY <1>1, <1>2 DEF NotBack, ListTypeOK
<1>3. ASSUME NEW c \in Calls, OnCredential(Proceed(c), c) PROVE IInv' /\ NotBack
  <2>1. Proceed(c) => CredInv' /\ OnlyCall(c) /\ AsListed(c)
    <3>1. CASE AskServer(c) \/ ServerAnswers(c)
      <4>1. CredInv' /\ OnlyCall(c)
        BY <3>1, AskServerInv, ServerAnswersInv DEF IInv
      <4>2. call \in [Calls -> CallType] /\ call[c] \in CallType
        BY DEF IInv, CredInv, CredTypeOK
      <4>3. /\ call[c].pc \in {"queued", "asking"} /\ call'[c].pc \in AtWork
            /\ call'[c].generation = call[c].generation
        BY <3>1, <4>2 DEF AskServer, MayRun, ServerAnswers, Go, CallType, AtWork
      <4>4. AsListed(c)
        BY <4>3 DEF AsListed, AtWork, Writing
      <4> QED
        BY <4>1, <4>4
    <3> QED
      BY <3>1, CheckInv, EndsInv, StoresInv DEF Proceed
  <2> QED
    BY <1>2, <1>3, <2>1, CredentialStep
<1>4. ASSUME NEW c \in Calls, RefreshModels(c) PROVE IInv' /\ NotBack
  BY <1>4, ReadShelfInv, RestoreInv, CredentialForModelsInv, FetchedInv DEF RefreshModels
<1>5. ASSUME NEW c \in Calls, OnCredential(Begin(c), c) PROVE IInv' /\ NotBack
  BY <1>2, <1>5, BeginInv, CredentialStep
<1>6. ASSUME NEW c \in Calls, OnCredential(Abort(c), c) PROVE IInv' /\ NotBack
  BY <1>2, <1>6, AbortInv, CredentialStep
<1>7. ASSUME NEW c \in Calls, OnCredential(LoginFails(c), c) PROVE IInv' /\ NotBack
  BY <1>2, <1>7, DialogueInv, CredentialStep
<1>8. ASSUME NEW c \in Calls, NEW credential \in {Key, "token"}, OnCredential(LoggedIn(c, credential), c)
      PROVE  IInv' /\ NotBack
  BY <1>2, <1>8, DialogueInv, CredentialStep
<1>9. CASE Age /\ UNCHANGED modelVars
  BY <1>2, <1>9, AgeInv DEF modelVars
<1>10. CASE UNCHANGED vars
  <2>1. CredInv' /\ ListInv'
    BY <1>10 DEF vars, credVars, modelVars, IInv, CredInv, CredTypeOK, ChainOK, WorkOK, ReplyOK, SpentOK,
       LoginsToCome, LoginsWaiting, StoredIsNotOut, IsCredential, Tokens, AtHead, ListInv, ListTypeOK,
       PublicationsOK, GenerationsOK, ListsOK, Publishing, Current
  <2> QED
    BY <1>2, <1>10, <2>1 DEF IInv, vars, modelVars
<1> QED
  BY <1>3, <1>4, <1>5, <1>6, <1>7, <1>8, <1>9, <1>10, PublishInv, RefreshInv DEF Next, Run, GoOn

(* Refreshes of one credential: one at a time, with a token that is sent again only if the
   answer was lost, and none of a login that is over (CredentialIsGood). *)
LEMMA InvIsGood == ASSUME IInv PROVE CredentialIsGood
<1>1. CredTypeOK /\ WorkOK /\ SpentOK /\ StoredIsNotOut
  BY DEF IInv, CredInv
<1>2. ASSUME NEW c \in Calls, call[c].pc = "asking", tokens[call[c].cred].spent
      PROVE  tokens[call[c].cred].lost
  <2>1. AtHead(c) /\ stored \in Tokens /\ call[c].cred = stored
    BY <1>1, <1>2 DEF WorkOK, AtWork
  <2>2. \A d \in Calls : call[d].pc # "replied"
    BY <1>1, <1>2, <2>1 DEF WorkOK, AtWork, AtHead
  <2> QED
    BY <1>1, <1>2, <2>1, <2>2 DEF SpentOK
<1>3. Cardinality({c \in Calls : call[c].pc \in AtWork}) <= 1
  <2> DEFINE working == {c \in Calls : call[c].pc \in AtWork}
  <2>1. CASE working = {}
    BY <2>1, FS_EmptySet
  <2>2. CASE working # {}
    <3>1. PICK c \in working : TRUE
      BY <2>2
    <3>2. working = {c}
      BY <1>1, <3>1 DEF WorkOK, AtHead
    <3> QED
      BY <3>2, FS_Singleton
  <2> QED
    BY <2>1, <2>2
<1>4. LoginOf(stored) \cap out = {}
  BY <1>1, TokensAreNumbers DEF CredTypeOK, StoredIsNotOut
<1> QED
  BY <1>2, <1>3, <1>4 DEF CredentialIsGood, AtWork

(* For any number of calls that get, refresh, replace and delete a credential and are aborted
   at any step, the credential stays good (resolve.ts:117, credential-store.ts). *)
THEOREM TheCredentialStaysGood == Spec => []CredentialIsGood
<1>1. Init => IInv
  BY InitInv
<1>2. IInv /\ [Next]_vars => IInv'
  BY NextInv
<1>3. IInv => CredentialIsGood
  BY InvIsGood
<1> QED
  BY <1>1, <1>2, <1>3, PTL DEF Spec

(* However many refreshes supersede one another, and wherever they were, neither the shelf
   nor memory goes back to an older list, and memory never shows what is not on the shelf
   (models.ts, publishProviderModels). *)
THEOREM ListsNeverGoBack == Spec => CatalogNeverGoesBack
<1>1. Init => IInv
  BY InitInv
<1>2. IInv /\ [Next]_vars => IInv'
  BY NextInv
<1>3. IInv => catalog <= shelf
  BY DEF IInv, ListInv, ListTypeOK
<1> DEFINE Step == [NotBack]_<<catalog, shelf>>
<1>4. IInv /\ [Next]_vars => Step
  BY NextInv
<1>5. Spec => [](catalog <= shelf)
  BY <1>1, <1>2, <1>3, PTL DEF Spec
<1>6. Spec => [][NotBack]_<<catalog, shelf>>
  BY <1>1, <1>2, <1>4, PTL DEF Spec
<1> QED
  BY <1>5, <1>6 DEF CatalogNeverGoesBack, NotBack
=============================================================================
