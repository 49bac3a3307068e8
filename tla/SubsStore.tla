------------------------------ MODULE SubsStore ------------------------------
(***************************************************************************)
(* The subscription service reading what the console publishes.            *)
(*                                                                         *)
(* Every request of the subscription service (subs/server.py, a thread per *)
(* request) looks at both files, takes the store's lock, loads both when   *)
(* their stamps are not the ones loaded last, and answers from what is     *)
(* loaded; it answers 503 when the two documents do not fit together.      *)
(* Publish replaces the files meanwhile, one after the other.              *)
(*                                                                         *)
(* A stamp (inode, size and times) tells one write of a file from another, *)
(* so here it is the number of the write.                                  *)
(***************************************************************************)
EXTENDS Publish

CONSTANT Requests     \* threads, each handling one request after another

ASSUME StoreAssumption == "nobody" \notin Requests

Refusal == [ok |-> "no", tokens |-> None, users |-> [u \in Users |-> NoUser]]
Served(tokens, users) == [ok |-> "yes", tokens |-> tokens, users |-> users]

VARIABLES
  tokensAt, catalogAt,  \* the stamps of the files
  loadedAt,             \* Store._stamp
  loaded,               \* Store.catalog and Store.digests, or a refusal
  storeLock,            \* who holds Store._lock
  opened,               \* the catalog read, before the token table is
  rpc,                  \* where a request is
  stamp,                \* the stamps it took
  answer,               \* its answer
  saidBefore,           \* ghost: said, when it began
  touched,              \* ghost: requests during which a file was written
  broken                \* ghost: requests during which the files did not fit

storeVars == <<loadedAt, loaded, storeLock, opened>>
requestVars == <<rpc, stamp, answer, saidBefore>>
subsVars == <<tokensAt, catalogAt, storeVars, requestVars, touched, broken>>
allVars == <<vars, subsVars>>

Stamps == [catalog : Nat, tokens : Nat]
Response == [ok : {"yes", "no"}, tokens : Tokens, users : Catalog]
NotLoaded == [catalog |-> 0, tokens |-> 0]

StoreTypeOK ==
  /\ tokensAt \in Nat \ {0} /\ catalogAt \in Nat \ {0}
  /\ loadedAt \in Stamps /\ loaded \in Response
  /\ storeLock \in Requests \cup {"nobody"}
  /\ opened \in Catalog
  /\ rpc \in [Requests -> {"idle", "stat", "lock", "load", "tokens", "answer"}]
  /\ stamp \in [Requests -> Stamps]
  /\ answer \in [Requests -> Response]
  /\ saidBefore \in [Requests -> Tokens]
  /\ touched \in SUBSET Requests
  /\ broken \in SUBSET Requests

SubsInit ==
  /\ Init
  /\ tokensAt = 1 /\ catalogAt = 1
  /\ loadedAt = NotLoaded /\ loaded = Refusal /\ storeLock = "nobody"
  /\ opened = Refusal.users
  /\ rpc = [r \in Requests |-> "idle"]
  /\ stamp = [r \in Requests |-> NotLoaded]
  /\ answer = [r \in Requests |-> Refusal]
  /\ saidBefore = [r \in Requests |-> None]
  /\ touched = {}
  /\ broken = {}

\* validate_tokens: every token belongs to a user and every user has one.
Fits(tokens, users) == \A u \in Users : tokens[u] = 0 <=> users[u] = NoUser

Active == {r \in Requests : rpc[r] # "idle"}

\* A step of the console: a write of a file gives it a new stamp.
Console ==
  /\ PublishNext
  /\ tokensAt' = IF \E p \in Publishers : WriteTokens(p)
                   THEN tokensAt + 1 ELSE tokensAt
  /\ catalogAt' = IF \E p \in Publishers : WriteCatalog(p)
                   THEN catalogAt + 1 ELSE catalogAt
  /\ touched' = IF tokensAt' + catalogAt' > tokensAt + catalogAt
                  THEN touched \cup Active ELSE touched
  /\ broken' = IF Fits(tokensFile', catalogFile') THEN broken ELSE broken \cup Active
  /\ UNCHANGED <<storeVars, requestVars>>

-----------------------------------------------------------------------------
Begin(r) ==
  /\ rpc[r] = "idle"
  /\ rpc' = [rpc EXCEPT ![r] = "stat"]
  /\ stamp' = [stamp EXCEPT ![r] = [catalog |-> catalogAt, tokens |-> 0]]
  /\ saidBefore' = [saidBefore EXCEPT ![r] = said]
  /\ broken' = IF Fits(tokensFile, catalogFile) THEN broken \ {r} ELSE broken \cup {r}
  /\ UNCHANGED <<vars, tokensAt, catalogAt, storeVars, answer, touched>>

\* _stamp_now: the catalog's stamp is taken before the token table's.
StatTokens(r) ==
  /\ rpc[r] = "stat"
  /\ rpc' = [rpc EXCEPT ![r] = "lock"]
  /\ stamp' = [stamp EXCEPT ![r] = [catalog |-> stamp[r].catalog, tokens |-> tokensAt]]
  /\ UNCHANGED <<vars, tokensAt, catalogAt, storeVars, answer, saidBefore,
                 touched, broken>>

DiffersInCatalog(r) == stamp[r].catalog # loadedAt.catalog

DiffersInTime(r) ==
  \/ stamp[r].catalog \div 2 # loadedAt.catalog \div 2
  \/ stamp[r].tokens \div 2 # loadedAt.tokens \div 2

Differs(r) == stamp[r] # loadedAt

\* The lock, and the stamp noted before anything is read.
Enter(r) ==
  /\ rpc[r] = "lock"
  /\ storeLock = "nobody"
  /\ IF Differs(r)
       THEN /\ storeLock' = r
            /\ loadedAt' = stamp[r]
            /\ rpc' = [rpc EXCEPT ![r] = "load"]
            /\ UNCHANGED answer
       ELSE /\ rpc' = [rpc EXCEPT ![r] = "answer"]
            /\ answer' = [answer EXCEPT ![r] = loaded]
            /\ UNCHANGED <<storeLock, loadedAt>>
  /\ UNCHANGED <<vars, tokensAt, catalogAt, loaded, opened, stamp, saidBefore,
                 touched, broken>>

LoadCatalog(r) ==
  /\ rpc[r] = "load"
  /\ opened' = catalogFile
  /\ rpc' = [rpc EXCEPT ![r] = "tokens"]
  /\ UNCHANGED <<vars, tokensAt, catalogAt, loadedAt, loaded, storeLock, stamp,
                 answer, saidBefore, touched, broken>>

\* The stamp noted before reading stays: files replaced meanwhile are read again.
LoadTokens(r) ==
  LET now == IF Fits(tokensFile, opened) THEN Served(tokensFile, opened)
                                         ELSE Refusal
  IN  /\ rpc[r] = "tokens"
      /\ loaded' = now
      /\ answer' = [answer EXCEPT ![r] = now]
      /\ opened' = Refusal.users
      /\ storeLock' = "nobody"
      /\ rpc' = [rpc EXCEPT ![r] = "answer"]
      /\ UNCHANGED <<vars, tokensAt, catalogAt, loadedAt, stamp, saidBefore,
                     touched, broken>>

End(r) ==
  /\ rpc[r] = "answer"
  /\ rpc' = [rpc EXCEPT ![r] = "idle"]
  /\ stamp' = [stamp EXCEPT ![r] = NotLoaded]
  /\ answer' = [answer EXCEPT ![r] = Refusal]
  /\ saidBefore' = [saidBefore EXCEPT ![r] = None]
  /\ touched' = touched \ {r}
  /\ broken' = broken \ {r}
  /\ UNCHANGED <<vars, tokensAt, catalogAt, storeVars>>

Request(r) ==
  \/ Begin(r) \/ StatTokens(r) \/ Enter(r) \/ LoadCatalog(r) \/ LoadTokens(r)
  \/ End(r)

SubsNext == Console \/ \E r \in Requests : Request(r)

SubsSpec == SubsInit /\ [][SubsNext]_allVars

-----------------------------------------------------------------------------
(***************************************************************************)
(* Properties.                                                             *)
(***************************************************************************)

\* From the moment a handler tells that a reset, a revocation or a deletion is
\* done ("the old address no longer works"), no request that begins then is
\* served by an address it replaced, whichever thread loaded the files last.
OldAddressIsGone ==
  \A r \in Requests : rpc[r] = "answer" =>
    \A u \in Users : answer[r].tokens[u] = 0 \/ answer[r].tokens[u] >= saidBefore[r][u]

\* While the files stay as they are, a request is answered from just these files,
\* also when a slow thread noted an old stamp in between; and it is refused only when
\* the files did not fit at some moment of it: the request after one that fell
\* between the two writes loads the complete pair.
ServesWhatIsThere ==
  \A r \in Requests : rpc[r] = "answer" =>
    /\ answer[r].ok = "no" => r \in broken
    /\ r \notin touched \cup broken => answer[r] = Served(tokensFile, catalogFile)
=============================================================================
