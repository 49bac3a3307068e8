---------------------------- MODULE PublishProofs ----------------------------
(***************************************************************************)
(* Proofs about Publish, and about SubsStore, which extends it, for any    *)
(* users and any bounds.                                                   *)
(***************************************************************************)
EXTENDS SubsStore, TLAPS

-----------------------------------------------------------------------------
(***************************************************************************)
(* The inductive invariant behind SaidHolds.                               *)
(***************************************************************************)

\* No token that a change at hand, or a reported one, replaced.
Good(tokens, first) == \A u \in Users : tokens[u] = 0 \/ tokens[u] >= first[u]

NumbersGrow ==
  \A u \in Users :
    /\ token[u] <= lastToken[u]
    /\ said[u] <= lastToken[u] + 1
    /\ \A p \in Publishers : mine[p][u] <= lastToken[u] + 1

DatabaseIsGood == Good(token, said) /\ \A p \in Publishers : Good(token, mine[p])

\* Whoever reads or writes holds the lock.
LockIsHeld ==
  \A p \in Publishers : pc[p] \notin {"idle", "lock"} <=> holder = p

\* What was read for a publish was read after its change was committed.
ViewIsGood ==
  \A p \in Publishers :
    /\ pc[p] \in {"active", "first", "second"} =>
         Good(view[p].tokens, said) /\ Good(view[p].tokens, mine[p])
    /\ pc[p] = "second" => tokensFile = view[p].tokens

PublishIInv ==
  TypeOK /\ NumbersGrow /\ DatabaseIsGood /\ LockIsHeld /\ ViewIsGood /\ SaidHolds

(***************************************************************************)
(* The inductive invariant behind FilesFollow.                             *)
(***************************************************************************)

\* Somebody waits for the lock; all that was committed is still to be read.
Waiting == \E p \in Publishers : pc[p] = "lock"

\* What p has read is what the database holds now.
Fresh(p) ==
  /\ pc[p] \in {"node", "tokens", "active", "first", "second"} => view[p].creds = cred
  /\ pc[p] = "active" => view[p].tokens = token
  /\ pc[p] \in {"first", "second"} => view[p].tokens = Live

\* The watcher published today, or will have once its publish at hand is done.
DayIsKnown(p) == published.day = day \/ (p = "watcher" /\ looked.day = day)

DaysPassed == published.day <= day /\ looked.day <= day

\* A change falls into a publish only when its own handler waits for the lock, unless
\* one of the two stopped or the day changed.
Follows ==
  /\ owed = "no" /\ holder # "nobody" => covers = "yes"
  /\ ~Waiting /\ covers = "yes" =>
       \A p \in Publishers : holder = p /\ DayIsKnown(p) => Fresh(p)
  /\ ~Waiting /\ holder = "nobody" /\ owed = "no" /\ published.day = day => Current

FollowIInv == PublishIInv /\ DaysPassed /\ Follows

-----------------------------------------------------------------------------
(***************************************************************************)
(* The inductive invariant behind OldAddressIsGone.                        *)
(***************************************************************************)

\* What is loaded under the stamp of the present catalog is good now; under the
\* stamp a request took, it was good when the request began.
StampsAreOld ==
  /\ loadedAt.catalog <= catalogAt
  /\ \A r \in Requests : stamp[r].catalog <= catalogAt

RequestsCame ==
  \A r \in Requests : \A u \in Users : saidBefore[r][u] <= said[u]

LoadedIsGood ==
  storeLock = "nobody" =>
    /\ loadedAt.catalog = catalogAt => Good(loaded.tokens, said)
    /\ \A r \in Requests :
         rpc[r] \in {"stat", "lock"} /\ stamp[r].catalog = loadedAt.catalog =>
           Good(loaded.tokens, saidBefore[r])

Loading ==
  \A r \in Requests : rpc[r] \in {"load", "tokens"} <=> storeLock = r

SubsIInv ==
  /\ PublishIInv /\ StoreTypeOK /\ StampsAreOld /\ RequestsCame
  /\ LoadedIsGood /\ Loading /\ OldAddressIsGone

(***************************************************************************)
(* The inductive invariant behind ServesWhatIsThere.                       *)
(***************************************************************************)
Content(tokens, users) == IF Fits(tokens, users) THEN Served(tokens, users) ELSE Refusal

NowAt == [catalog |-> catalogAt, tokens |-> tokensAt]

\* What a stamp of the present files stands for is there.
StampsAreNow ==
  /\ loadedAt.tokens <= tokensAt
  /\ \A r \in Requests :
       /\ stamp[r].tokens <= tokensAt
       /\ rpc[r] # "idle" /\ r \notin touched => stamp[r].catalog = catalogAt
       /\ rpc[r] \notin {"idle", "stat"} /\ r \notin touched => stamp[r] = NowAt
       /\ rpc[r] \in {"load", "tokens"} => loadedAt = stamp[r]
  /\ storeLock = "nobody" /\ loadedAt = NowAt => loaded = Content(tokensFile, catalogFile)

\* Both documents are about the same users.
SameUsers(users, others) == \A u \in Users : users[u] = NoUser <=> others[u] = NoUser

OpenedIsThere ==
  \A q \in Requests : rpc[q] = "tokens" =>
    /\ loadedAt.catalog = catalogAt => opened = catalogFile
    /\ \A r \in Active \ broken :
         stamp[r].catalog = loadedAt.catalog => SameUsers(opened, catalogFile)

\* As long as a request sees files that fit, each write leaves the users the same: a
\* catalog and a token table read at different times of it fit too.
UnbrokenFits == Active \ broken # {} => Fits(tokensFile, catalogFile)

\* A refusal does not reach a request that saw fitting files only.
RefusalIsOld ==
  storeLock = "nobody" /\ loaded.ok = "no" =>
    \A r \in Requests \ broken : stamp[r].catalog = loadedAt.catalog =>
      /\ rpc[r] = "stat" => loadedAt.tokens < tokensAt
      /\ rpc[r] = "lock" => stamp[r].tokens # loadedAt.tokens

ServeIInv ==
  /\ SubsIInv /\ StampsAreNow /\ OpenedIsThere /\ UnbrokenFits /\ RefusalIsOld
  /\ ServesWhatIsThere

USE PublishAssumption

\* What the helpers return.
LEMMA BuildType ==
  ASSUME NEW tokens \in Tokens, NEW creds \in Tokens, NEW node
  PROVE  Build(tokens, creds, node) \in Catalog
BY DEF Build, Tokens, Catalog

LEMMA LaterType ==
  ASSUME NEW s \in Tokens, NEW t \in Tokens
  PROVE  Later(s, t) \in Tokens
BY DEF Later, Tokens

LEMMA NoneType == None \in Tokens /\ Unread \in View /\ NotYet \in Watched
<1>1. None \in Tokens
  BY DEF None, Tokens
<1> QED
  BY <1>1 DEF Unread, View, NotYet, Watched

LEMMA FromType ==
  ASSUME NEW u \in Users, NEW t \in Nat
  PROVE  From(u, t) \in Tokens
BY DEF From, None, Tokens

-----------------------------------------------------------------------------
\* The initial state has the types.
LEMMA TypeInit == Init => TypeOK
<1> SUFFICES ASSUME Init PROVE TypeOK
  OBVIOUS
<1>1. token \in Tokens /\ lastToken \in Tokens /\ cred \in Tokens
  BY DEF Init, Tokens
<1>2. Live \in Tokens
  BY <1>1 DEF Live, Tokens
<1>3. tokensFile \in Tokens /\ catalogFile \in Catalog
  BY <1>1, <1>2, BuildType DEF Init
<1> QED
  BY <1>1, <1>3, NoneType DEF Init, TypeOK

\* A handler's change and the way to its publish.
LEMMA CommitType ==
  ASSUME TypeOK, NEW p \in Handlers, NEW good \in Tokens, Commit(p, good),
         token' \in Tokens, lastToken' \in Tokens, cred' \in Tokens,
         on' \in SUBSET Users
  PROVE  TypeOK'
<1>1. /\ pc' = [pc EXCEPT ![p] = "lock"]
      /\ mine' = [mine EXCEPT ![p] = good]
      /\ UNCHANGED <<running, registry, day, past, holder, view, looked, published,
                     tokensFile, catalogFile, said, owed, covers, fails>>
      /\ changes' = changes + 1
  BY DEF Commit, Bounded, worldVars, watchVars, fileVars, tellVars
<1>2. p \in Publishers
  BY DEF Publishers
<1>3. mine' \in [Publishers -> Tokens]
  BY <1>1, <1>2 DEF TypeOK
<1>4. pc' \in [Publishers -> {"idle", "lock", "creds", "node", "tokens", "active",
                              "first", "second"}]
  BY <1>1, <1>2 DEF TypeOK
<1> QED
  BY <1>1, <1>3, <1>4 DEF TypeOK

\* Every change of a handler keeps the types.
LEMMA HandlerType ==
  ASSUME TypeOK, NEW p \in Handlers, Handler(p)
  PROVE  TypeOK'
<1> PICK u \in Users :
      \/ IssueToken(p, u) \/ RotateToken(p, u) \/ RevokeToken(p, u)
      \/ SetStatus(p, u) \/ DeleteUser(p, u)
  BY DEF Handler
<1>6. /\ token \in Tokens /\ lastToken \in Tokens /\ cred \in Tokens /\ on \in SUBSET Users
      /\ lastToken[u] + 1 \in Nat
  BY DEF TypeOK, Tokens
<1>0. /\ token \in Tokens /\ lastToken \in Tokens /\ cred \in Tokens /\ on \in SUBSET Users
      /\ None \in Tokens /\ From(u, lastToken[u] + 1) \in Tokens
  BY <1>6, NoneType, FromType
<1>1. CASE IssueToken(p, u)
  <2>1. token' \in Tokens /\ lastToken' \in Tokens
    BY <1>0, <1>1 DEF IssueToken, Tokens
  <2>2. cred' = cred /\ on' = on /\ Commit(p, None)
    BY <1>1 DEF IssueToken
  <2> QED
    BY <1>0, <2>1, <2>2, CommitType
<1>2. CASE RotateToken(p, u)
  <2>1. token' \in Tokens /\ lastToken' \in Tokens /\ cred' \in Tokens
    BY <1>0, <1>2 DEF RotateToken, Tokens
  <2>2. on' = on /\ Commit(p, From(u, lastToken[u] + 1))
    BY <1>2 DEF RotateToken
  <2> QED
    BY <1>0, <2>1, <2>2, CommitType
<1>3. CASE RevokeToken(p, u)
  <2>1. token' \in Tokens
    BY <1>0, <1>3 DEF RevokeToken, Tokens
  <2>2. lastToken' = lastToken /\ cred' = cred /\ on' = on
        /\ Commit(p, From(u, lastToken[u] + 1))
    BY <1>3 DEF RevokeToken
  <2> QED
    BY <1>0, <2>1, <2>2, CommitType
<1>4. CASE SetStatus(p, u)
  <2>1. on' \in SUBSET Users
    BY <1>0, <1>4 DEF SetStatus
  <2>2. lastToken' = lastToken /\ cred' = cred /\ token' = token /\ Commit(p, None)
    BY <1>4 DEF SetStatus
  <2> QED
    BY <1>0, <2>1, <2>2, CommitType
<1>5. CASE DeleteUser(p, u)
  <2>1. token' \in Tokens /\ on' \in SUBSET Users
    BY <1>0, <1>5 DEF DeleteUser, Tokens
  <2>2. lastToken' = lastToken /\ cred' = cred /\ Commit(p, From(u, lastToken[u] + 1))
    BY <1>5 DEF DeleteUser
  <2> QED
    BY <1>0, <2>1, <2>2, CommitType
<1> QED
  BY <1>1, <1>2, <1>3, <1>4, <1>5

\* A publish moves on from one read to the next.
LEMMA ReadType ==
  ASSUME TypeOK, NEW p \in Publishers, NEW from, NEW v \in View,
         NEW to \in {"node", "tokens", "active", "first"},
         Read(p, from, to), view' = [view EXCEPT ![p] = v]
  PROVE  TypeOK'
<1>1. /\ pc' = [pc EXCEPT ![p] = to]
      /\ UNCHANGED <<token, lastToken, cred, on, running, registry, day, past, holder,
                     mine, looked, published, tokensFile, catalogFile, said, owed,
                     covers, changes, fails>>
  BY DEF Read, dbVars, worldVars, watchVars, fileVars, tellVars, bounds
<1>2. view' \in [Publishers -> View]
  BY DEF TypeOK
<1>3. pc' \in [Publishers -> {"idle", "lock", "creds", "node", "tokens", "active",
                              "first", "second"}]
  BY <1>1 DEF TypeOK
<1> QED
  BY <1>1, <1>2, <1>3 DEF TypeOK

\* A publish ends.
LEMMA FinishType ==
  ASSUME TypeOK, NEW p \in Publishers, Finish(p),
         tokensFile' \in Tokens, catalogFile' \in Catalog, said' \in Tokens,
         owed' \in {"yes", "no"}, covers' \in {"yes", "no"},
         changes' \in Nat, fails' \in Nat
  PROVE  TypeOK'
<1>1. /\ pc' = [pc EXCEPT ![p] = "idle"]
      /\ holder' = "nobody"
      /\ published' = IF p = "watcher" THEN looked ELSE published
      /\ view' = [view EXCEPT ![p] = Unread]
      /\ mine' = [mine EXCEPT ![p] = None]
      /\ looked' = IF p = "watcher" THEN NotYet ELSE looked
      /\ UNCHANGED <<token, lastToken, cred, on, running, registry, day, past>>
  BY DEF Finish, dbVars, worldVars
<1>2. view' \in [Publishers -> View] /\ mine' \in [Publishers -> Tokens]
  BY <1>1, NoneType DEF TypeOK
<1>3. looked' \in Watched /\ published' \in Watched
  BY <1>1, NoneType DEF TypeOK
<1>4. pc' \in [Publishers -> {"idle", "lock", "creds", "node", "tokens", "active",
                              "first", "second"}]
  BY <1>1 DEF TypeOK
<1> QED
  BY <1>1, <1>2, <1>3, <1>4 DEF TypeOK

\* Every step of a publish keeps the types.
LEMMA StepType ==
  ASSUME TypeOK, NEW p \in Publishers, Step(p) \/ WriteFails(p)
  PROVE  TypeOK'
<1>0. /\ view[p] \in View /\ cred \in Tokens /\ token \in Tokens
      /\ registry.there \in {"yes", "no"} /\ running \in SUBSET Users
      /\ said \in Tokens /\ mine[p] \in Tokens /\ on \in SUBSET Users
  BY DEF TypeOK
<1>9. /\ view[p].creds \in Tokens /\ view[p].tokens \in Tokens
      /\ view[p].there \in {"yes", "no"} /\ view[p].node \in SUBSET Users
  BY <1>0 DEF View
<1>1. CASE Lock(p)
  <2>1. /\ holder' = p /\ pc' = [pc EXCEPT ![p] = "creds"] /\ covers' = "yes"
        /\ UNCHANGED <<token, lastToken, cred, on, running, registry, day, past, view,
                       mine, looked, published, tokensFile, catalogFile, said, owed,
                       changes, fails>>
    BY <1>1 DEF Lock, dbVars, worldVars, watchVars, fileVars, bounds
  <2>2. pc' \in [Publishers -> {"idle", "lock", "creds", "node", "tokens", "active",
                                "first", "second"}]
    BY <2>1 DEF TypeOK
  <2> QED
    BY <2>1, <2>2 DEF TypeOK
<1>2. CASE ReadCreds(p)
  <2> DEFINE v == [there |-> registry.there, creds |-> cred, node |-> {}, tokens |-> None]
  <2>1. v \in View
    BY <1>0, NoneType DEF View
  <2>2. Read(p, "creds", "node") /\ view' = [view EXCEPT ![p] = v]
    BY <1>2 DEF ReadCreds
  <2> QED
    BY <2>1, <2>2, ReadType
<1>3. CASE ReadNode(p)
  <2> DEFINE v == [there |-> view[p].there, creds |-> view[p].creds, node |-> running,
                   tokens |-> None]
  <2>1. v \in View
    BY <1>0, <1>9, NoneType DEF View
  <2>2. Read(p, "node", "tokens") /\ view' = [view EXCEPT ![p] = v]
    BY <1>3 DEF ReadNode, TypeOK
  <2> QED
    BY <2>1, <2>2, ReadType
<1>4. CASE ReadTokens(p)
  <2> DEFINE v == [there |-> view[p].there, creds |-> view[p].creds,
                   node |-> view[p].node, tokens |-> token]
  <2>1. v \in View
    BY <1>0, <1>9 DEF View
  <2>2. Read(p, "tokens", "active") /\ view' = [view EXCEPT ![p] = v]
    BY <1>4 DEF ReadTokens, TypeOK
  <2> QED
    BY <2>1, <2>2, ReadType
<1>5. CASE ReadActive(p)
  <2> DEFINE v == [there |-> view[p].there, creds |-> view[p].creds,
                   node |-> view[p].node, tokens |-> OnlyActive(view[p].tokens)]
  <2>1. OnlyActive(view[p].tokens) \in Tokens
    BY <1>9 DEF OnlyActive, Tokens
  <2>2. v \in View
    BY <1>9, <2>1 DEF View
  <2>3. Read(p, "active", "first") /\ view' = [view EXCEPT ![p] = v]
    BY <1>5 DEF ReadActive, TypeOK
  <2> QED
    BY <2>2, <2>3, ReadType
<1>6. CASE NodeMissing(p)
  BY <1>6, FinishType DEF NodeMissing, fileVars, bounds, TypeOK
<1>7. CASE WriteTokens(p)
  <2>1. /\ tokensFile' = view[p].tokens
        /\ pc' = [pc EXCEPT ![p] = "second"]
        /\ UNCHANGED <<token, lastToken, cred, on, running, registry, day, past, holder,
                       view, mine, looked, published, catalogFile, said, owed, covers,
                       changes, fails>>
    BY <1>7 DEF WriteTokens, dbVars, worldVars, watchVars, tellVars, bounds
  <2>2. pc' \in [Publishers -> {"idle", "lock", "creds", "node", "tokens", "active",
                                "first", "second"}]
    BY <2>1 DEF TypeOK
  <2> QED
    BY <1>9, <2>1, <2>2 DEF TypeOK
<1>8. CASE WriteCatalog(p)
  <2>1. catalogFile' \in Catalog
    BY <1>8, <1>9, BuildType DEF WriteCatalog
  <2>2. said' \in Tokens
    BY <1>0, <1>8, LaterType DEF WriteCatalog
  <2> QED
    BY <1>8, <2>1, <2>2, FinishType DEF WriteCatalog, bounds, TypeOK
<1>10. CASE WriteFails(p)
  BY <1>10, FinishType DEF WriteFails, Failure, fileVars, TypeOK
<1> QED
  BY <1>1, <1>2, <1>3, <1>4, <1>5, <1>6, <1>7, <1>8, <1>10 DEF Step

\* Every step keeps the types.
LEMMA TypeStep == TypeOK /\ [PublishNext]_vars => TypeOK'
<1> SUFFICES ASSUME TypeOK, [PublishNext]_vars PROVE TypeOK'
  OBVIOUS
<1>1. CASE \E p \in Handlers : Handler(p)
  BY <1>1, HandlerType
<1>2. CASE PublishNow
  BY <1>2, CommitType, NoneType DEF PublishNow, dbVars, Handlers, TypeOK
<1>3. CASE NewDay
  BY <1>3 DEF NewDay, Bounded, TypeOK, watchVars, fileVars, tellVars
<1>4. CASE NodeReports
  BY <1>4 DEF NodeReports, Bounded, TypeOK, dbVars, watchVars, fileVars, tellVars
<1>5. CASE Register
  <2>1. registry' \in [there : {"yes", "no"}, stamp : Nat \ {0}]
    BY <1>5 DEF Register, TypeOK
  <2> QED
    BY <1>5, <2>1 DEF Register, Bounded, TypeOK, dbVars, watchVars, fileVars, tellVars
<1>6. CASE WatcherTick
  <2>1. Now \in Watched
    BY DEF Now, Watched, TypeOK
  <2>2. "watcher" \in Publishers
    BY DEF Publishers
  <2>3. pc' \in [Publishers -> {"idle", "lock", "creds", "node", "tokens", "active",
                                "first", "second"}]
    BY <1>6, <2>2 DEF WatcherTick, TypeOK
  <2> QED
    BY <1>6, <2>1, <2>3 DEF WatcherTick, TypeOK, dbVars, worldVars, fileVars, tellVars, bounds
<1>7. CASE \E p \in Publishers : Step(p) \/ WriteFails(p)
  BY <1>7, StepType
<1>8. CASE ConsoleStops
  <2>1. /\ pc' = [p \in Publishers |-> IF p = "bot" THEN pc[p] ELSE "idle"]
        /\ view' = [p \in Publishers |-> IF p = "bot" THEN view[p] ELSE Unread]
        /\ mine' = [p \in Publishers |-> IF p = "bot" THEN mine[p] ELSE None]
        /\ holder' \in {"bot", "nobody"}
    BY <1>8 DEF ConsoleStops
  <2>2. /\ looked' = NotYet /\ published' = NotYet
        /\ owed' = "yes" /\ covers' = "no" /\ fails' = fails + 1
        /\ UNCHANGED <<token, lastToken, cred, on, running, registry, day, past,
                       tokensFile, catalogFile, said, changes>>
    BY <1>8 DEF ConsoleStops, Failure, dbVars, worldVars, fileVars
  <2>3. /\ pc' \in [Publishers -> {"idle", "lock", "creds", "node", "tokens", "active",
                                   "first", "second"}]
        /\ view' \in [Publishers -> View]
        /\ mine' \in [Publishers -> Tokens]
        /\ holder' \in Publishers \cup {"nobody"}
    BY <2>1, NoneType DEF TypeOK, Publishers, Handlers
  <2> QED
    BY <2>2, <2>3, NoneType DEF TypeOK
<1>9. CASE BotStops
  <2>1. /\ pc' = [pc EXCEPT !["bot"] = "idle"]
        /\ view' = [view EXCEPT !["bot"] = Unread]
        /\ mine' = [mine EXCEPT !["bot"] = None]
        /\ holder' = IF holder = "bot" THEN "nobody" ELSE holder
        /\ owed' = "yes" /\ covers' = "no" /\ fails' = fails + 1
        /\ UNCHANGED <<token, lastToken, cred, on, running, registry, day, past,
                       looked, published, tokensFile, catalogFile, said, changes>>
    BY <1>9 DEF BotStops, Failure, dbVars, worldVars, watchVars, fileVars
  <2>2. /\ pc' \in [Publishers -> {"idle", "lock", "creds", "node", "tokens", "active",
                                   "first", "second"}]
        /\ view' \in [Publishers -> View]
        /\ mine' \in [Publishers -> Tokens]
    BY <2>1, NoneType DEF TypeOK, Publishers, Handlers
  <2> QED
    BY <2>1, <2>2 DEF TypeOK
<1>10. CASE UNCHANGED vars
  BY <1>10 DEF vars, dbVars, worldVars, watchVars, fileVars, tellVars, bounds, TypeOK
<1> QED
  BY <1>1, <1>2, <1>3, <1>4, <1>5, <1>6, <1>7, <1>8, <1>9, <1>10 DEF PublishNext, World

-----------------------------------------------------------------------------
(***************************************************************************)
(* The inductive invariant.                                                *)
(***************************************************************************)

\* Tokens good for two marks are good for the later one of each user.
LEMMA GoodLater ==
  ASSUME NEW tokens \in Tokens, NEW s \in Tokens, NEW t \in Tokens,
         Good(tokens, s), Good(tokens, t)
  PROVE  Good(tokens, Later(s, t))
BY DEF Good, Later, Tokens

LEMMA GoodNone == ASSUME NEW tokens \in Tokens PROVE Good(tokens, None)
BY DEF Good, None, Tokens

\* Leaving out the inactive users' tokens keeps the others good.
LEMMA GoodActive ==
  ASSUME NEW tokens \in Tokens, NEW first \in Tokens, Good(tokens, first)
  PROVE  Good(OnlyActive(tokens), first)
BY DEF Good, OnlyActive, Tokens

LEMMA InvInit == Init => PublishIInv
<1> SUFFICES ASSUME Init PROVE PublishIInv
  OBVIOUS
<1>1. TypeOK
  BY TypeInit
<1>6. \A u \in Users :
        /\ token[u] = 1 /\ lastToken[u] = 1 /\ said[u] = 0
        /\ \A p \in Publishers : mine[p][u] = 0
  <2>1. token = [u \in Users |-> 1] /\ lastToken = [u \in Users |-> 1]
    BY DEF Init
  <2>2. said = None /\ mine = [p \in Publishers |-> None]
    BY DEF Init
  <2> QED
    BY <2>1, <2>2 DEF None
<1>2. NumbersGrow
  <2>1. ASSUME NEW u \in Users
        PROVE  /\ token[u] <= lastToken[u] /\ said[u] <= lastToken[u] + 1
               /\ \A p \in Publishers : mine[p][u] <= lastToken[u] + 1
    <3>1. token[u] = 1 /\ lastToken[u] = 1 /\ said[u] = 0
      BY <1>6
    <3>2. \A p \in Publishers : mine[p][u] = 0
      BY <1>6
    <3> QED
      BY <3>1, <3>2
  <2> QED
    BY <2>1 DEF NumbersGrow
<1>3. DatabaseIsGood
  BY <1>6 DEF DatabaseIsGood, Good
<1>4. LockIsHeld /\ ViewIsGood
  BY DEF Init, LockIsHeld, ViewIsGood, Publishers, Handlers
<1>5. SaidHolds
  <2>1. tokensFile = [u \in Users |-> IF u \in on THEN token[u] ELSE 0]
    BY DEF Init, Live
  <2>2. ASSUME NEW u \in Users PROVE tokensFile[u] = 0 \/ tokensFile[u] >= said[u]
    <3>1. token[u] = 1 /\ said[u] = 0
      BY <1>6
    <3>2. tokensFile[u] = 0 \/ tokensFile[u] = 1
      BY <2>1, <3>1
    <3> QED
      BY <3>1, <3>2
  <2> QED
    BY <2>2 DEF SaidHolds
<1> QED
  BY <1>1, <1>2, <1>3, <1>4, <1>5 DEF PublishIInv

\* A change brings in no token but a new one, and its mark is at most that one.
LEMMA CommitInv ==
  ASSUME PublishIInv, TypeOK', NEW p \in Handlers, NEW u \in Users,
         NEW good \in Tokens, Commit(p, good),
         \A v \in Users : /\ token'[v] <= lastToken'[v]
                          /\ lastToken[v] <= lastToken'[v]
                          /\ token'[v] \in {0, token[v], lastToken[v] + 1},
         \/ good = None
         \/ good = From(u, lastToken[u] + 1) /\ token'[u] \in {0, lastToken[u] + 1}
  PROVE  PublishIInv'
<1>1. /\ pc[p] = "idle" /\ pc' = [pc EXCEPT ![p] = "lock"]
      /\ mine' = [mine EXCEPT ![p] = good]
      /\ UNCHANGED <<holder, view, tokensFile, said>>
  BY DEF Commit, fileVars, tellVars
<1>2. /\ p \in Publishers /\ token \in Tokens /\ lastToken \in Tokens
      /\ token' \in Tokens /\ lastToken' \in Tokens /\ said \in Tokens
      /\ mine \in [Publishers -> Tokens] /\ DOMAIN pc = Publishers
      /\ pc = [q \in Publishers |-> pc[q]]
  BY DEF PublishIInv, TypeOK, Publishers
<1>3. \A v \in Users :
        /\ good[v] <= lastToken[v] + 1
        /\ token'[v] = 0 \/ token'[v] >= good[v]
  BY <1>2 DEF None, From, Tokens
<1>4. NumbersGrow'
  BY <1>1, <1>2, <1>3 DEF PublishIInv, NumbersGrow, Tokens
<1>5. DatabaseIsGood'
  <2>1. Good(token', said)
    BY <1>2 DEF PublishIInv, DatabaseIsGood, NumbersGrow, Good, Tokens
  <2>2. ASSUME NEW q \in Publishers PROVE Good(token', mine'[q])
    <3>1. CASE q = p
      BY <1>1, <1>2, <1>3, <3>1 DEF Good
    <3>2. CASE q # p
      <4>1. mine'[q] = mine[q]
        BY <1>1, <1>2, <3>2
      <4> QED
        BY <1>2, <4>1 DEF PublishIInv, DatabaseIsGood, NumbersGrow, Good, Tokens
    <3> QED
      BY <3>1, <3>2
  <2> QED
    BY <1>1, <2>1, <2>2 DEF DatabaseIsGood, Good
<1>6. LockIsHeld'
  BY <1>1, <1>2 DEF PublishIInv, LockIsHeld
<1>7. ViewIsGood'
  <2>1. ASSUME NEW q \in Publishers, pc'[q] \in {"active", "first", "second"}
        PROVE  q # p /\ pc'[q] = pc[q] /\ mine'[q] = mine[q]
    BY <1>1, <1>2, <2>1
  <2> QED
    BY <1>1, <2>1 DEF PublishIInv, ViewIsGood, Good
<1>8. SaidHolds'
  BY <1>1 DEF PublishIInv, SaidHolds
<1> QED
  BY <1>4, <1>5, <1>6, <1>7, <1>8 DEF PublishIInv

LEMMA HandlerInv ==
  ASSUME PublishIInv, TypeOK', NEW p \in Handlers, Handler(p)
  PROVE  PublishIInv'
<1> PICK u \in Users :
      \/ IssueToken(p, u) \/ RotateToken(p, u) \/ RevokeToken(p, u)
      \/ SetStatus(p, u) \/ DeleteUser(p, u)
  BY DEF Handler
<1>1. token \in Tokens /\ lastToken \in Tokens /\ \A v \in Users : token[v] <= lastToken[v]
  BY DEF PublishIInv, TypeOK, NumbersGrow
<1>2. None \in Tokens /\ From(u, lastToken[u] + 1) \in Tokens
  <2>1. lastToken[u] + 1 \in Nat
    BY <1>1 DEF Tokens
  <2> QED
    BY <2>1, NoneType, FromType
<1>3. ASSUME token' = [token EXCEPT ![u] = lastToken[u] + 1],
             lastToken' = [lastToken EXCEPT ![u] = lastToken[u] + 1]
      PROVE  /\ \A v \in Users : /\ token'[v] <= lastToken'[v]
                                 /\ lastToken[v] <= lastToken'[v]
                                 /\ token'[v] \in {0, token[v], lastToken[v] + 1}
             /\ token'[u] \in {0, lastToken[u] + 1}
  BY <1>1, <1>3 DEF Tokens
<1>4. ASSUME token' = [token EXCEPT ![u] = 0], lastToken' = lastToken
      PROVE  /\ \A v \in Users : /\ token'[v] <= lastToken'[v]
                                 /\ lastToken[v] <= lastToken'[v]
                                 /\ token'[v] \in {0, token[v], lastToken[v] + 1}
             /\ token'[u] \in {0, lastToken[u] + 1}
  BY <1>1, <1>4 DEF Tokens
<1>5. ASSUME token' = token, lastToken' = lastToken
      PROVE  \A v \in Users : /\ token'[v] <= lastToken'[v]
                              /\ lastToken[v] <= lastToken'[v]
                              /\ token'[v] \in {0, token[v], lastToken[v] + 1}
  BY <1>1, <1>5 DEF Tokens
<1>6. CASE IssueToken(p, u)
  <2>1. /\ token' = [token EXCEPT ![u] = lastToken[u] + 1]
        /\ lastToken' = [lastToken EXCEPT ![u] = lastToken[u] + 1]
        /\ Commit(p, None)
    BY <1>6 DEF IssueToken
  <2> QED
    BY <1>2, <1>3, <2>1, CommitInv
<1>7. CASE RotateToken(p, u)
  <2>1. /\ token' = [token EXCEPT ![u] = lastToken[u] + 1]
        /\ lastToken' = [lastToken EXCEPT ![u] = lastToken[u] + 1]
        /\ Commit(p, From(u, lastToken[u] + 1))
    BY <1>7 DEF RotateToken
  <2> QED
    BY <1>2, <1>3, <2>1, CommitInv
<1>8. CASE RevokeToken(p, u) \/ DeleteUser(p, u)
  <2>1. /\ token' = [token EXCEPT ![u] = 0] /\ lastToken' = lastToken
        /\ Commit(p, From(u, lastToken[u] + 1))
    BY <1>8 DEF RevokeToken, DeleteUser
  <2> QED
    BY <1>2, <1>4, <2>1, CommitInv
<1>9. CASE SetStatus(p, u)
  <2>1. token' = token /\ lastToken' = lastToken /\ Commit(p, None)
    BY <1>9 DEF SetStatus
  <2> QED
    BY <1>2, <1>5, <2>1, CommitInv
<1> QED
  BY <1>6, <1>7, <1>8, <1>9

\* A step that touches neither the tokens nor the file, nor what a publish read.
LEMMA KeepInv ==
  ASSUME PublishIInv, TypeOK', UNCHANGED <<token, lastToken, said, tokensFile>>,
         \A q \in Publishers :
           /\ pc'[q] \notin {"idle", "lock"} <=> holder' = q
           /\ mine'[q] \in {mine[q], None}
           /\ pc'[q] \in {"active", "first", "second"} =>
                pc'[q] = pc[q] /\ view'[q] = view[q]
  PROVE  PublishIInv'
<1>1. token \in Tokens /\ lastToken \in Tokens
  BY DEF PublishIInv, TypeOK
<1>2. NumbersGrow'
  <2>1. \A u \in Users : None[u] <= lastToken[u] + 1
    BY <1>1 DEF None, Tokens
  <2> QED
    BY <2>1 DEF PublishIInv, NumbersGrow
<1>3. DatabaseIsGood'
  <2>1. Good(token, None)
    BY <1>1, GoodNone
  <2> QED
    BY <2>1 DEF PublishIInv, DatabaseIsGood, Good
<1>4. LockIsHeld'
  BY DEF LockIsHeld
<1>5. ViewIsGood'
  <2>1. ASSUME NEW q \in Publishers, pc'[q] \in {"active", "first", "second"}
        PROVE  /\ Good(view'[q].tokens, said) /\ Good(view'[q].tokens, mine'[q])
               /\ pc'[q] = "second" => tokensFile = view'[q].tokens
    <3>1. /\ pc[q] \in {"active", "first", "second"} /\ pc'[q] = pc[q]
          /\ view'[q] = view[q] /\ mine'[q] \in {mine[q], None}
      BY <2>1
    <3>2. Good(view[q].tokens, said) /\ Good(view[q].tokens, mine[q])
      BY <3>1 DEF PublishIInv, ViewIsGood
    <3>3. view[q].tokens \in Tokens
      BY DEF PublishIInv, TypeOK, View
    <3>4. Good(view[q].tokens, None)
      BY <3>3, GoodNone
    <3>5. pc[q] = "second" => tokensFile = view[q].tokens
      BY DEF PublishIInv, ViewIsGood
    <3> QED
      BY <3>1, <3>2, <3>4, <3>5
  <2> QED
    BY <2>1 DEF ViewIsGood, Good
<1>6. SaidHolds'
  BY DEF PublishIInv, SaidHolds
<1> QED
  BY <1>2, <1>3, <1>4, <1>5, <1>6 DEF PublishIInv

\* A publish reads: what it has read is good as soon as it has the tokens.
LEMMA ReadInv ==
  ASSUME PublishIInv, TypeOK', NEW p \in Publishers, NEW v \in View,
         NEW from \in {"creds", "node", "tokens", "active"},
         NEW to \in {"node", "tokens", "active", "first"},
         Read(p, from, to), view' = [view EXCEPT ![p] = v],
         to \in {"active", "first"} => Good(v.tokens, said) /\ Good(v.tokens, mine[p])
  PROVE  PublishIInv'
<1>1. /\ pc[p] = from /\ pc' = [pc EXCEPT ![p] = to]
      /\ UNCHANGED <<token, lastToken, holder, mine, tokensFile, said>>
  BY DEF Read, dbVars, fileVars, tellVars
<1>2. /\ DOMAIN pc = Publishers /\ DOMAIN view = Publishers
      /\ pc'[p] = to /\ view'[p] = v
      /\ \A q \in Publishers \ {p} : pc'[q] = pc[q] /\ view'[q] = view[q]
  BY <1>1 DEF PublishIInv, TypeOK
<1>3. LockIsHeld'
  BY <1>1, <1>2 DEF PublishIInv, LockIsHeld
<1>4. ViewIsGood'
  <2>1. ASSUME NEW q \in Publishers, pc'[q] \in {"active", "first", "second"}
        PROVE  /\ Good(view'[q].tokens, said) /\ Good(view'[q].tokens, mine[q])
               /\ pc'[q] = "second" => tokensFile = view'[q].tokens
    BY <1>2, <2>1 DEF PublishIInv, ViewIsGood
  <2> QED
    BY <1>1, <2>1 DEF ViewIsGood, Good
<1>5. NumbersGrow' /\ DatabaseIsGood' /\ SaidHolds'
  BY <1>1 DEF PublishIInv, NumbersGrow, DatabaseIsGood, Good, SaidHolds
<1> QED
  BY <1>3, <1>4, <1>5 DEF PublishIInv

\* A publish ends; what it says holds for the file and for the database.
LEMMA FinishInv ==
  ASSUME PublishIInv, TypeOK', NEW p \in Publishers, holder = p, Finish(p),
         tokensFile' = tokensFile,
         \/ said' = said
         \/ said' = Later(said, mine[p]) /\ tokensFile = view[p].tokens /\ pc[p] = "second"
  PROVE  PublishIInv'
<1>1. /\ pc' = [pc EXCEPT ![p] = "idle"] /\ holder' = "nobody"
      /\ mine' = [mine EXCEPT ![p] = None]
      /\ UNCHANGED <<token, lastToken>>
  BY DEF Finish, dbVars
<1>2. /\ token \in Tokens /\ lastToken \in Tokens /\ said \in Tokens
      /\ tokensFile \in Tokens /\ mine[p] \in Tokens
  BY DEF PublishIInv, TypeOK
<1>3. /\ pc'[p] = "idle" /\ mine'[p] = None
      /\ \A q \in Publishers \ {p} : pc'[q] = pc[q] /\ mine'[q] = mine[q]
  BY <1>1 DEF PublishIInv, TypeOK
<1>4. NumbersGrow'
  <2>1. ASSUME NEW u \in Users PROVE said'[u] <= lastToken[u] + 1
    <3>1. said[u] <= lastToken[u] + 1 /\ mine[p][u] <= lastToken[u] + 1
      BY DEF PublishIInv, NumbersGrow
    <3> QED
      BY <3>1 DEF Later
  <2>2. \A u \in Users : None[u] <= lastToken[u] + 1
    BY <1>2 DEF None, Tokens
  <2> QED
    BY <1>1, <1>3, <2>1, <2>2 DEF PublishIInv, NumbersGrow
<1>5. Good(token, said')
  <2>1. Good(token, said) /\ Good(token, mine[p])
    BY DEF PublishIInv, DatabaseIsGood
  <2> QED
    BY <1>2, <2>1, GoodLater
<1>6. DatabaseIsGood'
  <2>1. Good(token, None)
    BY <1>2, GoodNone
  <2> QED
    BY <1>1, <1>3, <1>5, <2>1 DEF PublishIInv, DatabaseIsGood, Good
<1>7. \A q \in Publishers : pc'[q] \in {"idle", "lock"}
  BY <1>3 DEF PublishIInv, LockIsHeld
<1>8. LockIsHeld' /\ ViewIsGood'
  BY <1>1, <1>7 DEF LockIsHeld, ViewIsGood, Publishers, Handlers
<1>9. SaidHolds'
  <2>1. Good(tokensFile, said)
    BY DEF PublishIInv, SaidHolds, Good
  <2>2. said' # said => Good(tokensFile, mine[p])
    BY DEF PublishIInv, ViewIsGood
  <2>3. Good(tokensFile, said')
    BY <1>2, <2>1, <2>2, GoodLater
  <2> QED
    BY <2>3 DEF SaidHolds, Good
<1> QED
  BY <1>4, <1>6, <1>8, <1>9 DEF PublishIInv

\* Every step of a publish keeps the invariant.
LEMMA StepInv ==
  ASSUME PublishIInv, TypeOK', NEW p \in Publishers, Step(p) \/ WriteFails(p)
  PROVE  PublishIInv'
<1>1. /\ view[p] \in View /\ cred \in Tokens /\ token \in Tokens
      /\ registry.there \in {"yes", "no"} /\ running \in SUBSET Users
      /\ said \in Tokens /\ mine[p] \in Tokens
      /\ DOMAIN pc = Publishers /\ DOMAIN view = Publishers
  BY DEF PublishIInv, TypeOK
<1>2. /\ view[p].creds \in Tokens /\ view[p].tokens \in Tokens
      /\ view[p].there \in {"yes", "no"} /\ view[p].node \in SUBSET Users
  BY <1>1 DEF View
<1>3. pc[p] \notin {"idle", "lock"} <=> holder = p
  BY DEF PublishIInv, LockIsHeld
<1>4. CASE Lock(p)
  <2>1. /\ pc[p] = "lock" /\ holder = "nobody" /\ holder' = p
        /\ pc' = [pc EXCEPT ![p] = "creds"]
        /\ UNCHANGED <<token, lastToken, view, mine, tokensFile, said>>
    BY <1>4 DEF Lock, LockIsFree, dbVars, fileVars
  <2>2. ASSUME NEW q \in Publishers
        PROVE  /\ pc'[q] \notin {"idle", "lock"} <=> holder' = q
               /\ pc'[q] \in {"active", "first", "second"} => pc'[q] = pc[q]
    <3>1. pc[q] \in {"idle", "lock"}
      BY <2>1 DEF PublishIInv, LockIsHeld, Publishers, Handlers
    <3>2. pc'[q] = IF q = p THEN "creds" ELSE pc[q]
      BY <1>1, <2>1
    <3> QED
      BY <2>1, <3>1, <3>2
  <2> QED
    BY <2>1, <2>2, KeepInv
<1>5. CASE ReadCreds(p)
  <2> DEFINE v == [there |-> registry.there, creds |-> cred, node |-> {}, tokens |-> None]
  <2>1. v \in View
    BY <1>1, NoneType DEF View
  <2>2. Read(p, "creds", "node") /\ view' = [view EXCEPT ![p] = v]
    BY <1>5 DEF ReadCreds
  <2> QED
    BY <2>1, <2>2, ReadInv
<1>6. CASE ReadNode(p)
  <2> DEFINE v == [there |-> view[p].there, creds |-> view[p].creds, node |-> running,
                   tokens |-> None]
  <2>1. v \in View
    BY <1>1, <1>2, NoneType DEF View
  <2>2. Read(p, "node", "tokens") /\ view' = [view EXCEPT ![p] = v]
    BY <1>1, <1>6 DEF ReadNode
  <2> QED
    BY <2>1, <2>2, ReadInv
<1>7. CASE ReadTokens(p)
  <2> DEFINE v == [there |-> view[p].there, creds |-> view[p].creds,
                   node |-> view[p].node, tokens |-> token]
  <2>1. v \in View
    BY <1>1, <1>2 DEF View
  <2>2. Read(p, "tokens", "active") /\ view' = [view EXCEPT ![p] = v]
    BY <1>1, <1>7 DEF ReadTokens
  <2>3. Good(v.tokens, said) /\ Good(v.tokens, mine[p])
    BY DEF PublishIInv, DatabaseIsGood
  <2> QED
    BY <2>1, <2>2, <2>3, ReadInv
<1>8. CASE ReadActive(p)
  <2> DEFINE v == [there |-> view[p].there, creds |-> view[p].creds,
                   node |-> view[p].node, tokens |-> OnlyActive(view[p].tokens)]
  <2>1. OnlyActive(view[p].tokens) \in Tokens
    BY <1>2 DEF OnlyActive, Tokens
  <2>2. v \in View
    BY <1>2, <2>1 DEF View
  <2>3. Read(p, "active", "first") /\ view' = [view EXCEPT ![p] = v]
    BY <1>1, <1>8 DEF ReadActive
  <2>4. pc[p] = "active"
    BY <2>3 DEF Read
  <2>5. Good(view[p].tokens, said) /\ Good(view[p].tokens, mine[p])
    BY <2>4 DEF PublishIInv, ViewIsGood
  <2>6. Good(v.tokens, said) /\ Good(v.tokens, mine[p])
    BY <1>1, <1>2, <2>5, GoodActive
  <2> QED
    BY <2>2, <2>3, <2>6, ReadInv
<1>9. CASE NodeMissing(p)
  BY <1>3, <1>9, FinishInv DEF NodeMissing, fileVars
<1>10. CASE WriteTokens(p)
  <2>1. /\ pc[p] = "first" /\ tokensFile' = view[p].tokens
        /\ pc' = [pc EXCEPT ![p] = "second"]
        /\ UNCHANGED <<token, lastToken, holder, view, mine, said>>
    BY <1>10 DEF WriteTokens, dbVars, tellVars
  <2>2. /\ pc'[p] = "second"
        /\ \A q \in Publishers \ {p} : pc'[q] = pc[q] /\ pc[q] \in {"idle", "lock"}
    BY <1>1, <1>3, <2>1 DEF PublishIInv, LockIsHeld
  <2>3. Good(view[p].tokens, said) /\ Good(view[p].tokens, mine[p])
    BY <2>1 DEF PublishIInv, ViewIsGood
  <2>4. LockIsHeld'
    BY <1>3, <2>1, <2>2 DEF PublishIInv, LockIsHeld
  <2>5. ViewIsGood'
    <3>1. \A q \in Publishers : pc'[q] \in {"active", "first", "second"} => q = p
      BY <2>2
    <3> QED
      BY <2>1, <2>3, <3>1 DEF ViewIsGood, Good
  <2>6. SaidHolds'
    BY <2>1, <2>3 DEF SaidHolds, Good
  <2>7. NumbersGrow' /\ DatabaseIsGood'
    BY <2>1 DEF PublishIInv, NumbersGrow, DatabaseIsGood, Good
  <2> QED
    BY <2>4, <2>5, <2>6, <2>7 DEF PublishIInv
<1>11. CASE WriteCatalog(p)
  <2>1. /\ pc[p] = "second" /\ Finish(p) /\ tokensFile' = tokensFile
        /\ said' = Later(said, mine[p])
    BY <1>11 DEF WriteCatalog
  <2>2. tokensFile = view[p].tokens
    BY <2>1 DEF PublishIInv, ViewIsGood
  <2> QED
    BY <1>3, <2>1, <2>2, FinishInv
<1>12. CASE WriteFails(p)
  BY <1>3, <1>12, FinishInv DEF WriteFails, fileVars
<1> QED
  BY <1>4, <1>5, <1>6, <1>7, <1>8, <1>9, <1>10, <1>11, <1>12 DEF Step

\* Every step keeps the invariant.
LEMMA InvStep == PublishIInv /\ [PublishNext]_vars => PublishIInv'
<1> SUFFICES ASSUME PublishIInv, [PublishNext]_vars PROVE PublishIInv'
  OBVIOUS
<1>1. TypeOK'
  BY TypeStep DEF PublishIInv
<1>2. /\ DOMAIN pc = Publishers /\ DOMAIN mine = Publishers /\ DOMAIN view = Publishers
      /\ token \in Tokens /\ lastToken \in Tokens
      /\ \A v \in Users : token[v] <= lastToken[v]
  BY DEF PublishIInv, TypeOK, NumbersGrow
<1>3. \A q \in Publishers : pc[q] \notin {"idle", "lock"} <=> holder = q
  BY DEF PublishIInv, LockIsHeld
<1>4. CASE \E p \in Handlers : Handler(p)
  BY <1>1, <1>4, HandlerInv
<1>5. CASE PublishNow
  <2>1. token' = token /\ lastToken' = lastToken /\ Commit("web", None)
    BY <1>5 DEF PublishNow, dbVars
  <2>2. /\ pc["web"] = "idle" /\ pc' = [pc EXCEPT !["web"] = "lock"]
        /\ mine' = [mine EXCEPT !["web"] = None]
        /\ UNCHANGED <<holder, view, tokensFile, said>>
    BY <2>1 DEF Commit, fileVars, tellVars
  <2>3. "web" \in Publishers
    BY DEF Publishers, Handlers
  <2> QED
    BY <1>1, <1>2, <1>3, <2>1, <2>2, <2>3, KeepInv
<1>6. CASE World
  <2>1. UNCHANGED <<token, lastToken, pc, holder, view, mine, tokensFile, said>>
    BY <1>6 DEF World, NewDay, NodeReports, Register, dbVars, fileVars, tellVars
  <2> QED
    BY <1>1, <1>3, <2>1, KeepInv
<1>7. CASE WatcherTick
  <2>1. /\ pc["watcher"] = "idle" /\ pc' = [pc EXCEPT !["watcher"] = "lock"]
        /\ UNCHANGED <<token, lastToken, holder, view, mine, tokensFile, said>>
    BY <1>7 DEF WatcherTick, dbVars, fileVars, tellVars
  <2>2. "watcher" \in Publishers
    BY DEF Publishers
  <2> QED
    BY <1>1, <1>2, <1>3, <2>1, <2>2, KeepInv
<1>8. CASE \E p \in Publishers : Step(p) \/ WriteFails(p)
  BY <1>1, <1>8, StepInv
<1>9. CASE ConsoleStops
  <2>1. /\ pc' = [p \in Publishers |-> IF p = "bot" THEN pc[p] ELSE "idle"]
        /\ view' = [p \in Publishers |-> IF p = "bot" THEN view[p] ELSE Unread]
        /\ mine' = [p \in Publishers |-> IF p = "bot" THEN mine[p] ELSE None]
        /\ holder' = IF holder = "bot" THEN "bot" ELSE "nobody"
        /\ UNCHANGED <<token, lastToken, tokensFile, said>>
    BY <1>9 DEF ConsoleStops, dbVars, fileVars
  <2>2. ASSUME NEW q \in Publishers
        PROVE  /\ pc'[q] \notin {"idle", "lock"} <=> holder' = q
               /\ mine'[q] \in {mine[q], None}
               /\ pc'[q] \in {"active", "first", "second"} =>
                    pc'[q] = pc[q] /\ view'[q] = view[q]
    BY <1>3, <2>1 DEF Publishers, Handlers
  <2> QED
    BY <1>1, <2>1, <2>2, KeepInv
<1>10. CASE BotStops
  <2>1. /\ pc' = [pc EXCEPT !["bot"] = "idle"]
        /\ view' = [view EXCEPT !["bot"] = Unread]
        /\ mine' = [mine EXCEPT !["bot"] = None]
        /\ holder' = IF holder = "bot" THEN "nobody" ELSE holder
        /\ UNCHANGED <<token, lastToken, tokensFile, said>>
    BY <1>10 DEF BotStops, dbVars, fileVars
  <2>2. ASSUME NEW q \in Publishers
        PROVE  /\ pc'[q] \notin {"idle", "lock"} <=> holder' = q
               /\ mine'[q] \in {mine[q], None}
               /\ pc'[q] \in {"active", "first", "second"} =>
                    pc'[q] = pc[q] /\ view'[q] = view[q]
    BY <1>2, <1>3, <2>1 DEF Publishers, Handlers
  <2> QED
    BY <1>1, <2>1, <2>2, KeepInv
<1>11. CASE UNCHANGED vars
  <2>1. UNCHANGED <<token, lastToken, pc, holder, view, mine, tokensFile, said>>
    BY <1>11 DEF vars, dbVars, fileVars, tellVars
  <2> QED
    BY <1>1, <1>3, <2>1, KeepInv
<1> QED
  BY <1>4, <1>5, <1>6, <1>7, <1>8, <1>9, <1>10, <1>11 DEF PublishNext

-----------------------------------------------------------------------------
\* Every variable of a publish keeps its type (console/publish.py and its callers).
THEOREM TypeCorrect == PublishSpec => []TypeOK
<1> QED
  BY TypeInit, TypeStep, PTL DEF PublishSpec

\* The lock gives the files to one publish at a time, and what that one read has
\* no token that a change made before, its own or a reported one, replaced
\* (publish.publish and the callers' order: commit, publish, report).
THEOREM Invariance == PublishSpec => []PublishIInv
<1> QED
  BY InvInit, InvStep, PTL DEF PublishSpec

\* After a handler reported a reset, a revocation or a deletion, tokens.json never
\* again holds an address it replaced, whoever publishes, fails or stops.
THEOREM SaidIsTrue == PublishSpec => []SaidHolds
<1>1. PublishIInv => SaidHolds
  BY DEF PublishIInv
<1> QED
  BY <1>1, Invariance, PTL

-----------------------------------------------------------------------------
(***************************************************************************)
(* SubsStore: an address reported dead is not served, for any users and    *)
(* any number of requests at a time (subs/server.py, Store.current, over   *)
(* console/publish.py).                                                    *)
(***************************************************************************)

\* What is said only grows, and only when the catalog is written.
LEMMA SaidMoves ==
  ASSUME TypeOK, [PublishNext]_vars
  PROVE  /\ \A u \in Users : said[u] <= said'[u]
         /\ said' = said \/ \E p \in Publishers : WriteCatalog(p)
<1>1. said \in Tokens /\ \A p \in Publishers : mine[p] \in Tokens
  BY DEF TypeOK
<1>2. said' = said \/ \E p \in Publishers : WriteCatalog(p)
  <2>1. CASE \E p \in Handlers : Handler(p)
    BY <2>1 DEF Handler, IssueToken, RotateToken, RevokeToken, SetStatus, DeleteUser,
      Commit, tellVars
  <2>2. CASE PublishNow \/ World \/ WatcherTick
    BY <2>2 DEF PublishNow, Commit, World, NewDay, NodeReports, Register, WatcherTick,
      tellVars
  <2>3. CASE \E p \in Publishers : Step(p) \/ WriteFails(p)
    BY <2>3 DEF Step, Lock, ReadCreds, ReadNode, ReadTokens, ReadActive, Read,
      NodeMissing, WriteTokens, WriteFails, tellVars
  <2>4. CASE ConsoleStops \/ BotStops \/ UNCHANGED vars
    BY <2>4 DEF ConsoleStops, BotStops, vars, tellVars
  <2> QED
    BY <2>1, <2>2, <2>3, <2>4 DEF PublishNext
<1>3. \A u \in Users : said[u] <= said'[u]
  <2>1. CASE said' = said
    BY <1>1, <2>1 DEF Tokens
  <2>2. ASSUME NEW p \in Publishers, WriteCatalog(p)
        PROVE  \A u \in Users : said[u] <= said'[u]
    <3>1. said' = Later(said, mine[p])
      BY <2>2 DEF WriteCatalog
    <3> QED
      BY <1>1, <3>1 DEF Later, Tokens
  <2> QED
    BY <1>2, <2>1, <2>2
<1> QED
  BY <1>2, <1>3

\* Tokens good for what is said now are good for what was said before.
LEMMA GoodBefore ==
  ASSUME NEW tokens \in Tokens, NEW before \in Tokens, NEW now \in Tokens,
         Good(tokens, now), \A u \in Users : before[u] <= now[u]
  PROVE  Good(tokens, before)
<1>1. ASSUME NEW u \in Users PROVE tokens[u] = 0 \/ tokens[u] >= before[u]
  <2>1. tokens[u] \in Nat /\ before[u] \in Nat /\ now[u] \in Nat
    BY DEF Tokens
  <2>2. tokens[u] = 0 \/ tokens[u] >= now[u]
    BY DEF Good
  <2> QED
    BY <2>1, <2>2
<1> QED
  BY <1>1 DEF Good

LEMMA ResponseType ==
  /\ Refusal \in Response
  /\ \A tokens \in Tokens, users \in Catalog : Served(tokens, users) \in Response
<1>1. None \in Tokens
  BY NoneType
<1>2. [u \in Users |-> NoUser] \in Catalog
  BY DEF Catalog
<1> QED
  BY <1>1, <1>2 DEF Refusal, Served, Response

-----------------------------------------------------------------------------
LEMMA SubsInitInv == SubsInit => SubsIInv
<1> SUFFICES ASSUME SubsInit PROVE SubsIInv
  OBVIOUS
<1>1. PublishIInv
  BY InvInit DEF SubsInit
<1>2. Refusal \in Response /\ None \in Tokens /\ Refusal.users \in Catalog
  BY ResponseType, NoneType DEF Response
<1>3. NotLoaded \in Stamps /\ NotLoaded.catalog = 0
  BY DEF NotLoaded, Stamps
<1>4. StoreTypeOK
  BY <1>2, <1>3 DEF SubsInit, StoreTypeOK
<1>5. StampsAreOld
  BY <1>3 DEF SubsInit, StampsAreOld
<1>6. RequestsCame
  BY <1>1 DEF SubsInit, RequestsCame, None, PublishIInv, TypeOK, Tokens
<1>7. LoadedIsGood
  <2>1. loadedAt.catalog = 0 /\ catalogAt = 1 /\ \A r \in Requests : rpc[r] = "idle"
    BY <1>3 DEF SubsInit
  <2> QED
    BY <2>1 DEF LoadedIsGood
<1>8. Loading
  BY StoreAssumption DEF SubsInit, Loading
<1>9. OldAddressIsGone
  BY DEF SubsInit, OldAddressIsGone
<1> QED
  BY <1>1, <1>4, <1>5, <1>6, <1>7, <1>8, <1>9 DEF SubsIInv

\* A step of the console, or none, leaves the requests as they are.
LEMMA ConsoleInv ==
  ASSUME SubsIInv, Console
  PROVE  SubsIInv'
<1>1. PublishNext /\ UNCHANGED <<loadedAt, loaded, storeLock, opened>>
  BY DEF Console, storeVars
<1>2. UNCHANGED <<rpc, stamp, answer, saidBefore>>
  BY DEF Console, requestVars
<1>3. PublishIInv /\ TypeOK /\ StoreTypeOK
  BY DEF SubsIInv, PublishIInv
<1>4. PublishIInv'
  BY <1>1, <1>3, InvStep
<1>5. /\ \A u \in Users : said[u] <= said'[u]
      /\ said' = said \/ \E p \in Publishers : WriteCatalog(p)
  BY <1>1, <1>3, SaidMoves
<1>6. /\ catalogAt \in Nat /\ tokensAt \in Nat
      /\ catalogAt' \in {catalogAt, catalogAt + 1} /\ tokensAt' \in {tokensAt, tokensAt + 1}
      /\ said' = said \/ catalogAt' = catalogAt + 1
  BY <1>3, <1>5 DEF Console, StoreTypeOK
<1>7. touched' \in SUBSET Requests /\ broken' \in SUBSET Requests
  BY <1>3 DEF Console, StoreTypeOK, Active
<1>8. StoreTypeOK'
  BY <1>1, <1>2, <1>3, <1>6, <1>7 DEF StoreTypeOK
<1>9. StampsAreOld'
  <2>1. loadedAt.catalog \in Nat /\ \A r \in Requests : stamp[r].catalog \in Nat
    BY <1>3 DEF StoreTypeOK, Stamps
  <2> QED
    BY <1>1, <1>2, <1>6, <2>1 DEF SubsIInv, StampsAreOld
<1>10. RequestsCame'
  <2>1. ASSUME NEW r \in Requests, NEW u \in Users PROVE saidBefore'[r][u] <= said'[u]
    <3>1. saidBefore[r][u] \in Nat /\ said[u] \in Nat /\ said'[u] \in Nat
      BY <1>3, <1>4 DEF StoreTypeOK, PublishIInv, TypeOK, Tokens
    <3>2. saidBefore[r][u] <= said[u]
      BY DEF SubsIInv, RequestsCame
    <3> QED
      BY <1>2, <1>5, <3>1, <3>2
  <2> QED
    BY <2>1 DEF RequestsCame
<1>11. LoadedIsGood'
  <2>1. ASSUME storeLock = "nobody", loadedAt.catalog = catalogAt'
        PROVE  Good(loaded.tokens, said')
    <3>1. catalogAt' = catalogAt /\ said' = said
      <4>1. loadedAt.catalog \in Nat /\ loadedAt.catalog <= catalogAt
        BY <1>3 DEF SubsIInv, StampsAreOld, StoreTypeOK, Stamps
      <4> QED
        BY <1>6, <2>1, <4>1
    <3>2. Good(loaded.tokens, said)
      BY <2>1, <3>1 DEF SubsIInv, LoadedIsGood
    <3> QED
      BY <3>1, <3>2
  <2>2. ASSUME storeLock = "nobody", NEW r \in Requests, rpc[r] \in {"stat", "lock"},
               stamp[r].catalog = loadedAt.catalog
        PROVE  Good(loaded.tokens, saidBefore[r])
    BY <2>2 DEF SubsIInv, LoadedIsGood
  <2> QED
    BY <1>1, <1>2, <2>1, <2>2 DEF LoadedIsGood, Good
<1>12. Loading' /\ OldAddressIsGone'
  BY <1>1, <1>2 DEF SubsIInv, Loading, OldAddressIsGone
<1> QED
  BY <1>4, <1>8, <1>9, <1>10, <1>11, <1>12 DEF SubsIInv

\* What every step of a request leaves alone, and what the lock then gives.
LEMMA RequestKeeps ==
  ASSUME SubsIInv, NEW r \in Requests, Request(r)
  PROVE  /\ UNCHANGED <<vars, tokensAt, catalogAt>>
         /\ PublishIInv'
         /\ \A q \in Requests \ {r} :
              /\ rpc'[q] = rpc[q] /\ stamp'[q] = stamp[q]
              /\ answer'[q] = answer[q] /\ saidBefore'[q] = saidBefore[q]
<1>1. UNCHANGED <<vars, tokensAt, catalogAt>>
  BY DEF Request, Begin, StatTokens, Enter, LoadCatalog, LoadTokens, End
<1>2. PublishIInv'
  BY <1>1, InvStep DEF SubsIInv
<1>3. /\ DOMAIN rpc = Requests /\ DOMAIN stamp = Requests
      /\ DOMAIN answer = Requests /\ DOMAIN saidBefore = Requests
  BY DEF SubsIInv, StoreTypeOK
<1>4. ASSUME NEW q \in Requests \ {r}
      PROVE  /\ rpc'[q] = rpc[q] /\ stamp'[q] = stamp[q]
             /\ answer'[q] = answer[q] /\ saidBefore'[q] = saidBefore[q]
  BY <1>3 DEF Request, Begin, StatTokens, Enter, LoadCatalog, LoadTokens, End
<1> QED
  BY <1>1, <1>2, <1>4

LEMMA RequestType ==
  ASSUME SubsIInv, NEW r \in Requests, Request(r)
  PROVE  StoreTypeOK'
<1>1. StoreTypeOK /\ said \in Tokens /\ tokensFile \in Tokens /\ catalogFile \in Catalog
  BY DEF SubsIInv, PublishIInv, TypeOK
<1>2. /\ catalogAt \in Nat /\ tokensAt \in Nat /\ stamp[r] \in Stamps
      /\ opened \in Catalog /\ loaded \in Response
  BY <1>1 DEF StoreTypeOK
<1>3. /\ Refusal \in Response /\ Refusal.users \in Catalog /\ None \in Tokens
      /\ Served(tokensFile, opened) \in Response /\ NotLoaded \in Stamps
  BY <1>1, <1>2, ResponseType, NoneType DEF Response, NotLoaded, Stamps
<1>4. CASE Begin(r)
  <2>1. [catalog |-> catalogAt, tokens |-> 0] \in Stamps
    BY <1>2 DEF Stamps
  <2> QED
    BY <1>1, <1>4, <2>1 DEF Begin, StoreTypeOK, storeVars
<1>5. CASE StatTokens(r)
  <2>1. [catalog |-> stamp[r].catalog, tokens |-> tokensAt] \in Stamps
    BY <1>2 DEF Stamps
  <2> QED
    BY <1>1, <1>5, <2>1 DEF StatTokens, StoreTypeOK, storeVars
<1>6. CASE Enter(r)
  BY <1>1, <1>2, <1>6 DEF Enter, StoreTypeOK
<1>7. CASE LoadCatalog(r)
  BY <1>1, <1>7 DEF LoadCatalog, StoreTypeOK
<1>8. CASE LoadTokens(r)
  BY <1>1, <1>3, <1>8 DEF LoadTokens, StoreTypeOK
<1>9. CASE End(r)
  BY <1>1, <1>3, <1>9 DEF End, StoreTypeOK, storeVars
<1> QED
  BY <1>4, <1>5, <1>6, <1>7, <1>8, <1>9 DEF Request

\* The lock: who loads holds it, and only one does.
LEMMA RequestLock ==
  ASSUME SubsIInv, NEW r \in Requests, Request(r)
  PROVE  Loading'
<1>1. \A q \in Requests : rpc[q] \in {"load", "tokens"} <=> storeLock = q
  BY DEF SubsIInv, Loading
<1>2. \A q \in Requests \ {r} : rpc'[q] = rpc[q]
  BY RequestKeeps
<1>3. DOMAIN rpc = Requests /\ "nobody" \notin Requests
  BY StoreAssumption DEF SubsIInv, StoreTypeOK
<1>4. CASE Begin(r) \/ StatTokens(r) \/ End(r)
  <2>1. storeLock' = storeLock /\ rpc[r] \notin {"load", "tokens"}
        /\ rpc'[r] \notin {"load", "tokens"}
    BY <1>3, <1>4 DEF Begin, StatTokens, End, storeVars
  <2> QED
    BY <1>1, <1>2, <2>1 DEF Loading
<1>5. CASE Enter(r)
  <2>1. storeLock = "nobody" /\ storeLock' \in {"nobody", r}
        /\ (rpc'[r] \in {"load", "tokens"} <=> storeLock' = r)
    BY <1>3, <1>5 DEF Enter
  <2> QED
    BY <1>1, <1>2, <1>3, <2>1 DEF Loading
<1>6. CASE LoadCatalog(r)
  <2>1. storeLock' = storeLock /\ rpc[r] = "load" /\ rpc'[r] = "tokens"
    BY <1>3, <1>6 DEF LoadCatalog
  <2> QED
    BY <1>1, <1>2, <2>1 DEF Loading
<1>7. CASE LoadTokens(r)
  <2>1. storeLock' = "nobody" /\ rpc[r] = "tokens" /\ rpc'[r] = "answer"
    BY <1>3, <1>7 DEF LoadTokens
  <2> QED
    BY <1>1, <1>2, <1>3, <2>1 DEF Loading
<1> QED
  BY <1>4, <1>5, <1>6, <1>7 DEF Request

\* What a request loads is good for whatever request is there.
LEMMA LoadGood ==
  ASSUME SubsIInv, NEW r \in Requests, LoadTokens(r)
  PROVE  /\ Good(loaded'.tokens, said)
         /\ \A q \in Requests : Good(loaded'.tokens, saidBefore[q])
<1>1. tokensFile \in Tokens /\ said \in Tokens /\ saidBefore \in [Requests -> Tokens]
  BY DEF SubsIInv, PublishIInv, TypeOK, StoreTypeOK
<1>2. loaded'.tokens \in {tokensFile, None} /\ None \in Tokens
  BY NoneType DEF LoadTokens, Served, Refusal
<1>3. Good(tokensFile, said)
  BY DEF SubsIInv, PublishIInv, SaidHolds, Good
<1>4. \A before \in Tokens : Good(None, before)
  BY DEF Good, None
<1>5. Good(loaded'.tokens, said)
  BY <1>1, <1>2, <1>3, <1>4
<1>6. ASSUME NEW q \in Requests PROVE Good(loaded'.tokens, saidBefore[q])
  <2>1. \A u \in Users : saidBefore[q][u] <= said[u]
    BY DEF SubsIInv, RequestsCame
  <2> QED
    BY <1>1, <1>2, <1>5, <2>1, GoodBefore
<1> QED
  BY <1>5, <1>6

\* What is loaded stays good for the requests that may take it.
LEMMA RequestLoaded ==
  ASSUME SubsIInv, NEW r \in Requests, Request(r)
  PROVE  LoadedIsGood'
<1>1. /\ said' = said /\ catalogAt' = catalogAt
      /\ \A q \in Requests \ {r} :
           rpc'[q] = rpc[q] /\ stamp'[q] = stamp[q] /\ saidBefore'[q] = saidBefore[q]
  BY RequestKeeps DEF vars, tellVars
<1>2. /\ DOMAIN rpc = Requests /\ DOMAIN stamp = Requests /\ DOMAIN saidBefore = Requests
      /\ r # "nobody"
  BY StoreAssumption DEF SubsIInv, StoreTypeOK
<1>3. CASE Begin(r)
  <2>1. /\ UNCHANGED <<loadedAt, loaded, storeLock>>
        /\ stamp'[r].catalog = catalogAt /\ saidBefore'[r] = said
    BY <1>2, <1>3 DEF Begin, storeVars
  <2> QED
    BY <1>1, <2>1 DEF SubsIInv, LoadedIsGood, Good
<1>4. CASE StatTokens(r)
  <2>1. /\ UNCHANGED <<loadedAt, loaded, storeLock, saidBefore>>
        /\ rpc[r] = "stat" /\ stamp'[r].catalog = stamp[r].catalog
    BY <1>2, <1>4 DEF StatTokens, storeVars
  <2> QED
    BY <1>1, <2>1 DEF SubsIInv, LoadedIsGood, Good
<1>5. CASE Enter(r)
  <2>1. CASE Differs(r)
    BY <1>2, <1>5, <2>1 DEF Enter, LoadedIsGood
  <2>2. CASE ~Differs(r)
    <3>1. UNCHANGED <<loadedAt, loaded, storeLock, saidBefore, stamp>> /\ rpc'[r] = "answer"
      BY <1>2, <1>5, <2>2 DEF Enter
    <3> QED
      BY <1>1, <3>1 DEF SubsIInv, LoadedIsGood, Good
  <2> QED
    BY <2>1, <2>2
<1>6. CASE LoadCatalog(r)
  <2>1. storeLock' = storeLock /\ rpc[r] = "load"
    BY <1>6 DEF LoadCatalog
  <2>2. storeLock' # "nobody"
    BY <1>2, <2>1 DEF SubsIInv, Loading
  <2> QED
    BY <2>2 DEF LoadedIsGood
<1>7. CASE LoadTokens(r)
  <2>1. saidBefore' = saidBefore
    BY <1>7 DEF LoadTokens
  <2>2. /\ Good(loaded'.tokens, said)
        /\ \A q \in Requests : Good(loaded'.tokens, saidBefore[q])
    BY <1>7, LoadGood
  <2> QED
    BY <1>1, <2>1, <2>2 DEF LoadedIsGood, Good
<1>8. CASE End(r)
  <2>1. UNCHANGED <<loadedAt, loaded, storeLock>> /\ rpc'[r] = "idle"
    BY <1>2, <1>8 DEF End, storeVars
  <2> QED
    BY <1>1, <2>1 DEF SubsIInv, LoadedIsGood, Good
<1> QED
  BY <1>3, <1>4, <1>5, <1>6, <1>7, <1>8 DEF Request

\* Its answer is what is loaded, under the stamps it took or just now.
LEMMA RequestAnswer ==
  ASSUME SubsIInv, NEW r \in Requests, Request(r)
  PROVE  OldAddressIsGone'
<1>1. \A q \in Requests \ {r} :
        rpc'[q] = rpc[q] /\ answer'[q] = answer[q] /\ saidBefore'[q] = saidBefore[q]
  BY RequestKeeps
<1>2. DOMAIN rpc = Requests /\ DOMAIN answer = Requests
  BY DEF SubsIInv, StoreTypeOK
<1>3. ASSUME rpc'[r] = "answer" PROVE Good(answer'[r].tokens, saidBefore'[r])
  <2>1. CASE Enter(r)
    <3>1. /\ ~Differs(r) /\ rpc[r] = "lock" /\ storeLock = "nobody"
          /\ answer'[r] = loaded /\ saidBefore' = saidBefore
      BY <1>2, <1>3, <2>1 DEF Enter
    <3>2. stamp[r].catalog = loadedAt.catalog
      BY <3>1 DEF Differs
    <3> QED
      BY <3>1, <3>2 DEF SubsIInv, LoadedIsGood
  <2>2. CASE LoadTokens(r)
    <3>1. answer'[r] = loaded' /\ saidBefore' = saidBefore
      BY <1>2, <2>2 DEF LoadTokens
    <3> QED
      BY <2>2, <3>1, LoadGood
  <2>3. CASE Begin(r) \/ StatTokens(r) \/ LoadCatalog(r) \/ End(r)
    BY <1>2, <1>3, <2>3 DEF Begin, StatTokens, LoadCatalog, End
  <2> QED
    BY <2>1, <2>2, <2>3 DEF Request
<1>4. ASSUME NEW q \in Requests, rpc'[q] = "answer", NEW u \in Users
      PROVE  answer'[q].tokens[u] = 0 \/ answer'[q].tokens[u] >= saidBefore'[q][u]
  <2>1. CASE q = r
    BY <1>3, <1>4, <2>1 DEF Good
  <2>2. CASE q # r
    BY <1>1, <1>4, <2>2 DEF SubsIInv, OldAddressIsGone
  <2> QED
    BY <2>1, <2>2
<1> QED
  BY <1>4 DEF OldAddressIsGone

LEMMA RequestInv ==
  ASSUME SubsIInv, NEW r \in Requests, Request(r)
  PROVE  SubsIInv'
<1>1. /\ UNCHANGED <<vars, tokensAt, catalogAt>> /\ PublishIInv'
      /\ \A q \in Requests \ {r} : stamp'[q] = stamp[q] /\ saidBefore'[q] = saidBefore[q]
  BY RequestKeeps
<1>2. /\ DOMAIN stamp = Requests /\ DOMAIN saidBefore = Requests
      /\ catalogAt \in Nat /\ catalogAt > 0 /\ NotLoaded.catalog = 0
      /\ said \in Tokens /\ stamp[r].catalog \in Nat
  BY DEF SubsIInv, StoreTypeOK, PublishIInv, TypeOK, NotLoaded, Stamps
<1>3. /\ loadedAt.catalog <= catalogAt
      /\ \A q \in Requests : stamp[q].catalog <= catalogAt
  BY DEF SubsIInv, StampsAreOld
<1>4. StampsAreOld'
  <2>1. loadedAt' \in {loadedAt, stamp[r]}
    BY DEF Request, Begin, StatTokens, Enter, LoadCatalog, LoadTokens, End, storeVars
  <2>2. stamp'[r].catalog \in {0, catalogAt, stamp[r].catalog}
    BY <1>2 DEF Request, Begin, StatTokens, Enter, LoadCatalog, LoadTokens, End
  <2> QED
    BY <1>1, <1>2, <1>3, <2>1, <2>2 DEF StampsAreOld
<1>5. RequestsCame'
  <2>1. saidBefore'[r] \in {None, said, saidBefore[r]}
    BY <1>2 DEF Request, Begin, StatTokens, Enter, LoadCatalog, LoadTokens, End
  <2>2. said' = said
    BY <1>1 DEF vars, tellVars
  <2>3. ASSUME NEW q \in Requests, NEW u \in Users PROVE saidBefore'[q][u] <= said[u]
    <3>1. saidBefore[q][u] <= said[u] /\ None[u] = 0 /\ said[u] \in Nat
      BY <1>2 DEF SubsIInv, RequestsCame, None, Tokens
    <3>2. saidBefore'[q] \in {None, said, saidBefore[q]}
      BY <1>1, <2>1
    <3> QED
      BY <3>1, <3>2
  <2> QED
    BY <2>2, <2>3 DEF RequestsCame
<1> QED
  BY <1>1, <1>4, <1>5, RequestType, RequestLock, RequestLoaded, RequestAnswer DEF SubsIInv

LEMMA SubsStutter ==
  ASSUME SubsIInv, UNCHANGED allVars
  PROVE  SubsIInv'
<1>1. UNCHANGED <<vars, tokensAt, catalogAt, loadedAt, loaded, storeLock, opened, rpc, stamp,
                  answer, saidBefore, touched, broken>>
  BY DEF allVars, subsVars, storeVars, requestVars
<1>2. PublishIInv'
  BY <1>1, InvStep DEF SubsIInv
<1>3. said' = said
  BY <1>1 DEF vars, tellVars
<1>4. StoreTypeOK' /\ StampsAreOld' /\ Loading'
  BY <1>1 DEF SubsIInv, StoreTypeOK, StampsAreOld, Loading
<1>5. RequestsCame' /\ LoadedIsGood' /\ OldAddressIsGone'
  BY <1>1, <1>3 DEF SubsIInv, RequestsCame, LoadedIsGood, Good, OldAddressIsGone
<1> QED
  BY <1>2, <1>4, <1>5 DEF SubsIInv

-----------------------------------------------------------------------------
\* Over the publishes and the requests, in any order: what is loaded under the
\* present stamp is good now, and under the stamp a request took it was good when that
\* request began (Store.current, _publish).
THEOREM SubsInvariance == SubsSpec => []SubsIInv
<1>1. SubsIInv /\ [SubsNext]_allVars => SubsIInv'
  BY ConsoleInv, RequestInv, SubsStutter DEF SubsNext
<1> QED
  BY <1>1, SubsInitInv, PTL DEF SubsSpec

\* No request is served by an address that was reported dead before it began,
\* whichever thread loaded the files last (Store.current, do_GET).
THEOREM DeadStaysDead == SubsSpec => []OldAddressIsGone
<1>1. SubsIInv => OldAddressIsGone
  BY DEF SubsIInv
<1> QED
  BY <1>1, SubsInvariance, PTL

-----------------------------------------------------------------------------
(***************************************************************************)
(* FilesFollow: the last publish was not made from older data.             *)
(***************************************************************************)

\* No watcher knows of a day to come.
LEMMA DaysStep ==
  ASSUME TypeOK, TypeOK', DaysPassed, [PublishNext]_vars
  PROVE  DaysPassed'
<1>1. /\ day \in Nat /\ day' \in Nat /\ NotYet.day = 0
      /\ looked.day \in Nat /\ published.day \in Nat
  BY DEF TypeOK, Watched, NotYet
<1>2. Now.day = day
  BY DEF Now
<1>3. /\ day' \in {day, day + 1}
      /\ looked' \in {looked, NotYet, Now} /\ published' \in {published, looked, NotYet}
  <2>1. CASE \E p \in Handlers : Handler(p)
    BY <2>1 DEF Handler, IssueToken, RotateToken, RevokeToken, SetStatus, DeleteUser,
      Commit, worldVars, watchVars
  <2>2. CASE PublishNow \/ World \/ WatcherTick
    BY <2>2 DEF PublishNow, Commit, World, NewDay, NodeReports, Register, WatcherTick,
      worldVars, watchVars
  <2>3. CASE \E p \in Publishers : Step(p) \/ WriteFails(p)
    BY <2>3 DEF Step, Lock, ReadCreds, ReadNode, ReadTokens, ReadActive, Read,
      NodeMissing, WriteTokens, WriteCatalog, WriteFails, Finish, worldVars, watchVars
  <2>4. CASE ConsoleStops \/ BotStops \/ UNCHANGED vars
    BY <2>4 DEF ConsoleStops, BotStops, vars, worldVars, watchVars
  <2> QED
    BY <2>1, <2>2, <2>3, <2>4 DEF PublishNext
<1> QED
  BY <1>1, <1>2, <1>3 DEF DaysPassed

\* A change of the database leaves its handler waiting; the day of the others is known.
LEMMA ChangesFollow ==
  ASSUME PublishIInv, DaysPassed, Follows,
         \/ \E p \in Handlers : Handler(p)
         \/ PublishNow \/ World \/ WatcherTick \/ UNCHANGED vars
  PROVE  Follows'
<1>1. DOMAIN pc = Publishers /\ day \in Nat /\ looked.day \in Nat /\ published.day \in Nat
  BY DEF PublishIInv, TypeOK, Watched
<1>2. "web" \in Publishers /\ "watcher" \in Publishers /\ Handlers \subseteq Publishers
  BY DEF Publishers, Handlers
<1>3. ASSUME NEW p \in Publishers, pc' = [pc EXCEPT ![p] = "lock"],
             UNCHANGED <<holder, owed, covers>>
      PROVE  Follows'
  <2>1. Waiting'
    BY <1>1, <1>3 DEF Waiting
  <2> QED
    BY <1>3, <2>1 DEF Follows
<1>4. CASE \E p \in Handlers : Handler(p)
  BY <1>2, <1>3, <1>4 DEF Handler, IssueToken, RotateToken, RevokeToken, SetStatus,
    DeleteUser, Commit, tellVars
<1>5. CASE PublishNow \/ WatcherTick
  BY <1>2, <1>3, <1>5 DEF PublishNow, Commit, WatcherTick, tellVars
<1>6. CASE NewDay
  <2>1. day' = day + 1 /\ UNCHANGED <<looked, published, holder, owed, covers>>
    BY <1>6 DEF NewDay, watchVars, tellVars
  <2>2. published'.day # day' /\ looked'.day # day'
    BY <1>1, <2>1 DEF DaysPassed
  <2> QED
    BY <2>1, <2>2 DEF Follows, DayIsKnown
<1>7. CASE NodeReports \/ Register \/ UNCHANGED vars
  <2>1. UNCHANGED <<token, cred, on, day, pc, holder, view, looked, published,
                    tokensFile, catalogFile, owed, covers>>
    BY <1>7 DEF NodeReports, Register, vars, dbVars, worldVars, watchVars, fileVars,
      tellVars
  <2> QED
    BY <2>1 DEF Follows, Waiting, Fresh, DayIsKnown, Current, Live
<1> QED
  BY <1>4, <1>5, <1>6, <1>7 DEF World

\* Whoever is done without having written both files leaves a publish owed.
LEMMA FailureFollows ==
  ASSUME owed' = "yes", covers' = "no"
  PROVE  Follows'
BY DEF Follows

\* A publish reads what is there, unless somebody waits to publish what came since.
LEMMA ReadsFollow ==
  ASSUME PublishIInv, Follows, NEW p \in Publishers,
         Lock(p) \/ ReadCreds(p) \/ ReadNode(p) \/ ReadTokens(p) \/ ReadActive(p)
           \/ WriteTokens(p)
  PROVE  Follows'
<1>1. DOMAIN pc = Publishers /\ DOMAIN view = Publishers /\ p # "nobody"
  BY DEF PublishIInv, TypeOK, Publishers, Handlers
<1>2. UNCHANGED <<token, cred, on, day, looked, published, owed>>
  BY DEF Lock, ReadCreds, ReadNode, ReadTokens, ReadActive, Read, WriteTokens, dbVars,
    worldVars, watchVars, tellVars
<1>3. CASE Lock(p)
  <2>1. holder' = p /\ covers' = "yes" /\ pc' = [pc EXCEPT ![p] = "creds"]
    BY <1>3 DEF Lock
  <2>2. Fresh(p)'
    BY <1>1, <2>1 DEF Fresh
  <2> QED
    BY <1>1, <2>1, <2>2 DEF Follows
<1>4. CASE ~Lock(p)
  <2>1. UNCHANGED <<holder, covers>> /\ holder = p /\ pc[p] # "lock"
        /\ \E to \in {"node", "tokens", "active", "first", "second"} :
             pc' = [pc EXCEPT ![p] = to]
    BY <1>4 DEF ReadCreds, ReadNode, ReadTokens, ReadActive, Read, WriteTokens, tellVars,
      PublishIInv, LockIsHeld
  <2>2. Waiting' <=> Waiting
    BY <1>1, <2>1 DEF Waiting
  <2>3. ASSUME Fresh(p) PROVE Fresh(p)'
    <3>1. CASE ReadCreds(p)
      BY <1>1, <1>2, <3>1 DEF ReadCreds, Read, Fresh
    <3>2. CASE ReadNode(p)
      BY <1>1, <1>2, <2>3, <3>2 DEF ReadNode, Read, Fresh
    <3>3. CASE ReadTokens(p)
      BY <1>1, <1>2, <2>3, <3>3 DEF ReadTokens, Read, Fresh
    <3>4. CASE ReadActive(p)
      BY <1>1, <1>2, <2>3, <3>4 DEF ReadActive, Read, Fresh, OnlyActive, Live
    <3>5. CASE WriteTokens(p)
      BY <1>1, <1>2, <2>3, <3>5 DEF WriteTokens, Fresh, Live
    <3> QED
      BY <1>4, <3>1, <3>2, <3>3, <3>4, <3>5
  <2>4. DayIsKnown(p)' <=> DayIsKnown(p)
    BY <1>2 DEF DayIsKnown
  <2> QED
    BY <1>1, <1>2, <2>1, <2>2, <2>3, <2>4 DEF Follows
<1> QED
  BY <1>3, <1>4

\* The second file is written: both hold what the database holds.
LEMMA CatalogFollows ==
  ASSUME PublishIInv, Follows, NEW p \in Publishers, WriteCatalog(p)
  PROVE  Follows'
<1>1. /\ pc[p] = "second" /\ pc' = [pc EXCEPT ![p] = "idle"] /\ holder' = "nobody"
      /\ published' = IF p = "watcher" THEN looked ELSE published
      /\ catalogFile' = Build(view[p].tokens, view[p].creds, view[p].node)
      /\ owed' = IF covers = "yes" THEN "no" ELSE owed
      /\ UNCHANGED <<token, cred, on, day, tokensFile>>
  BY DEF WriteCatalog, Finish, dbVars, worldVars
<1>2. holder = p /\ p # "nobody" /\ DOMAIN pc = Publishers /\ cred \in Tokens
  BY <1>1 DEF PublishIInv, LockIsHeld, TypeOK, Publishers, Handlers
<1>3. tokensFile = view[p].tokens
  BY <1>1 DEF PublishIInv, ViewIsGood
<1>4. ASSUME ~Waiting', owed' = "no", published'.day = day'
      PROVE  Current'
  <2>1. covers = "yes"
    BY <1>1, <1>2, <1>4 DEF Follows
  <2>2. ~Waiting
    BY <1>1, <1>2, <1>4 DEF Waiting
  <2>3. DayIsKnown(p)
    BY <1>1, <1>4 DEF DayIsKnown
  <2>4. view[p].creds = cred /\ view[p].tokens = Live
    BY <1>1, <1>2, <2>1, <2>2, <2>3 DEF Follows, Fresh
  <2>5. catalogFile' = Build(Live, cred, view[p].node)
    BY <1>1, <2>4
  <2>6. \A u \in Users : /\ catalogFile'[u] = NoUser <=> Live[u] = 0
                         /\ catalogFile'[u] \in {NoUser, 0, cred[u]}
    BY <1>2, <2>5, PublishAssumption DEF Build, Tokens
  <2>7. Live' = Live
    BY <1>1 DEF Live
  <2> QED
    BY <1>1, <1>3, <2>4, <2>6, <2>7 DEF Current
<1> QED
  BY <1>1, <1>2, <1>4 DEF Follows, Publishers, Handlers

LEMMA FollowStep == FollowIInv /\ [PublishNext]_vars => FollowIInv'
<1> SUFFICES ASSUME FollowIInv, [PublishNext]_vars PROVE FollowIInv'
  OBVIOUS
<1>1. PublishIInv /\ DaysPassed /\ Follows
  BY DEF FollowIInv
<1>2. PublishIInv'
  BY <1>1, InvStep
<1>3. DaysPassed'
  BY <1>1, <1>2, DaysStep DEF PublishIInv
<1>4. CASE \/ \E p \in Handlers : Handler(p)
           \/ PublishNow \/ World \/ WatcherTick \/ UNCHANGED vars
  BY <1>1, <1>2, <1>3, <1>4, ChangesFollow DEF FollowIInv
<1>5. ASSUME NEW p \in Publishers, Step(p) \/ WriteFails(p)
      PROVE  Follows'
  <2>1. CASE NodeMissing(p) \/ WriteFails(p)
    BY <2>1, FailureFollows DEF NodeMissing, WriteFails
  <2>2. CASE WriteCatalog(p)
    BY <1>1, <2>2, CatalogFollows
  <2> QED
    BY <1>1, <1>5, <2>1, <2>2, ReadsFollow DEF Step
<1>6. CASE ConsoleStops \/ BotStops
  BY <1>2, <1>3, <1>6, FailureFollows DEF ConsoleStops, BotStops, FollowIInv
<1> QED
  BY <1>2, <1>3, <1>4, <1>5, <1>6 DEF PublishNext, FollowIInv

LEMMA FollowInit == Init => FollowIInv
<1> SUFFICES ASSUME Init PROVE FollowIInv
  OBVIOUS
<1>1. PublishIInv
  BY InvInit
<1>2. NotYet.day = 0
  BY DEF NotYet
<1>3. DaysPassed
  BY <1>2 DEF Init, DaysPassed
<1>4. holder = "nobody" /\ "nobody" \notin Publishers
  BY DEF Init, Publishers, Handlers
<1>5. tokensFile = Live /\ catalogFile = Build(Live, cred, running) /\ cred \in Tokens
  BY <1>1 DEF Init, PublishIInv, TypeOK
<1>6. Current
  BY <1>5, PublishAssumption DEF Current, Build, Tokens
<1> QED
  BY <1>1, <1>3, <1>4, <1>6 DEF FollowIInv, Follows

\* When nobody publishes, nothing failed and the watcher knows the day, the files hold
\* the addresses and credentials of now: no publish overtook a later change, whatever
\* was read before which commit (publish.publish under its lock).
THEOREM FilesAreCurrent == PublishSpec => []FilesFollow
<1>1. FollowIInv => FilesFollow
  <2> SUFFICES ASSUME FollowIInv, Quiet PROVE holder = "nobody" /\ ~Waiting
    BY DEF FilesFollow, FollowIInv, Follows
  <2> QED
    BY DEF FollowIInv, PublishIInv, LockIsHeld, TypeOK, Quiet, Waiting
<1> QED
  BY <1>1, FollowInit, FollowStep, PTL DEF PublishSpec

-----------------------------------------------------------------------------
(***************************************************************************)
(* SubsStore: a request is answered from the files that are there.         *)
(***************************************************************************)

\* The files change one at a time, and each change is a write.
LEMMA FilesMove ==
  ASSUME PublishNext
  PROVE  /\ tokensFile' = tokensFile \/ \E p \in Publishers : WriteTokens(p)
         /\ catalogFile' = catalogFile \/ \E p \in Publishers : WriteCatalog(p)
         /\ tokensFile' = tokensFile \/ catalogFile' = catalogFile
<1>1. CASE \E p \in Handlers : Handler(p)
  BY <1>1 DEF Handler, IssueToken, RotateToken, RevokeToken, SetStatus, DeleteUser,
    Commit, fileVars
<1>2. CASE PublishNow \/ World \/ WatcherTick
  BY <1>2 DEF PublishNow, Commit, World, NewDay, NodeReports, Register, WatcherTick,
    fileVars
<1>3. CASE \E p \in Publishers : Step(p) \/ WriteFails(p)
  BY <1>3 DEF Step, Lock, ReadCreds, ReadNode, ReadTokens, ReadActive, Read,
    NodeMissing, WriteTokens, WriteCatalog, WriteFails, fileVars
<1>4. CASE ConsoleStops \/ BotStops
  BY <1>4 DEF ConsoleStops, BotStops, fileVars
<1> QED
  BY <1>1, <1>2, <1>3, <1>4 DEF PublishNext

\* A token table that fits two catalogs is about the same users.
LEMMA FitsBoth ==
  ASSUME NEW tokens, NEW users, NEW others, Fits(tokens, users)
  PROVE  SameUsers(others, users) <=> Fits(tokens, others)
BY DEF Fits, SameUsers

LEMMA ContentIs ==
  ASSUME NEW tokens, NEW users
  PROVE  /\ Content(tokens, users).ok = "yes" <=> Fits(tokens, users)
         /\ Content(tokens, users).ok \in {"yes", "no"}
         /\ Fits(tokens, users) => Content(tokens, users) = Served(tokens, users)
BY DEF Content, Served, Refusal

\* A write makes every stamp of before an old one, and between fitting files it leaves
\* the users the same.
LEMMA ConsoleServes ==
  ASSUME ServeIInv, SubsIInv', Console
  PROVE  ServeIInv'
<1>1. /\ PublishNext /\ UNCHANGED <<loadedAt, loaded, storeLock, opened, rpc, stamp, answer>>
      /\ Active' = Active
  BY DEF Console, storeVars, requestVars, Active
<1>2. /\ catalogAt \in Nat /\ tokensAt \in Nat
      /\ loadedAt.catalog \in Nat /\ loadedAt.tokens \in Nat
      /\ \A r \in Requests : stamp[r].catalog \in Nat /\ stamp[r].tokens \in Nat
  BY DEF ServeIInv, SubsIInv, StoreTypeOK, Stamps
<1>3. /\ loadedAt.catalog <= catalogAt /\ loadedAt.tokens <= tokensAt
      /\ \A r \in Requests : stamp[r].tokens <= tokensAt
  BY DEF ServeIInv, SubsIInv, StampsAreOld, StampsAreNow
<1>4. /\ catalogAt' \in {catalogAt, catalogAt + 1} /\ tokensAt' \in {tokensAt, tokensAt + 1}
      /\ catalogAt' = catalogAt => catalogFile' = catalogFile
      /\ tokensAt' = tokensAt => tokensFile' = tokensFile
  BY <1>1, <1>2, FilesMove DEF Console
<1>5. /\ broken \subseteq broken' /\ touched \subseteq touched'
      /\ Active \ broken' # {} => Fits(tokensFile', catalogFile')
  BY DEF Console
<1>6. CASE catalogAt' = catalogAt /\ tokensAt' = tokensAt
  <2>1. tokensFile' = tokensFile /\ catalogFile' = catalogFile /\ NowAt' = NowAt
    BY <1>4, <1>6 DEF NowAt
  <2>2. StampsAreNow'
    BY <1>1, <1>5, <1>6, <2>1 DEF ServeIInv, StampsAreNow
  <2>3. OpenedIsThere' /\ UnbrokenFits' /\ RefusalIsOld' /\ ServesWhatIsThere'
    BY <1>1, <1>5, <1>6, <2>1
    DEF ServeIInv, OpenedIsThere, UnbrokenFits, RefusalIsOld, ServesWhatIsThere
  <2> QED
    BY <2>2, <2>3 DEF ServeIInv
<1>7. CASE catalogAt' = catalogAt + 1 \/ tokensAt' = tokensAt + 1
  <2>1. Active \subseteq touched'
    BY <1>2, <1>4, <1>7 DEF Console
  <2>2. \A r \in Requests : r \notin touched' => rpc[r] = "idle"
    BY <2>1 DEF Active
  <2>3. loadedAt # NowAt'
    BY <1>2, <1>3, <1>4, <1>7 DEF NowAt
  <2>4. StampsAreNow'
    BY <1>1, <1>2, <1>3, <1>4, <2>2, <2>3 DEF ServeIInv, StampsAreNow
  <2>5. ASSUME NEW q \in Requests, rpc[q] = "tokens"
        PROVE  /\ loadedAt.catalog = catalogAt' => opened = catalogFile'
               /\ \A r \in Active \ broken' :
                    stamp[r].catalog = loadedAt.catalog => SameUsers(opened, catalogFile')
    <3>1. ASSUME loadedAt.catalog = catalogAt' PROVE opened = catalogFile'
      <4>1. catalogAt' = catalogAt
        BY <1>2, <1>3, <1>4, <3>1
      <4> QED
        BY <1>4, <2>5, <3>1, <4>1 DEF ServeIInv, OpenedIsThere
    <3>2. ASSUME NEW r \in Active \ broken', stamp[r].catalog = loadedAt.catalog
          PROVE  SameUsers(opened, catalogFile')
      <4>1. Fits(tokensFile', catalogFile')
        BY <1>5
      <4>2. r \in Active \ broken
        BY <1>5
      <4>3. Fits(tokensFile, catalogFile)
        BY <4>2 DEF ServeIInv, UnbrokenFits
      <4>4. SameUsers(opened, catalogFile)
        BY <2>5, <3>2, <4>2 DEF ServeIInv, OpenedIsThere
      <4>5. tokensFile' = tokensFile \/ catalogFile' = catalogFile
        BY <1>1, FilesMove
      <4> QED
        BY <4>1, <4>3, <4>4, <4>5 DEF Fits, SameUsers
    <3> QED
      BY <3>1, <3>2
  <2>6. OpenedIsThere'
    BY <1>1, <2>5 DEF OpenedIsThere, SameUsers
  <2>7. UnbrokenFits'
    BY <1>1, <1>5 DEF UnbrokenFits, Fits
  <2>8. RefusalIsOld'
    <3>1. \A r \in Requests \ broken' : r \in Requests \ broken
      BY <1>5
    <3>2. loadedAt.tokens < tokensAt => loadedAt.tokens < tokensAt'
      BY <1>2, <1>4
    <3> QED
      BY <1>1, <3>1, <3>2 DEF ServeIInv, RefusalIsOld
  <2>9. ServesWhatIsThere'
    BY <1>1, <1>5, <2>2 DEF ServeIInv, ServesWhatIsThere
  <2> QED
    BY <2>4, <2>6, <2>7, <2>8, <2>9 DEF ServeIInv
<1> QED
  BY <1>4, <1>6, <1>7

\* What the step of a request leaves alone.
LEMMA RequestFrame ==
  ASSUME SubsIInv, NEW r \in Requests, Request(r)
  PROVE  /\ UNCHANGED <<tokensFile, catalogFile, tokensAt, catalogAt>> /\ NowAt' = NowAt
         /\ \A q \in Requests \ {r} :
              /\ rpc'[q] = rpc[q] /\ stamp'[q] = stamp[q] /\ answer'[q] = answer[q]
              /\ q \in touched' <=> q \in touched
              /\ q \in broken' <=> q \in broken
         /\ DOMAIN rpc = Requests /\ DOMAIN stamp = Requests /\ DOMAIN answer = Requests
         /\ r # "nobody"
         /\ \A q \in Requests : rpc[q] \in {"load", "tokens"} <=> storeLock = q
<1>1. /\ UNCHANGED <<vars, tokensAt, catalogAt>>
      /\ \A q \in Requests \ {r} :
           rpc'[q] = rpc[q] /\ stamp'[q] = stamp[q] /\ answer'[q] = answer[q]
  BY RequestKeeps
<1>2. tokensFile' = tokensFile /\ catalogFile' = catalogFile
  BY <1>1 DEF vars, fileVars
<1>3. \A q \in Requests \ {r} : (q \in touched' <=> q \in touched)
                                /\ (q \in broken' <=> q \in broken)
  BY DEF Request, Begin, StatTokens, Enter, LoadCatalog, LoadTokens, End
<1> QED
  BY <1>1, <1>2, <1>3, StoreAssumption DEF NowAt, SubsIInv, StoreTypeOK, Loading

\* A request takes its stamps, or is over.
LEMMA StampServes ==
  ASSUME ServeIInv, SubsIInv', NEW r \in Requests, Begin(r) \/ StatTokens(r) \/ End(r)
  PROVE  ServeIInv'
<1>1. Request(r) /\ SubsIInv
  BY DEF Request, ServeIInv
<1>2. /\ UNCHANGED <<tokensFile, catalogFile, tokensAt, catalogAt>> /\ NowAt' = NowAt
      /\ \A q \in Requests \ {r} :
           /\ rpc'[q] = rpc[q] /\ stamp'[q] = stamp[q] /\ answer'[q] = answer[q]
           /\ q \in touched' <=> q \in touched
           /\ q \in broken' <=> q \in broken
      /\ DOMAIN rpc = Requests /\ DOMAIN stamp = Requests /\ DOMAIN answer = Requests
  BY <1>1, RequestFrame
<1>3. UNCHANGED <<loadedAt, loaded, storeLock, opened>>
  BY DEF Begin, StatTokens, End, storeVars
<1>4. /\ catalogAt \in Nat /\ tokensAt \in Nat
      /\ loadedAt \in Stamps /\ stamp[r] \in Stamps
      /\ loadedAt.tokens \in Nat /\ loadedAt.tokens <= tokensAt
  BY DEF ServeIInv, SubsIInv, StoreTypeOK, Stamps, StampsAreNow
<1>5. rpc'[r] \in {"stat", "lock", "idle"}
  BY <1>2 DEF Begin, StatTokens, End
<1>6. ServesWhatIsThere'
  BY <1>2, <1>5 DEF ServeIInv, ServesWhatIsThere
<1>7. CASE Begin(r)
  <2>1. /\ rpc[r] = "idle" /\ rpc'[r] = "stat"
        /\ stamp'[r] = [catalog |-> catalogAt, tokens |-> 0]
        /\ r \notin broken' => Fits(tokensFile, catalogFile)
    BY <1>2, <1>7 DEF Begin
  <2>2. StampsAreNow'
    BY <1>2, <1>3, <1>4, <2>1 DEF ServeIInv, StampsAreNow
  <2>3. OpenedIsThere'
    <3>1. ASSUME NEW q \in Requests, rpc'[q] = "tokens"
          PROVE  /\ loadedAt.catalog = catalogAt => opened = catalogFile
                 /\ \A s \in Active' \ broken' :
                      stamp'[s].catalog = loadedAt.catalog => SameUsers(opened, catalogFile)
      <4>1. q # r /\ rpc[q] = "tokens"
        BY <1>2, <2>1, <3>1
      <4>2. loadedAt.catalog = catalogAt => opened = catalogFile
        BY <4>1 DEF ServeIInv, OpenedIsThere
      <4>3. ASSUME NEW s \in Active' \ broken', stamp'[s].catalog = loadedAt.catalog
            PROVE  SameUsers(opened, catalogFile)
        <5>1. CASE s = r
          BY <2>1, <4>2, <4>3, <5>1 DEF SameUsers
        <5>2. CASE s # r
          <6>1. s \in Active \ broken /\ stamp[s].catalog = loadedAt.catalog
            BY <1>2, <4>3, <5>2 DEF Active
          <6> QED
            BY <4>1, <6>1 DEF ServeIInv, OpenedIsThere
        <5> QED
          BY <5>1, <5>2
      <4> QED
        BY <4>2, <4>3
    <3> QED
      BY <1>2, <1>3, <3>1 DEF OpenedIsThere, SameUsers
  <2>4. UnbrokenFits'
    <3>1. ASSUME NEW s \in Active' \ broken' PROVE Fits(tokensFile, catalogFile)
      <4>1. s # r => s \in Active \ broken
        BY <1>2, <3>1 DEF Active
      <4> QED
        BY <2>1, <3>1, <4>1 DEF ServeIInv, UnbrokenFits
    <3> QED
      BY <1>2, <3>1 DEF UnbrokenFits, Fits
  <2>5. RefusalIsOld'
    <3>1. ASSUME storeLock = "nobody", loaded.ok = "no", r \notin broken',
                 catalogAt = loadedAt.catalog
          PROVE  loadedAt.tokens < tokensAt
      <4>1. Content(tokensFile, catalogFile).ok = "yes"
        BY <2>1, <3>1, ContentIs
      <4>2. loadedAt # NowAt
        BY <3>1, <4>1 DEF ServeIInv, StampsAreNow
      <4>3. loadedAt.tokens # tokensAt
        BY <1>4, <3>1, <4>2 DEF NowAt, Stamps
      <4> QED
        BY <1>4, <4>3
    <3> QED
      BY <1>2, <1>3, <2>1, <3>1 DEF ServeIInv, RefusalIsOld
  <2> QED
    BY <1>6, <2>2, <2>3, <2>4, <2>5 DEF ServeIInv
<1>8. CASE StatTokens(r) \/ End(r)
  <2>1. \/ /\ rpc[r] = "stat" /\ rpc'[r] = "lock"
           /\ stamp'[r] = [catalog |-> stamp[r].catalog, tokens |-> tokensAt]
           /\ touched' = touched /\ broken' = broken
        \/ rpc'[r] = "idle" /\ stamp'[r] = NotLoaded
    BY <1>2, <1>8 DEF StatTokens, End
  <2>2. NotLoaded.tokens = 0
    BY DEF NotLoaded
  <2>3. StampsAreNow'
    BY <1>2, <1>3, <1>4, <2>1, <2>2 DEF ServeIInv, StampsAreNow, NowAt
  <2>4. \A s \in Active' \ broken' :
          s \in Active \ broken /\ stamp'[s].catalog = stamp[s].catalog
    BY <1>2, <2>1 DEF Active
  <2>5. \A q \in Requests : rpc'[q] = "tokens" => rpc[q] = "tokens"
    BY <1>2, <2>1
  <2>6. OpenedIsThere' /\ UnbrokenFits'
    BY <1>2, <1>3, <2>4, <2>5 DEF ServeIInv, OpenedIsThere, UnbrokenFits, Fits, SameUsers
  <2>7. RefusalIsOld'
    BY <1>2, <1>3, <1>4, <2>1 DEF ServeIInv, RefusalIsOld
  <2> QED
    BY <1>6, <2>3, <2>6, <2>7 DEF ServeIInv
<1> QED
  BY <1>7, <1>8

\* It enters the lock: what is loaded is for it, or it loads the files itself.
LEMMA EnterServes ==
  ASSUME ServeIInv, SubsIInv', NEW r \in Requests, Enter(r)
  PROVE  ServeIInv'
<1>1. Request(r) /\ SubsIInv
  BY DEF Request, ServeIInv
<1>2. /\ UNCHANGED <<tokensFile, catalogFile, tokensAt, catalogAt>> /\ NowAt' = NowAt
      /\ \A q \in Requests \ {r} : rpc'[q] = rpc[q] /\ answer'[q] = answer[q]
      /\ DOMAIN rpc = Requests /\ DOMAIN answer = Requests
      /\ r # "nobody"
      /\ \A q \in Requests : rpc[q] \in {"load", "tokens"} <=> storeLock = q
  BY <1>1, RequestFrame
<1>3. /\ rpc[r] = "lock" /\ storeLock = "nobody"
      /\ UNCHANGED <<loaded, opened, stamp, touched, broken>>
  BY DEF Enter
<1>4. \A q \in Requests : rpc[q] \notin {"load", "tokens"}
  BY <1>2, <1>3, StoreAssumption
<1>5. CASE Differs(r)
  <2>1. storeLock' = r /\ loadedAt' = stamp[r] /\ rpc'[r] = "load" /\ answer' = answer
    BY <1>2, <1>5 DEF Enter
  <2>2. StampsAreNow'
    BY <1>2, <1>3, <1>4, <2>1 DEF ServeIInv, StampsAreNow
  <2>3. Active' = Active
    BY <1>2, <1>3, <2>1 DEF Active
  <2>4. OpenedIsThere' /\ UnbrokenFits' /\ RefusalIsOld' /\ ServesWhatIsThere'
    BY <1>2, <1>3, <1>4, <2>1, <2>3 DEF ServeIInv, OpenedIsThere, UnbrokenFits, Fits,
      RefusalIsOld, ServesWhatIsThere
  <2> QED
    BY <2>2, <2>4 DEF ServeIInv
<1>6. CASE ~Differs(r)
  <2>1. /\ UNCHANGED <<storeLock, loadedAt>> /\ rpc'[r] = "answer" /\ answer'[r] = loaded
        /\ stamp[r] = loadedAt
    BY <1>2, <1>6 DEF Enter, Differs
  <2>2. Active' = Active
    BY <1>2, <1>3, <2>1 DEF Active
  <2>3. StampsAreNow' /\ OpenedIsThere' /\ UnbrokenFits' /\ RefusalIsOld'
    BY <1>2, <1>3, <1>4, <2>1, <2>2 DEF ServeIInv, StampsAreNow, OpenedIsThere,
      UnbrokenFits, Fits, SameUsers, RefusalIsOld, Content
  <2>4. loaded.ok = "no" => r \in broken
    BY <1>3, <2>1 DEF ServeIInv, RefusalIsOld
  <2>5. ASSUME r \notin touched \cup broken PROVE loaded = Served(tokensFile, catalogFile)
    <3>1. loadedAt = NowAt
      BY <1>3, <2>1, <2>5 DEF ServeIInv, StampsAreNow
    <3>2. Fits(tokensFile, catalogFile)
      BY <1>3, <2>5 DEF ServeIInv, UnbrokenFits, Active
    <3> QED
      BY <1>3, <3>1, <3>2, ContentIs DEF ServeIInv, StampsAreNow
  <2>6. ServesWhatIsThere'
    BY <1>2, <1>3, <2>1, <2>4, <2>5 DEF ServeIInv, ServesWhatIsThere, Served
  <2> QED
    BY <2>3, <2>6 DEF ServeIInv
<1> QED
  BY <1>5, <1>6

\* It loads the files: under the noted stamp, what fits for every request that took it.
LEMMA LoadServes ==
  ASSUME ServeIInv, SubsIInv', NEW r \in Requests, LoadCatalog(r) \/ LoadTokens(r)
  PROVE  ServeIInv'
<1>1. Request(r) /\ SubsIInv
  BY DEF Request, ServeIInv
<1>2. /\ UNCHANGED <<tokensFile, catalogFile, tokensAt, catalogAt>> /\ NowAt' = NowAt
      /\ \A q \in Requests \ {r} : rpc'[q] = rpc[q] /\ answer'[q] = answer[q]
      /\ DOMAIN rpc = Requests /\ DOMAIN answer = Requests
      /\ r # "nobody"
      /\ \A q \in Requests : rpc[q] \in {"load", "tokens"} <=> storeLock = q
  BY <1>1, RequestFrame
<1>3. UNCHANGED <<loadedAt, stamp, touched, broken>> /\ rpc[r] \in {"load", "tokens"}
  BY DEF LoadCatalog, LoadTokens
<1>4. storeLock = r /\ loadedAt = stamp[r]
      /\ \A q \in Requests \ {r} : rpc[q] \notin {"load", "tokens"}
  BY <1>2, <1>3 DEF ServeIInv, StampsAreNow
<1>5. CASE LoadCatalog(r)
  <2>1. /\ opened' = catalogFile /\ rpc'[r] = "tokens"
        /\ UNCHANGED <<loaded, storeLock, answer>>
    BY <1>2, <1>5 DEF LoadCatalog
  <2>2. Active' = Active
    BY <1>2, <1>3, <2>1 DEF Active
  <2>3. StampsAreNow' /\ UnbrokenFits' /\ RefusalIsOld' /\ ServesWhatIsThere'
    BY <1>2, <1>3, <1>4, <2>1, <2>2 DEF ServeIInv, StampsAreNow, UnbrokenFits, Fits,
      RefusalIsOld, ServesWhatIsThere
  <2>4. OpenedIsThere'
    BY <1>2, <2>1 DEF OpenedIsThere, SameUsers
  <2> QED
    BY <2>3, <2>4 DEF ServeIInv
<1>6. CASE LoadTokens(r)
  <2>1. /\ loaded' = Content(tokensFile, opened) /\ answer'[r] = loaded'
        /\ storeLock' = "nobody" /\ rpc[r] = "tokens" /\ rpc'[r] = "answer"
    BY <1>2, <1>6 DEF LoadTokens, Content
  <2>2. Active' = Active
    BY <1>2, <1>3, <2>1 DEF Active
  <2>3. loadedAt.catalog = catalogAt => opened = catalogFile
    BY <2>1 DEF ServeIInv, OpenedIsThere
  <2>4. ASSUME NEW q \in Active \ broken, stamp[q].catalog = loadedAt.catalog
        PROVE  Fits(tokensFile, catalogFile) /\ Fits(tokensFile, opened)
    <3>1. Fits(tokensFile, catalogFile)
      BY <2>4 DEF ServeIInv, UnbrokenFits
    <3>2. SameUsers(opened, catalogFile)
      BY <2>1, <2>4 DEF ServeIInv, OpenedIsThere
    <3> QED
      BY <3>1, <3>2, FitsBoth
  <2>5. loaded'.ok = "yes" <=> Fits(tokensFile, opened)
    BY <2>1, ContentIs
  <2>6. StampsAreNow'
    <3>1. loadedAt = NowAt => loaded' = Content(tokensFile, catalogFile)
      BY <2>1, <2>3 DEF NowAt
    <3>2. Content(tokensFile, catalogFile)' = Content(tokensFile, catalogFile)
      BY <1>2 DEF Content, Fits, Served, Refusal
    <3> QED
      BY <1>2, <1>3, <1>4, <2>1, <3>1, <3>2 DEF ServeIInv, StampsAreNow
  <2>7. OpenedIsThere' /\ UnbrokenFits'
    BY <1>2, <1>3, <1>4, <2>1, <2>2 DEF ServeIInv, OpenedIsThere, UnbrokenFits, Fits
  <2>8. RefusalIsOld'
    <3>1. \A q \in Requests \ broken :
            rpc'[q] \in {"stat", "lock"} /\ stamp[q].catalog = loadedAt.catalog =>
              loaded'.ok = "yes"
      BY <1>2, <2>1, <2>4, <2>5 DEF Active
    <3> QED
      BY <1>3, <3>1 DEF RefusalIsOld
  <2>9. ServesWhatIsThere'
    <3>1. r \notin broken => loaded'.ok = "yes"
      BY <1>4, <2>1, <2>4, <2>5 DEF Active
    <3>2. ASSUME r \notin touched \cup broken
          PROVE  loaded' = Served(tokensFile, catalogFile)
      <4>1. loadedAt = NowAt
        BY <1>4, <2>1, <3>2 DEF ServeIInv, StampsAreNow
      <4>2. opened = catalogFile
        BY <2>3, <4>1 DEF NowAt
      <4>3. Fits(tokensFile, opened)
        BY <1>4, <2>1, <2>4, <3>2 DEF Active
      <4> QED
        BY <2>1, <4>2, <4>3, ContentIs
    <3> QED
      BY <1>2, <1>3, <2>1, <3>1, <3>2 DEF ServeIInv, ServesWhatIsThere, Served
  <2> QED
    BY <2>6, <2>7, <2>8, <2>9 DEF ServeIInv
<1> QED
  BY <1>5, <1>6

LEMMA ServeInit == SubsInit => ServeIInv
<1> SUFFICES ASSUME SubsInit PROVE ServeIInv
  OBVIOUS
<1>1. SubsIInv
  BY SubsInitInv
<1>2. NotLoaded.catalog = 0 /\ NotLoaded.tokens = 0
  BY DEF NotLoaded
<1>3. /\ tokensAt = 1 /\ catalogAt = 1 /\ loadedAt = NotLoaded
      /\ \A r \in Requests : rpc[r] = "idle" /\ stamp[r] = NotLoaded
  BY DEF SubsInit
<1>4. StampsAreNow
  BY <1>2, <1>3 DEF StampsAreNow, NowAt
<1> QED
  BY <1>1, <1>3, <1>4 DEF ServeIInv, OpenedIsThere, UnbrokenFits, Active, RefusalIsOld,
    ServesWhatIsThere

LEMMA ServeStutter ==
  ASSUME ServeIInv, SubsIInv', UNCHANGED allVars
  PROVE  ServeIInv'
<1>1. UNCHANGED <<tokensFile, catalogFile, tokensAt, catalogAt, loadedAt, loaded, storeLock,
                  opened, rpc, stamp, answer, touched, broken>>
  BY DEF allVars, subsVars, storeVars, requestVars, vars, fileVars
<1>2. Active' = Active /\ NowAt' = NowAt
  BY <1>1 DEF Active, NowAt
<1> QED
  BY <1>1, <1>2 DEF ServeIInv, StampsAreNow, Content, Fits, OpenedIsThere, SameUsers,
    UnbrokenFits, RefusalIsOld, ServesWhatIsThere, Served

\* Any number of requests and publishes at a time: while the files stay as they are a
\* request is answered from them, and only a request that saw files that do not fit is
\* refused (Store.current, its lock and the stamp noted before reading).
THEOREM AnswersFromTheFiles == SubsSpec => []ServesWhatIsThere
<1>1. ServeIInv /\ [SubsNext]_allVars => ServeIInv'
  <2> SUFFICES ASSUME ServeIInv, [SubsNext]_allVars PROVE ServeIInv'
    OBVIOUS
  <2>1. SubsIInv'
    BY ConsoleInv, RequestInv, SubsStutter DEF SubsNext, ServeIInv
  <2> QED
    BY <2>1, ConsoleServes, StampServes, EnterServes, LoadServes, ServeStutter
    DEF SubsNext, Request
<1>2. ServeIInv => ServesWhatIsThere
  BY DEF ServeIInv
<1> QED
  BY <1>1, <1>2, ServeInit, PTL DEF SubsSpec
=============================================================================
