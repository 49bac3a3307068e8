------------------------------- MODULE Publish -------------------------------
(***************************************************************************)
(* Publishing the subscription data.                                       *)
(*                                                                         *)
(* The administration pages and the Telegram bot change users and their    *)
(* subscription addresses (tokens) in the console's database and publish   *)
(* afterwards; a watcher thread of the pages publishes when a registration *)
(* file, the day or the users a node runs changed since its last look      *)
(* (console/web_app.py, console/bot.py).  A publish (console/publish.py)   *)
(* takes a lock file, reads the registration files and the tables one      *)
(* after the other, builds both documents and replaces tokens.json, then   *)
(* catalog.json.  The database commits every statement by itself, so       *)
(* changes of the others fall between these reads.                         *)
(*                                                                         *)
(* A process may stop anywhere (the lock goes with it), a write may fail,  *)
(* and a shown node without its registration file stops a publish.         *)
(*                                                                         *)
(* One shown node.  Tokens and credentials are numbered: a new one is      *)
(* greater than every earlier one of its user.  Each process handles one   *)
(* request at a time.                                                      *)
(***************************************************************************)
EXTENDS Naturals

CONSTANTS
  Users,
  NoUser,      \* in a catalog: not a user
  MaxChanges,  \* bound: changes of any kind
  MaxFails     \* bound: crashes and failed writes

ASSUME PublishAssumption ==
  /\ NoUser \notin Nat
  /\ MaxChanges \in Nat /\ MaxFails \in Nat

Handlers == {"web", "bot"}
Publishers == Handlers \cup {"watcher"}

VARIABLES
  \* the console's database
  token,       \* a user's token, 0 for none
  lastToken,   \* the newest token the user ever had
  cred,        \* the user's credentials (UUID)
  on,          \* active and unexpired users
  running,     \* node_sync: the users the node said it runs
  \* around it
  registry,    \* the registration file of the node: is it there, and its stamp
  day,
  past,        \* ghost: user lists the node had earlier
  \* the publishers
  pc,
  holder,      \* who holds publish.lock
  view,        \* what a publish has read so far
  mine,        \* the first token still good after the change at hand, per user
  looked,      \* the watcher: what it saw when it decided to publish
  published,   \* the watcher: what it saw when it last published
  tokensFile, catalogFile,
  \* what the properties look back at
  said,        \* the first token good since a handler reported success
  owed,        \* a change was not published: its handler failed or stopped
  covers,      \* the publish at hand began after that
  changes, fails

dbVars == <<token, lastToken, cred, on>>
worldVars == <<running, registry, day, past>>
fileVars == <<tokensFile, catalogFile>>
tellVars == <<said, owed, covers>>
watchVars == <<looked, published>>
bounds == <<changes, fails>>
vars == <<dbVars, worldVars, pc, holder, view, mine, watchVars, fileVars,
          tellVars, bounds>>

Tokens == [Users -> Nat]
Catalog == [Users -> Nat \cup {NoUser}]
Watched == [stamp : Nat, day : Nat, synced : SUBSET Users]
View == [there : {"yes", "no"}, creds : Tokens, node : SUBSET Users, tokens : Tokens]
NotYet == [stamp |-> 0, day |-> 0, synced |-> {}]

\* The subscriptions to serve: the tokens of active users.
Live == [u \in Users |-> IF u \in on THEN token[u] ELSE 0]

\* publish.build: users are those with a token; an entry for the node when they
\* run there, 0 for none.
Build(tokens, creds, node) ==
  [u \in Users |-> IF tokens[u] = 0 THEN NoUser
                   ELSE IF u \in node THEN creds[u] ELSE 0]

TypeOK ==
  /\ token \in Tokens /\ lastToken \in Tokens /\ cred \in Tokens
  /\ on \in SUBSET Users /\ running \in SUBSET Users
  /\ registry \in [there : {"yes", "no"}, stamp : Nat \ {0}]
  /\ day \in Nat /\ past \in SUBSET SUBSET Users
  /\ pc \in [Publishers -> {"idle", "lock", "creds", "node", "tokens", "active",
                            "first", "second"}]
  /\ holder \in Publishers \cup {"nobody"}
  /\ view \in [Publishers -> View]
  /\ mine \in [Publishers -> Tokens]
  /\ looked \in Watched /\ published \in Watched
  /\ tokensFile \in Tokens /\ catalogFile \in Catalog
  /\ said \in Tokens
  /\ owed \in {"yes", "no"} /\ covers \in {"yes", "no"}
  /\ changes \in Nat /\ fails \in Nat

None == [u \in Users |-> 0]
Unread == [there |-> "no", creds |-> None, node |-> {}, tokens |-> None]

Init ==
  /\ token = [u \in Users |-> 1] /\ lastToken = token
  /\ cred = [u \in Users |-> 1]
  /\ on = Users /\ running = Users
  /\ registry = [there |-> "yes", stamp |-> 1]
  /\ day = 0 /\ past = {}
  /\ pc = [p \in Publishers |-> "idle"] /\ holder = "nobody"
  /\ view = [p \in Publishers |-> Unread]
  /\ mine = [p \in Publishers |-> None]
  /\ looked = NotYet /\ published = NotYet
  /\ tokensFile = Live
  /\ catalogFile = Build(Live, cred, running)
  /\ said = None /\ owed = "no" /\ covers = "no"
  /\ changes = 0 /\ fails = 0

Bounded == changes < MaxChanges /\ changes' = changes + 1

-----------------------------------------------------------------------------
(***************************************************************************)
(* Changes.                                                                *)
(***************************************************************************)

\* A handler commits its change and goes on to publish; good[u] is the first
\* token of u that still works then.
Commit(p, good) ==
  /\ pc[p] = "idle"
  /\ Bounded
  /\ pc' = [pc EXCEPT ![p] = "lock"]
  /\ mine' = [mine EXCEPT ![p] = good]
  /\ UNCHANGED <<worldVars, holder, view, watchVars, fileVars, tellVars, fails>>

From(u, t) == [None EXCEPT ![u] = t]

IssueToken(p, u) ==
  /\ token[u] = 0 /\ u \in on
  /\ token' = [token EXCEPT ![u] = lastToken[u] + 1]
  /\ lastToken' = [lastToken EXCEPT ![u] = lastToken[u] + 1]
  /\ UNCHANGED <<cred, on>>
  /\ Commit(p, None)

\* One transaction: the address and the credentials it carried.
RotateToken(p, u) ==
  /\ token[u] # 0
  /\ token' = [token EXCEPT ![u] = lastToken[u] + 1]
  /\ lastToken' = [lastToken EXCEPT ![u] = lastToken[u] + 1]
  /\ cred' = [cred EXCEPT ![u] = cred[u] + 1]
  /\ UNCHANGED on
  /\ Commit(p, From(u, lastToken[u] + 1))

RevokeToken(p, u) ==
  /\ p = "web"
  /\ token[u] # 0
  /\ token' = [token EXCEPT ![u] = 0]
  /\ UNCHANGED <<lastToken, cred, on>>
  /\ Commit(p, From(u, lastToken[u] + 1))

\* Enabled, disabled, or given another expiry date.
SetStatus(p, u) ==
  /\ on' = IF u \in on THEN on \ {u} ELSE on \cup {u}
  /\ UNCHANGED <<token, lastToken, cred>>
  /\ Commit(p, None)

DeleteUser(p, u) ==
  /\ p = "web"
  /\ u \in on
  /\ token' = [token EXCEPT ![u] = 0]
  /\ on' = on \ {u}
  /\ UNCHANGED <<lastToken, cred>>
  /\ Commit(p, From(u, lastToken[u] + 1))

PublishNow ==
  /\ UNCHANGED dbVars
  /\ Commit("web", None)

\* The day changes and a user expires.
NewDay ==
  /\ Bounded
  /\ \E u \in on : on' = on \ {u}
  /\ day' = day + 1
  /\ UNCHANGED <<token, lastToken, cred, running, registry, past, pc, holder,
                 view, mine, watchVars, fileVars, tellVars, fails>>

\* The node's agent reports the users it runs (POST /sync).
NodeReports ==
  /\ Bounded
  /\ running' \in SUBSET Users \ {running}
  /\ past' = past \cup {running}
  /\ UNCHANGED <<dbVars, registry, day, pc, holder, view, mine, watchVars,
                 fileVars, tellVars, fails>>

\* A deployment writes the registration file, or it is removed.
Register ==
  /\ Bounded
  /\ \E there \in {"yes", "no"} :
       registry' = [there |-> there, stamp |-> registry.stamp + 1]
  /\ UNCHANGED <<dbVars, running, day, past, pc, holder, view, mine, watchVars,
                 fileVars, tellVars, fails>>

-----------------------------------------------------------------------------
(***************************************************************************)
(* A publish.                                                              *)
(***************************************************************************)

WithoutSync == [stamp |-> registry.stamp, day |-> day, synced |-> {}]

\* Watcher.tick: what it compares, read before the lock is taken.
Now == [stamp |-> registry.stamp, day |-> day, synced |-> running]

WatcherTick ==
  /\ pc["watcher"] = "idle"
  /\ Now # published
  /\ looked' = Now
  /\ pc' = [pc EXCEPT !["watcher"] = "lock"]
  /\ UNCHANGED <<dbVars, worldVars, holder, view, mine, published, fileVars, tellVars,
                 bounds>>

NoLock == TRUE

\* flock(LOCK_EX)
LockIsFree == holder = "nobody"

Lock(p) ==
  /\ pc[p] = "lock"
  /\ LockIsFree
  /\ holder' = p
  /\ pc' = [pc EXCEPT ![p] = "creds"]
  /\ covers' = "yes"
  /\ UNCHANGED <<dbVars, worldVars, view, mine, watchVars, fileVars, said, owed,
                 bounds>>

Read(p, from, to) ==
  /\ pc[p] = from
  /\ pc' = [pc EXCEPT ![p] = to]
  /\ UNCHANGED <<dbVars, worldVars, holder, mine, watchVars, fileVars, tellVars,
                 bounds>>

\* registry.current, and effective_nodes' first read: the users.
ReadCreds(p) ==
  /\ Read(p, "creds", "node")
  /\ view' = [view EXCEPT ![p] =
       [there |-> registry.there, creds |-> cred, node |-> {}, tokens |-> None]]

\* effective_nodes' second read: what the node runs.
ReadNode(p) ==
  /\ Read(p, "node", "tokens")
  /\ view' = [view EXCEPT ![p] =
       [there |-> @.there, creds |-> @.creds, node |-> running, tokens |-> None]]

ReadTokens(p) ==
  /\ Read(p, "tokens", "active")
  /\ view' = [view EXCEPT ![p] =
       [there |-> @.there, creds |-> @.creds, node |-> @.node, tokens |-> token]]

AllTokens(tokens) == tokens

\* The active users, at last: the others' tokens are left out.
OnlyActive(tokens) == [u \in Users |-> IF u \in on THEN tokens[u] ELSE 0]

ReadActive(p) ==
  /\ view[p].there = "yes"
  /\ Read(p, "active", "first")
  /\ view' = [view EXCEPT ![p] =
       [there |-> @.there, creds |-> @.creds, node |-> @.node,
        tokens |-> OnlyActive(@.tokens)]]

Finish(p) ==
  /\ pc' = [pc EXCEPT ![p] = "idle"]
  /\ holder' = "nobody"
  /\ published' = IF p = "watcher" THEN looked ELSE published
  /\ view' = [view EXCEPT ![p] = Unread]
  /\ mine' = [mine EXCEPT ![p] = None]
  /\ looked' = IF p = "watcher" THEN NotYet ELSE looked
  /\ UNCHANGED <<dbVars, worldVars>>

\* PublishError: a shown node without a registration file.  The error is logged
\* and told; the watcher does not try again before something changes.
NodeMissing(p) ==
  /\ pc[p] = "active"
  /\ view[p].there = "no"
  /\ Finish(p)
  /\ owed' = "yes" /\ covers' = "no"
  /\ UNCHANGED <<fileVars, said, bounds>>

WriteTokens(p) ==
  /\ pc[p] = "first"
  /\ tokensFile' = view[p].tokens
  /\ pc' = [pc EXCEPT ![p] = "second"]
  /\ UNCHANGED <<dbVars, worldVars, holder, view, mine, watchVars, catalogFile,
                 tellVars, bounds>>

Later(s, t) == [u \in Users |-> IF s[u] > t[u] THEN s[u] ELSE t[u]]

\* The second file ends a publish; its handler says so.
WriteCatalog(p) ==
  /\ pc[p] = "second"
  /\ catalogFile' = Build(view[p].tokens, view[p].creds, view[p].node)
  /\ Finish(p)
  /\ said' = Later(said, mine[p])
  /\ owed' = IF covers = "yes" THEN "no" ELSE owed
  /\ UNCHANGED <<tokensFile, covers, bounds>>

Failure == fails < MaxFails /\ fails' = fails + 1

\* An OSError before either file is replaced.
WriteFails(p) ==
  /\ pc[p] \in {"first", "second"}
  /\ Failure
  /\ Finish(p)
  /\ owed' = "yes" /\ covers' = "no"
  /\ UNCHANGED <<fileVars, said, changes>>

\* The pages and their watcher are one process; it publishes when it starts.
ConsoleStops ==
  /\ Failure
  /\ pc' = [p \in Publishers |-> IF p = "bot" THEN pc[p] ELSE "idle"]
  /\ holder' = IF holder = "bot" THEN "bot" ELSE "nobody"
  /\ view' = [p \in Publishers |-> IF p = "bot" THEN view[p] ELSE Unread]
  /\ mine' = [p \in Publishers |-> IF p = "bot" THEN mine[p] ELSE None]
  /\ looked' = NotYet /\ published' = NotYet
  /\ owed' = "yes" /\ covers' = "no"
  /\ UNCHANGED <<dbVars, worldVars, fileVars, said, changes>>

BotStops ==
  /\ pc["bot"] # "idle"
  /\ Failure
  /\ pc' = [pc EXCEPT !["bot"] = "idle"]
  /\ holder' = IF holder = "bot" THEN "nobody" ELSE holder
  /\ view' = [view EXCEPT !["bot"] = Unread]
  /\ mine' = [mine EXCEPT !["bot"] = None]
  /\ owed' = "yes" /\ covers' = "no"
  /\ UNCHANGED <<dbVars, worldVars, watchVars, fileVars, said, changes>>

-----------------------------------------------------------------------------
Handler(p) ==
  \E u \in Users :
    \/ IssueToken(p, u) \/ RotateToken(p, u) \/ RevokeToken(p, u)
    \/ SetStatus(p, u) \/ DeleteUser(p, u)

World == NewDay \/ NodeReports \/ Register

Step(p) ==
  \/ Lock(p) \/ ReadCreds(p) \/ ReadNode(p) \/ ReadTokens(p) \/ ReadActive(p)
  \/ NodeMissing(p) \/ WriteTokens(p) \/ WriteCatalog(p)

PublishNext ==
  \/ \E p \in Handlers : Handler(p)
  \/ PublishNow \/ World \/ WatcherTick
  \/ \E p \in Publishers : Step(p) \/ WriteFails(p)
  \/ ConsoleStops \/ BotStops

PublishSpec == Init /\ [][PublishNext]_vars

\* The watcher looks again and again, and a publish that is not cut off ends; the
\* lock is given to whoever asks for it again and again.
Fairness ==
  /\ WF_vars(WatcherTick)
  /\ \A p \in Publishers : SF_vars(Lock(p)) /\ WF_vars(Step(p))

FairSpec == PublishSpec /\ Fairness

-----------------------------------------------------------------------------
(***************************************************************************)
(* Properties.                                                             *)
(***************************************************************************)

\* Once a handler reported success for a reset, a revocation or a deletion ("the
\* old address no longer works"), tokens.json never holds an address it replaced,
\* whatever other publish was under way, fails or is cut off.
SaidHolds == \A u \in Users : tokensFile[u] = 0 \/ tokensFile[u] >= said[u]

\* When nobody publishes and every change was followed by a publish that did not
\* fail, the files hold the addresses of the active users and their present
\* credentials: the last publish was never made from older data.  One later
\* publish makes up for a failed one, whatever it left undone.
Quiet == \A p \in Publishers : pc[p] = "idle"

Current ==
  /\ tokensFile = Live
  /\ \A u \in Users :
       /\ catalogFile[u] = NoUser <=> Live[u] = 0
       /\ catalogFile[u] \in {NoUser, 0, cred[u]}

FilesFollow == Quiet /\ owed = "no" /\ published.day = day => Current

\* In the end the catalog holds the users the node runs, unless a publish failed
\* or the node's list came back to an earlier value: a publish of
\* pages or bot in between then stays, for the watcher compares with what it saw itself.
NodeIsCurrent ==
  \A u \in Users :
    catalogFile[u] # NoUser => (catalogFile[u] # 0 <=> u \in running)

Settles == <>[](NodeIsCurrent \/ owed = "yes" \/ running \in past)
=============================================================================
