----------------------------- MODULE BotUpdates -----------------------------
(***************************************************************************)
(* The Telegram bot (console/bot.py) beside the pages of the console.      *)
(*                                                                         *)
(* The bot is one process that takes one update after another, reads and   *)
(* writes the console's database statement by statement, and stores after  *)
(* each update where to go on.  The pages (console/web_app.py) change the  *)
(* same rows from another process between any two of its statements.  The  *)
(* bot may stop anywhere; Telegram then delivers the update it had not yet *)
(* stored once more, and the questions it had asked are forgotten.         *)
(*                                                                         *)
(* Codes are numbers, drawn anew each time.  Which address a user has does *)
(* not matter here, only whether there is one, and the credentials that a  *)
(* reset also changes are left out.  Publishing is a step that works or    *)
(* fails: its own specification is Publish.                                *)
(***************************************************************************)
EXTENDS Integers, Sequences, FiniteSets

CONSTANTS
  Users,         \* names of users
  Accounts,      \* Telegram accounts
  Admins,        \* the accounts that are administrators
  Nobody,        \* no account, no user
  Owner,         \* the account each user is bound to at the beginning
  LinkTime,      \* BIND_SECONDS, in ticks
  ConfirmTime,   \* CONFIRM_SECONDS, in ticks
  MaxUpdates,    \* bound of the model: updates sent to the bot
  MaxEvents      \* bound of the model: ticks, changes by events of the bot

ASSUME BotAssumption ==
  /\ IsFiniteSet(Users) /\ Admins \subseteq Accounts
  /\ Nobody \notin Users \cup Accounts
  /\ Owner \in [Users -> Accounts \cup {Nobody}]
  /\ \A u, w \in Users : Owner[u] = Owner[w] => u = w \/ Owner[u] = Nobody
  /\ {LinkTime, ConfirmTime, MaxUpdates, MaxEvents} \subseteq Nat

VARIABLES
  status,    \* users: "absent" without a row
  bound,     \* users.telegram_id
  tokens,    \* tokens: the users that have an address
  links,     \* bot_links: rows [user, code, until]
  saved,     \* settings.bot_offset: updates done with
  now,
  pc,        \* where the bot is in its loop
  update,    \* the update in hand
  job,       \* what remains of it: [do, user]
  pending,   \* Bot.pending: questions asked, [code, do, user, from, at]
  taken,     \* updates Telegram has handed out
  codes,     \* codes drawn for links
  valid,     \* ghost: the code the administrator last made for a user and has
             \* not voided, 0 once it was used
  asked,     \* ghost: every question asked
  did,       \* ghost: confirmations carried out, [code, from, at]
  owners,    \* ghost: <<account, user>> bound at some time of this update
  sent,      \* ghost: <<account, user>> this update sent an address to, and whose
  events     \* bound: what has happened to the bot so far

db == <<status, bound, tokens, links>>
bot == <<saved, pc, update, job, pending>>
ghosts == <<asked, did, sent>>
bounds == <<taken, codes, valid, events>>
vars == <<db, bot, owners, ghosts, bounds, now>>

Commands == {"sub", "status", "reset", "unbind"}
AdminCommands == {"adduser", "issue", "bind", "disable", "enable"}
Updates ==
  [from : Accounts, what : {"start", "yes", "no"}, arg : Nat]
    \cup [from : Accounts, what : Commands, arg : {0}]
    \cup [from : Accounts, what : AdminCommands, arg : Users]
Question ==
  [code : Nat, do : {"reset", "unbind", "disable"}, user : Users,
   from : Accounts, at : Nat]
NoUpdate == [from |-> Nobody, what |-> "none", arg |-> 0]
NoJob == [do |-> "none", user |-> Nobody]

TypeOK ==
  /\ status \in [Users -> {"absent", "active", "disabled"}]
  /\ bound \in [Users -> Accounts \cup {Nobody}]
  /\ tokens \in SUBSET Users
  /\ links \in SUBSET [user : Users, code : Nat, until : Nat]
  /\ valid \in [Users -> Nat]
  /\ {saved, now, taken, codes, events} \subseteq Nat
  /\ pc \in {"down", "poll", "handle", "act", "publish", "tell", "store"}
  /\ update \in Updates \cup {NoUpdate}
  /\ job \in [do : {"show", "reset", "unbind", "issue", "link"}, user : Users]
               \cup {NoJob}
  /\ pending \in SUBSET Question /\ asked \in SUBSET Question
  /\ did \in Seq([code : Nat, from : Accounts, at : Nat])
  /\ owners \in SUBSET (Accounts \X Users)
  /\ sent \in SUBSET (Accounts \X Users)

Bindings == {p \in Accounts \X Users : bound[p[2]] = p[1]}

\* by_telegram: the user an account is bound to (telegram_id is UNIQUE).
UserOf(a) == IF \E u \in Users : bound[u] = a
               THEN CHOOSE u \in Users : bound[u] = a ELSE Nobody

Init ==
  /\ status = [u \in Users |-> "active"] /\ tokens = Users
  /\ bound = Owner
  /\ links = {} /\ codes = 0 /\ valid = [u \in Users |-> 0]
  /\ saved = 0 /\ taken = 0 /\ now = 0
  /\ pc = "down" /\ update = NoUpdate /\ job = NoJob /\ pending = {}
  /\ asked = {} /\ did = <<>> /\ owners = {} /\ sent = {}
  /\ events = 0

-----------------------------------------------------------------------------
(***************************************************************************)
(* The rows, changed by the bot and by the pages alike.                    *)
(***************************************************************************)

Present(names) == \A u \in names : status[u] # "absent"

Without(names) == {l \in links : l.user \notin names}

\* new_bind_link: one row per user, the new code replaces the old.
NewLinks(names) ==
  \E code \in [names -> codes + 1 .. codes + Cardinality(names)] :
    /\ \A u, w \in names : u # w => code[u] # code[w]
    /\ codes' = codes + Cardinality(names)
    /\ valid' = [u \in Users |-> IF u \in names THEN code[u] ELSE valid[u]]
    /\ links' = Without(names)
                  \cup {[user |-> u, code |-> code[u], until |-> now + LinkTime] :
                          u \in names}

-----------------------------------------------------------------------------
(***************************************************************************)
(* The bot's loop.                                                         *)
(***************************************************************************)

Event == events < MaxEvents /\ events' = events + 1

Goto(step) == pc' = step
Done == pc' = "store" /\ job' = NoJob

Start ==
  /\ pc = "down"
  /\ Goto(IF saved = taken THEN "poll" ELSE "handle")
  /\ owners' = Bindings
  /\ UNCHANGED <<db, saved, update, job, pending, ghosts, bounds, now>>

\* What an account can send: a command, a link it was given, a button it was shown.
Sendable ==
  [from : Accounts, what : {"start"}, arg : 1 .. codes]
    \cup [from : Accounts, what : Commands, arg : {0}]
    \cup [from : Admins, what : AdminCommands, arg : Users]
    \cup UNION {[from : {q.from}, what : {"yes", "no"}, arg : {q.code}] : q \in asked}

Receive ==
  /\ pc = "poll" /\ taken < MaxUpdates
  /\ update' \in Sendable
  /\ taken' = taken + 1
  /\ Goto("handle")
  /\ owners' = Bindings
  /\ UNCHANGED <<db, saved, job, pending, ghosts, codes, valid, events, now>>

Store ==
  /\ pc = "store"
  /\ saved' = taken
  /\ update' = NoUpdate
  /\ owners' = {} /\ sent' = {}
  /\ Goto("poll")
  /\ UNCHANGED <<db, job, pending, asked, did, bounds, now>>

\* The process ends and with it what it only remembers.
Stop ==
  /\ pc # "down"
  /\ Event
  /\ Goto("down") /\ job' = NoJob
  /\ pending' = {}
  /\ owners' = {} /\ sent' = {}
  /\ UNCHANGED <<db, saved, update, asked, did, taken, codes, valid, now>>

\* A message in hand, or a button.
Message(whats) == pc = "handle" /\ update.what \in whats
Button == Message({"yes", "no"})

Kept == pending

\* Buttons are taken out of pending before anything else is done about them.
Popped == {q \in pending : ~Button \/ q.code # update.arg}

Again == Goto("handle") /\ job' = NoJob

Skip == Done

\* The rate limit, before a button is taken out; no such user, a message Telegram does
\* not take, a database that is locked: the update is given up and done with.
GiveUp ==
  /\ pc \in {"handle", "act", "publish", "tell"}
  /\ pending' \in {pending, Popped}
  /\ Skip
  /\ UNCHANGED <<db, saved, update, owners, ghosts, bounds, now>>

-----------------------------------------------------------------------------
(***************************************************************************)
(* Messages.                                                               *)
(***************************************************************************)

\* /start with a code: in one transaction the link is looked up, the account
\* bound, which takes the user away from another account, and the link deleted.  A
\* user deleted before the link was written has a link, and no row to bind.
LinkStays(l) == links

Redeemed(l) == links \ {l}

Redeem(l) ==
  LET a == update.from
  IN  /\ l.code = update.arg /\ l.until > now
      /\ UserOf(a) \in {Nobody, l.user}
      /\ bound' = IF Present({l.user}) THEN [bound EXCEPT ![l.user] = a] ELSE bound
      /\ links' = Redeemed(l)
      /\ valid' = [valid EXCEPT ![l.user] = 0]
      /\ owners' = owners \cup Bindings'

Bind ==
  /\ Message({"start"})
  /\ \E l \in links : Redeem(l)
  /\ Done
  /\ UNCHANGED <<status, tokens, saved, update, pending, ghosts, taken, codes,
                 events, now>>

\* A question with two buttons; the ones no longer answered in time are dropped.
InTime(q) == now - q.at < ConfirmTime

Ask(do, u) ==
  LET q == [code |-> Cardinality(asked) + 1, do |-> do, user |-> u,
            from |-> update.from, at |-> now]
  IN  /\ asked' = asked \cup {q}
      /\ pending' = {p \in pending : InTime(p)} \cup {q}

\* /reset and /unbind of the user the account is bound to.
AskUser ==
  LET u == UserOf(update.from)
  IN  /\ Message({"reset", "unbind"})
      /\ u # Nobody
      /\ update.what = "reset" => u \in tokens
      /\ Ask(update.what, u)
      /\ Done
      /\ UNCHANGED <<db, saved, update, owners, did, sent, bounds, now>>

AskDisable ==
  /\ Message({"disable"}) /\ update.from \in Admins
  /\ status[update.arg] = "active"
  /\ Ask("disable", update.arg)
  /\ Done
  /\ UNCHANGED <<db, saved, update, owners, did, sent, bounds, now>>

\* /sub and /status look the user up; /sub also needs the user active.
Show ==
  LET u == UserOf(update.from)
  IN  /\ Message({"sub", "status"})
      /\ u # Nobody
      /\ update.what = "sub" => status[u] = "active"
      /\ Goto("act")
      /\ job' = [do |-> "show", user |-> u]
      /\ UNCHANGED <<db, saved, update, pending, owners, ghosts, bounds, now>>

Send(u) == sent' = sent \cup {<<update.from, u>>}

SendAddress ==
  /\ pc = "act" /\ job.do = "show"
  /\ job.user \in tokens
  /\ Send(job.user)
  /\ Done
  /\ UNCHANGED <<db, saved, update, pending, owners, asked, did, bounds, now>>

\* /adduser and /enable: a check that the write makes again.  Publishing afterwards
\* changes none of these rows.
AddUser(u) ==
  /\ status[u] = "absent"
  /\ status' = [status EXCEPT ![u] = "active"]
  /\ UNCHANGED <<links, codes, valid>>

Enable(u) ==
  /\ status[u] = "disabled"
  /\ status' = [status EXCEPT ![u] = "active"]
  /\ UNCHANGED <<links, codes, valid>>

Administer ==
  /\ pc = "handle" /\ update.from \in Admins
  /\ \/ update.what = "adduser" /\ AddUser(update.arg)
     \/ update.what = "enable" /\ Enable(update.arg)
  /\ Done
  /\ UNCHANGED <<bound, tokens, saved, update, pending, owners, ghosts, taken,
                 events, now>>

\* /issue looks first whether there is an address; the row is inserted by a
\* statement of its own, and is refused when one has come meanwhile.
Issue ==
  LET u == update.arg
  IN  /\ Message({"issue"}) /\ update.from \in Admins
      /\ status[u] = "active" /\ u \notin tokens
      /\ Goto("act") /\ job' = [do |-> "issue", user |-> u]
      /\ UNCHANGED <<db, saved, update, pending, owners, ghosts, bounds, now>>

InsertToken ==
  /\ pc = "act" /\ job.do = "issue"
  /\ job.user \notin tokens
  /\ tokens' = tokens \cup {job.user}
  /\ Done
  /\ UNCHANGED <<status, bound, links, saved, update, pending, owners, ghosts,
                 bounds, now>>

\* /bind looks for the user; the link is written by a statement of its own.
Link ==
  LET u == update.arg
  IN  /\ Message({"bind"}) /\ update.from \in Admins
      /\ Present({u})
      /\ Goto("act") /\ job' = [do |-> "link", user |-> u]
      /\ UNCHANGED <<db, saved, update, pending, owners, ghosts, bounds, now>>

InsertLink ==
  /\ pc = "act" /\ job.do = "link"
  /\ NewLinks({job.user})
  /\ Done
  /\ UNCHANGED <<status, bound, tokens, saved, update, pending, owners, ghosts,
                 taken, events, now>>

-----------------------------------------------------------------------------
(***************************************************************************)
(* Buttons.                                                                *)
(***************************************************************************)

Answers(q) ==
  /\ Button /\ update.what = "yes"
  /\ q \in pending /\ q.code = update.arg /\ q.from = update.from /\ InTime(q)

CarryOut(q) ==
  did' = Append(did, [code |-> q.code, from |-> update.from, at |-> now])

ConfirmDisable(q) ==
  /\ Answers(q) /\ q.do = "disable"
  /\ update.from \in Admins /\ status[q.user] # "absent"
  /\ CarryOut(q)
  /\ status' = [status EXCEPT ![q.user] = "disabled"]
  /\ pending' = Popped
  /\ Done
  /\ UNCHANGED <<bound, tokens, links, saved, update, owners, asked, sent,
                 bounds, now>>

BoundToAny(q) == UserOf(update.from) # Nobody

\* The account may have been bound to another user since it was asked.
StillBound(q) == UserOf(update.from) = q.user

ConfirmOwn(q) ==
  /\ Answers(q) /\ q.do \in {"reset", "unbind"}
  /\ StillBound(q)
  /\ CarryOut(q)
  /\ pending' = Popped
  /\ Goto("act") /\ job' = [do |-> q.do, user |-> q.user]
  /\ UNCHANGED <<db, saved, update, owners, asked, sent, bounds, now>>

Unbind ==
  /\ pc = "act" /\ job.do = "unbind"
  /\ bound' = [bound EXCEPT ![job.user] = Nobody]
  /\ Done
  /\ UNCHANGED <<status, tokens, links, saved, update, pending, owners, ghosts,
                 bounds, now>>

\* do_reset: the new address takes the old one's place, then it is
\* published, then read again and sent.
Rotate ==
  /\ pc = "act" /\ job.do = "reset"
  /\ job.user \in tokens /\ status[job.user] # "absent"
  /\ Goto("publish")
  /\ UNCHANGED <<db, saved, update, job, pending, owners, ghosts, bounds, now>>

Published ==
  /\ pc = "publish"
  /\ Goto("tell")
  /\ UNCHANGED <<db, saved, update, job, pending, owners, ghosts, bounds, now>>

Tell ==
  /\ pc = "tell"
  /\ job.user \in tokens
  /\ Send(job.user)
  /\ Done
  /\ UNCHANGED <<db, saved, update, pending, owners, asked, did, bounds, now>>

Handle ==
  \/ Bind \/ AskUser \/ AskDisable \/ Show \/ SendAddress \/ Administer
  \/ Issue \/ InsertToken \/ Link \/ InsertLink \/ Unbind \/ Rotate \/ Published \/ Tell
  \/ \E q \in pending : ConfirmDisable(q) \/ ConfirmOwn(q)

Bot == Start \/ Receive \/ Handle \/ GiveUp \/ Store

-----------------------------------------------------------------------------
(***************************************************************************)
(* The pages.  A handler does not give way to another page's; its          *)
(* publishing comes after its writes and is left out, as is a new address  *)
(* in place of an old one.                                                 *)
(***************************************************************************)

\* /users/new
PageNew(u) == AddUser(u) /\ UNCHANGED <<bound, tokens>>

\* /users/{name}/issue and /users/bulk-issue.
PageIssue(names) ==
  /\ \A u \in names : status[u] = "active" /\ u \notin tokens
  /\ tokens' = tokens \cup names
  /\ UNCHANGED <<status, bound, links, codes, valid>>

PageRevoke(u) ==
  /\ u \in tokens
  /\ tokens' = tokens \ {u}
  /\ UNCHANGED <<status, bound, links, codes, valid>>

PageLink(u) ==
  /\ Present({u})
  /\ NewLinks({u})
  /\ UNCHANGED <<status, bound, tokens>>

PageDropLink(u) ==
  /\ Present({u})
  /\ links' = Without({u})
  /\ valid' = [valid EXCEPT ![u] = 0]
  /\ UNCHANGED <<status, bound, tokens, codes>>

PageUnbind(u) ==
  /\ Present({u})
  /\ bound' = [bound EXCEPT ![u] = Nobody]
  /\ UNCHANGED <<status, tokens, links, codes, valid>>

PageStatus(u) ==
  /\ Present({u})
  /\ \E s \in {"active", "disabled"} : status' = [status EXCEPT ![u] = s]
  /\ UNCHANGED <<bound, tokens, links, codes, valid>>

PageDelete(u) ==
  /\ Present({u})
  /\ status' = [status EXCEPT ![u] = "absent"]
  /\ bound' = [bound EXCEPT ![u] = Nobody]
  /\ tokens' = tokens \ {u}
  /\ links' = Without({u})
  /\ valid' = [valid EXCEPT ![u] = 0]
  /\ UNCHANGED codes

\* /users/bulk-bind: every active user of the list that is not bound gets a
\* link, and an address first where there is none.
PageBulkBind(names) ==
  LET chosen == {u \in names : status[u] = "active" /\ bound[u] = Nobody}
  IN  /\ chosen # {}
      /\ tokens' = tokens \cup chosen
      /\ NewLinks(chosen)
      /\ UNCHANGED <<status, bound>>

Page ==
  /\ Event
  /\ \/ \E names \in SUBSET Users \ {{}} : PageIssue(names) \/ PageBulkBind(names)
     \/ \E u \in Users :
          \/ PageNew(u) \/ PageRevoke(u) \/ PageLink(u) \/ PageDropLink(u)
          \/ PageUnbind(u) \/ PageStatus(u) \/ PageDelete(u)
  /\ owners' = IF pc \in {"down", "poll"} THEN owners ELSE owners \cup Bindings'
  /\ UNCHANGED <<bot, ghosts, taken, now>>

Tick ==
  /\ Event
  /\ now' = now + 1
  /\ UNCHANGED <<db, bot, owners, ghosts, taken, codes, valid>>

Next == Bot \/ Stop \/ Page \/ Tick

\* The container is restarted when it ends, and a bot that runs goes on with the
\* update in hand; whether anybody writes to it is not assumed.
Fairness == WF_vars(Start) /\ WF_vars(Handle \/ GiveUp) /\ WF_vars(Store)

Spec == Init /\ [][Next]_vars /\ Fairness

-----------------------------------------------------------------------------
(***************************************************************************)
(* Properties.                                                             *)
(***************************************************************************)

\* Whatever is confirmed is done at most once, by the account that was asked and
\* while the question was open: a button pressed twice, pressed late, or delivered
\* again after the bot stopped does nothing (on_button, pending).
ConfirmedOnce ==
  \A i \in DOMAIN did :
    /\ \E q \in asked : /\ q.code = did[i].code /\ q.from = did[i].from
                        /\ did[i].at - q.at < ConfirmTime
    /\ \A j \in DOMAIN did : did[i].code = did[j].code => i = j

\* An address goes only to an account that the user was bound to at some time
\* after the bot took up the update, however long ago the question was asked and
\* whatever the pages changed since (by_telegram, read anew for every update).
AddressOfOwner ==
  [][sent' \ sent \subseteq owners]_vars

\* An account is bound only by the code the administrator made last: none that was
\* used, replaced, voided or deleted with its user binds later, whoever opens it
\* and however often the update is delivered (redeem_bind_link, new_bind_link).
LinkOnce ==
  [][\A u \in Users :
       bound'[u] \notin {bound[u], Nobody} => update.arg = valid[u]]_vars

\* Every update the bot has taken is stored as done with, one that always fails
\* included: it never holds up the ones behind it (run).
UpdatesPass == \A n \in 1 .. MaxUpdates : taken >= n ~> saved >= n
=============================================================================
