-------------------------- MODULE BotUpdatesProofs --------------------------
(***************************************************************************)
(* Confirmations count once, addresses go to their owners and only the     *)
(* last link binds, for any users, accounts, updates and times             *)
(* (console/bot.py, console/users.py).                                     *)
(***************************************************************************)
EXTENDS BotUpdates, FiniteSetTheorems, SequenceTheorems, TLAPS

-----------------------------------------------------------------------------
(***************************************************************************)
(* The inductive invariant behind ConfirmedOnce, AddressOfOwner and        *)
(* LinkOnce.                                                               *)
(***************************************************************************)

\* No two questions share a code, and what was carried out is open no more.
Questions ==
  /\ IsFiniteSet(asked) /\ pending \subseteq asked
  /\ \A q \in asked : q.code <= Cardinality(asked)
  /\ \A q, r \in asked : q.code = r.code => q = r
  /\ \A i \in DOMAIN did : \A q \in pending : did[i].code # q.code

\* The one link of a user is the last that was made.
LinksAreLast ==
  \A l \in links :
    l.code = valid[l.user] /\ \A m \in links : m.user = l.user => m = l

\* Whom the update in hand may be answered with an address of.
InHand ==
  /\ pc \in {"handle", "act", "publish", "tell"} => Bindings \subseteq owners
  /\ pc \in {"publish", "tell"} \/ (pc = "act" /\ job.do \in {"show", "reset"})
       => <<update.from, job.user>> \in owners

BotIInv == TypeOK /\ Questions /\ LinksAreLast /\ InHand /\ ConfirmedOnce

Confirmation == [code : Nat, from : Accounts, at : Nat]

-----------------------------------------------------------------------------
(***************************************************************************)
(* Lemmas on the operators.                                                *)
(***************************************************************************)

\* by_telegram finds a user that is bound to the account.
LEMMA UserOfBound ==
  ASSUME NEW a \in Accounts, UserOf(a) # Nobody
  PROVE  UserOf(a) \in Users /\ bound[UserOf(a)] = a
BY DEF UserOf

LEMMA OwnerBound ==
  ASSUME NEW a \in Accounts, UserOf(a) # Nobody
  PROVE  <<a, UserOf(a)>> \in Bindings
BY UserOfBound DEF Bindings

\* Who sends an update, and what about.
LEMMA UpdateParts ==
  ASSUME TypeOK, update.what # "none"
  PROVE  /\ update.from \in Accounts
         /\ update.what \in AdminCommands => update.arg \in Users
         /\ update.what \in {"start", "yes", "no"} => update.arg \in Nat
BY DEF TypeOK, Updates, NoUpdate, Commands, AdminCommands

\* A new link for each of some users: one apiece, and the last one.
LEMMA NewLinksGood ==
  ASSUME TypeOK, LinksAreLast, NEW names \in SUBSET Users, NewLinks(names)
  PROVE  /\ links' \in SUBSET [user : Users, code : Nat, until : Nat]
         /\ codes' \in Nat /\ valid' \in [Users -> Nat]
         /\ LinksAreLast'
<1>1. Cardinality(names) \in Nat
  BY BotAssumption, FS_Subset, FS_CardinalityType
<1>2. PICK code \in [names -> codes + 1 .. codes + Cardinality(names)] :
        /\ codes' = codes + Cardinality(names)
        /\ valid' = [u \in Users |-> IF u \in names THEN code[u] ELSE valid[u]]
        /\ links' = Without(names)
                      \cup {[user |-> u, code |-> code[u], until |-> now + LinkTime] :
                              u \in names}
  BY DEF NewLinks
<1>3. codes \in Nat /\ now + LinkTime \in Nat /\ valid \in [Users -> Nat]
  BY BotAssumption DEF TypeOK
<1>4. \A u \in names : u \in Users /\ code[u] \in Nat
  BY <1>1, <1>2, <1>3
<1>5. codes' \in Nat /\ valid' \in [Users -> Nat]
  BY <1>1, <1>2, <1>3, <1>4
<1>6. ASSUME NEW l \in links'
      PROVE  \/ l \in links /\ l.user \in Users \ names
             \/ \E u \in names :
                  l = [user |-> u, code |-> code[u], until |-> now + LinkTime]
  BY <1>2 DEF Without, TypeOK
<1>7. links' \in SUBSET [user : Users, code : Nat, until : Nat]
  BY <1>3, <1>4, <1>6 DEF TypeOK
<1>8. ASSUME NEW l \in links' PROVE l.code = valid'[l.user]
  BY <1>2, <1>4, <1>6 DEF LinksAreLast
<1>9. ASSUME NEW l \in links', NEW m \in links', m.user = l.user PROVE m = l
  <2>1. CASE l \in links /\ l.user \notin names
    <3>1. m \in links
      BY <1>6, <1>9, <2>1
    <3> QED
      BY <1>9, <2>1, <3>1 DEF LinksAreLast
  <2>2. CASE l.user \in names
    <3>1. l = [user |-> l.user, code |-> code[l.user], until |-> now + LinkTime]
      BY <1>6, <2>2
    <3>2. m = [user |-> l.user, code |-> code[l.user], until |-> now + LinkTime]
      BY <1>6, <1>9, <2>2
    <3> QED
      BY <3>1, <3>2
  <2> QED
    BY <1>6, <2>1, <2>2
<1> QED
  BY <1>5, <1>7, <1>8, <1>9 DEF LinksAreLast

\* Links that go leave the rest as it is.
LEMMA FewerLinks ==
  ASSUME LinksAreLast, links' \subseteq links,
         \A l \in links' : valid'[l.user] = valid[l.user]
  PROVE  LinksAreLast'
BY DEF LinksAreLast

-----------------------------------------------------------------------------
(***************************************************************************)
(* Questions and confirmations.                                            *)
(***************************************************************************)

\* A question gets a code that no other had.
LEMMA AskGood ==
  ASSUME TypeOK, Questions, ConfirmedOnce,
         NEW do \in {"reset", "unbind", "disable"}, NEW u \in Users,
         update.from \in Accounts, Ask(do, u), did' = did
  PROVE  /\ asked' \in SUBSET Question /\ pending' \in SUBSET Question
         /\ Questions' /\ ConfirmedOnce'
<1> DEFINE n == Cardinality(asked)
           q == [code |-> n + 1, do |-> do, user |-> u, from |-> update.from, at |-> now]
<1>1. asked' = asked \cup {q} /\ pending' = {p \in pending : InTime(p)} \cup {q}
  BY DEF Ask
<1>2. IsFiniteSet(asked) /\ n \in Nat
  BY FS_CardinalityType DEF Questions
<1>3. q \in Question
  BY <1>2 DEF Question, TypeOK
<1>4. q \notin asked
  <2>1. q \in asked => q.code <= n
    BY DEF Questions
  <2> QED
    BY <1>2, <2>1
<1>5. IsFiniteSet(asked') /\ Cardinality(asked') = n + 1
  BY <1>1, <1>2, <1>4, FS_AddElement
<1>6. \A p \in asked : p.code \in Nat /\ p.code <= n
  BY DEF Questions, TypeOK, Question
<1>7. \A p \in asked' : p.code <= n + 1
  BY <1>1, <1>2, <1>6
<1>8. \A p, r \in asked' : p.code = r.code => p = r
  <2>1. \A p \in asked : p.code # n + 1
    BY <1>2, <1>6
  <2>2. q.code = n + 1
    OBVIOUS
  <2>3. \A p, r \in asked : p.code = r.code => p = r
    BY DEF Questions
  <2> HIDE DEF q
  <2> QED
    BY <1>1, <2>1, <2>2, <2>3
<1>9. \A i \in DOMAIN did : did[i].code # n + 1
  BY <1>2, <1>6 DEF ConfirmedOnce
<1>10. \A i \in DOMAIN did' : \A p \in pending' : did'[i].code # p.code
  <2>1. \A i \in DOMAIN did : \A p \in pending : did[i].code # p.code
    BY DEF Questions
  <2>2. q.code = n + 1
    OBVIOUS
  <2> HIDE DEF q
  <2> QED
    BY <1>1, <1>9, <2>1, <2>2
<1>11. pending' \subseteq asked' /\ asked \subseteq asked'
  BY <1>1 DEF Questions
<1>12. asked' \in SUBSET Question /\ pending' \in SUBSET Question
  BY <1>1, <1>3 DEF TypeOK
<1>13. Questions'
  BY <1>5, <1>7, <1>8, <1>10, <1>11 DEF Questions
<1>14. ConfirmedOnce'
  BY <1>11 DEF ConfirmedOnce
<1> QED
  BY <1>12, <1>13, <1>14

\* A button whose question is open: it is carried out and open no more.
LEMMA ConfirmGood ==
  ASSUME TypeOK, Questions, ConfirmedOnce, NEW q \in pending,
         Answers(q), CarryOut(q), pending' = Popped, asked' = asked
  PROVE  /\ pending' \in SUBSET Question /\ did' \in Seq(Confirmation)
         /\ Questions' /\ ConfirmedOnce'
<1> DEFINE c == [code |-> q.code, from |-> update.from, at |-> now]
<1>1. /\ Button /\ update.what = "yes" /\ q.code = update.arg /\ q.from = update.from
      /\ now - q.at < ConfirmTime
  BY DEF Answers, InTime
<1>2. q \in asked /\ q \in Question
  BY DEF Questions, TypeOK
<1>3. c \in Confirmation
  BY <1>1, <1>2 DEF Confirmation, Question, TypeOK
<1>4. did \in Seq(Confirmation) /\ did' = Append(did, c)
  BY DEF TypeOK, Confirmation, CarryOut
<1> HIDE DEF c
<1>5. /\ did' \in Seq(Confirmation) /\ Len(did') = Len(did) + 1 /\ Len(did) \in Nat
      /\ \A i \in 1 .. Len(did) : did'[i] = did[i]
      /\ did'[Len(did) + 1] = c
      /\ DOMAIN did = 1 .. Len(did) /\ DOMAIN did' = 1 .. Len(did) + 1
  BY <1>3, <1>4
<1>6. c.code = q.code /\ c.from = q.from /\ c.at = now
  BY <1>1 DEF c
<1>7. pending' \subseteq pending /\ \A p \in pending' : p.code # q.code
  BY <1>1 DEF Popped
<1>8. \A i \in DOMAIN did : did[i].code # q.code
  BY DEF Questions
<1>9. ASSUME NEW i \in DOMAIN did', NEW p \in pending' PROVE did'[i].code # p.code
  <2>1. CASE i = Len(did) + 1
    BY <1>5, <1>6, <1>7, <2>1
  <2>2. CASE i # Len(did) + 1
    <3>1. i \in DOMAIN did /\ did'[i] = did[i]
      BY <1>5, <2>2
    <3> QED
      BY <1>7, <3>1 DEF Questions
  <2> QED
    BY <2>1, <2>2
<1>10. Questions'
  BY <1>7, <1>9 DEF Questions
<1>11. ASSUME NEW i \in DOMAIN did'
       PROVE  \E p \in asked' : /\ p.code = did'[i].code /\ p.from = did'[i].from
                                /\ did'[i].at - p.at < ConfirmTime
  <2>1. CASE i = Len(did) + 1
    BY <1>1, <1>2, <1>5, <1>6, <2>1
  <2>2. CASE i # Len(did) + 1
    <3>1. i \in DOMAIN did /\ did'[i] = did[i]
      BY <1>5, <2>2
    <3> QED
      BY <3>1 DEF ConfirmedOnce
  <2> QED
    BY <2>1, <2>2
<1>12. ASSUME NEW i \in DOMAIN did', NEW j \in DOMAIN did', did'[i].code = did'[j].code
       PROVE  i = j
  <2>1. ASSUME NEW k \in DOMAIN did'
        PROVE  \/ k \in DOMAIN did /\ did'[k] = did[k]
               \/ k = Len(did) + 1 /\ did'[k].code = q.code
    BY <1>5, <1>6
  <2> QED
    BY <1>8, <1>12, <2>1 DEF ConfirmedOnce
<1>13. pending' \in SUBSET Question
  BY <1>7 DEF TypeOK
<1> QED
  BY <1>5, <1>10, <1>11, <1>12, <1>13 DEF ConfirmedOnce

\* Questions that are dropped change nothing else.
LEMMA FewerQuestions ==
  ASSUME Questions, ConfirmedOnce, UNCHANGED <<asked, did>>, pending' \subseteq pending
  PROVE  Questions' /\ ConfirmedOnce'
BY DEF Questions, ConfirmedOnce

-----------------------------------------------------------------------------
LEMMA BotInit == Init => BotIInv
<1> SUFFICES ASSUME Init PROVE BotIInv
  OBVIOUS
<1>1. TypeOK
  <2>1. <<>> \in Seq([code : Nat, from : Accounts, at : Nat])
    OBVIOUS
  <2> QED
    BY <2>1, BotAssumption DEF Init, TypeOK
<1>2. Questions /\ ConfirmedOnce
  BY FS_EmptySet DEF Init, Questions, ConfirmedOnce
<1>3. LinksAreLast /\ InHand
  BY DEF Init, LinksAreLast, InHand, NoJob
<1> QED
  BY <1>1, <1>2, <1>3 DEF BotIInv

-----------------------------------------------------------------------------
(***************************************************************************)
(* Types.                                                                  *)
(***************************************************************************)

\* What the bot does about a message or between two messages.
LEMMA TypeLoop ==
  ASSUME BotIInv, Start \/ Receive \/ Store \/ Stop \/ GiveUp \/ Tick
  PROVE  TypeOK'
<1>1. TypeOK
  BY DEF BotIInv
<1>2. Bindings \subseteq Accounts \X Users
  BY DEF Bindings
<1>3. CASE Start
  BY <1>1, <1>2, <1>3 DEF Start, TypeOK, db, ghosts, bounds, Goto
<1>4. CASE Receive
  <2>1. asked \subseteq Question /\ codes \in Nat
    BY <1>1 DEF TypeOK
  <2>2. Sendable \subseteq Updates
    BY <2>1, BotAssumption DEF Sendable, Updates, Question
  <2>3. update' \in Updates
    BY <1>4, <2>2 DEF Receive
  <2> QED
    BY <1>1, <1>2, <1>4, <2>3 DEF Receive, TypeOK, db, ghosts, bounds, Goto
<1>5. CASE Store
  BY <1>1, <1>5 DEF Store, TypeOK, db, bounds, Goto
<1>6. CASE Stop
  BY <1>1, <1>6 DEF Stop, TypeOK, db, Event, Goto
<1>7. CASE GiveUp
  BY <1>1, <1>7 DEF GiveUp, TypeOK, db, ghosts, bounds, Skip, Done, Popped
<1>8. CASE Tick
  BY <1>1, <1>8 DEF Tick, TypeOK, db, bot, ghosts, Event
<1> QED
  BY <1>3, <1>4, <1>5, <1>6, <1>7, <1>8

LEMMA TypeMessage ==
  ASSUME BotIInv,
         \/ Bind \/ AskUser \/ AskDisable \/ Show \/ SendAddress \/ Administer
         \/ Issue \/ InsertToken \/ Link \/ InsertLink
  PROVE  TypeOK'
<1>1. TypeOK /\ Questions /\ LinksAreLast /\ ConfirmedOnce /\ InHand
  BY DEF BotIInv
<1>2. CASE Bind
  <2>1. PICK l \in links : Redeem(l)
    BY <1>2 DEF Bind
  <2>2. l.user \in Users /\ update.from \in Accounts
    BY <1>1, <1>2, UpdateParts DEF Bind, Message, TypeOK
  <2>3. bound' \in [Users -> Accounts \cup {Nobody}] /\ owners' \in SUBSET (Accounts \X Users)
    BY <1>1, <2>1, <2>2 DEF Redeem, TypeOK, Bindings
  <2> QED
    BY <1>1, <1>2, <2>1, <2>3
    DEF Bind, TypeOK, Redeem, Redeemed, Done, ghosts
<1>3. CASE AskUser
  <2>1. update.from \in Accounts /\ update.what \in {"reset", "unbind"}
    BY <1>1, <1>3, UpdateParts DEF AskUser, Message
  <2>2. UserOf(update.from) \in Users /\ Ask(update.what, UserOf(update.from)) /\ did' = did
    BY <1>3, <2>1, UserOfBound DEF AskUser
  <2>3. asked' \in SUBSET Question /\ pending' \in SUBSET Question
    BY <1>1, <2>1, <2>2, AskGood
  <2> QED
    BY <1>1, <1>3, <2>3 DEF AskUser, TypeOK, Done, db, bounds
<1>4. CASE AskDisable
  <2>1. update.from \in Accounts /\ update.arg \in Users
    BY <1>1, <1>4, UpdateParts DEF AskDisable, Message, AdminCommands
  <2>2. Ask("disable", update.arg) /\ did' = did
    BY <1>4 DEF AskDisable
  <2>3. asked' \in SUBSET Question /\ pending' \in SUBSET Question
    BY <1>1, <2>1, <2>2, AskGood
  <2> QED
    BY <1>1, <1>4, <2>3 DEF AskDisable, TypeOK, Done, db, bounds
<1>5. CASE Show
  <2>1. UserOf(update.from) \in Users
    BY <1>1, <1>5, UpdateParts, UserOfBound DEF Show, Message
  <2> QED
    BY <1>1, <1>5, <2>1 DEF Show, TypeOK, Goto, db, ghosts, bounds
<1>6. CASE SendAddress
  <2>1. <<update.from, job.user>> \in Accounts \X Users
    BY <1>1, <1>6 DEF SendAddress, InHand, TypeOK
  <2> QED
    BY <1>1, <1>6, <2>1 DEF SendAddress, Send, TypeOK, Done, db, bounds
<1>7. CASE Administer
  <2>1. update.arg \in Users
    BY <1>1, <1>7, UpdateParts DEF Administer, AdminCommands
  <2>2. /\ status' \in [Users -> {"absent", "active", "disabled"}]
        /\ links' \in SUBSET [user : Users, code : Nat, until : Nat]
        /\ codes' \in Nat /\ valid' \in [Users -> Nat]
    <3>1. CASE AddUser(update.arg)
      BY <1>1, <3>1 DEF AddUser, TypeOK
    <3>2. CASE Enable(update.arg)
      BY <1>1, <3>2 DEF Enable, TypeOK
    <3> QED
      BY <1>7, <3>1, <3>2 DEF Administer
  <2> QED
    BY <1>1, <1>7, <2>2 DEF Administer, TypeOK, Done, ghosts
<1>8. CASE Issue
  <2>1. update.arg \in Users
    BY <1>1, <1>8, UpdateParts DEF Issue, Message, AdminCommands
  <2> QED
    BY <1>1, <1>8, <2>1 DEF Issue, TypeOK, Goto, db, ghosts, bounds
<1>9. CASE InsertToken
  <2>1. job.user \in Users
    BY <1>1, <1>9 DEF InsertToken, TypeOK, NoJob
  <2> QED
    BY <1>1, <1>9, <2>1 DEF InsertToken, TypeOK, Done, ghosts, bounds
<1>10. CASE Link
  <2>1. update.arg \in Users
    BY <1>1, <1>10, UpdateParts DEF Link, Message, AdminCommands
  <2> QED
    BY <1>1, <1>10, <2>1 DEF Link, TypeOK, Goto, db, ghosts, bounds
<1>11. CASE InsertLink
  <2>1. {job.user} \in SUBSET Users /\ NewLinks({job.user})
    BY <1>1, <1>11 DEF InsertLink, TypeOK, NoJob
  <2>2. /\ links' \in SUBSET [user : Users, code : Nat, until : Nat]
        /\ codes' \in Nat /\ valid' \in [Users -> Nat]
    BY <1>1, <2>1, NewLinksGood
  <2> QED
    BY <1>1, <1>11, <2>2 DEF InsertLink, TypeOK, Done, ghosts
<1> QED
  BY <1>2, <1>3, <1>4, <1>5, <1>6, <1>7, <1>8, <1>9, <1>10, <1>11

LEMMA TypeButton ==
  ASSUME BotIInv,
         \/ Unbind \/ Rotate \/ Published \/ Tell
         \/ \E q \in pending : ConfirmDisable(q) \/ ConfirmOwn(q)
  PROVE  TypeOK'
<1>1. TypeOK /\ Questions /\ LinksAreLast /\ ConfirmedOnce /\ InHand
  BY DEF BotIInv
<1>2. CASE Unbind
  BY <1>1, <1>2 DEF Unbind, TypeOK, NoJob, Done, ghosts, bounds
<1>3. CASE Rotate
  BY <1>1, <1>3 DEF Rotate, TypeOK, Goto, db, ghosts, bounds
<1>4. CASE Published
  BY <1>1, <1>4 DEF Published, TypeOK, Goto, db, ghosts, bounds
<1>5. CASE Tell
  <2>1. <<update.from, job.user>> \in Accounts \X Users
    BY <1>1, <1>5 DEF Tell, InHand, TypeOK
  <2> QED
    BY <1>1, <1>5, <2>1 DEF Tell, Send, TypeOK, Done, db, bounds
<1>6. ASSUME NEW q \in pending, ConfirmDisable(q) PROVE TypeOK'
  <2>1. Answers(q) /\ CarryOut(q) /\ pending' = Popped /\ asked' = asked
    BY <1>6 DEF ConfirmDisable
  <2>2. pending' \in SUBSET Question /\ did' \in Seq(Confirmation)
    BY <1>1, <2>1, ConfirmGood
  <2> QED
    BY <1>1, <1>6, <2>2 DEF ConfirmDisable, TypeOK, Confirmation, Done, bounds
<1>7. ASSUME NEW q \in pending, ConfirmOwn(q) PROVE TypeOK'
  <2>1. Answers(q) /\ CarryOut(q) /\ pending' = Popped /\ asked' = asked
    BY <1>7 DEF ConfirmOwn
  <2>2. pending' \in SUBSET Question /\ did' \in Seq(Confirmation)
    BY <1>1, <2>1, ConfirmGood
  <2>3. job' \in [do : {"show", "reset", "unbind", "issue", "link"}, user : Users]
    BY <1>1, <1>7 DEF ConfirmOwn, TypeOK, Question
  <2> QED
    BY <1>1, <1>7, <2>2, <2>3 DEF ConfirmOwn, TypeOK, Confirmation, Goto, db, bounds
<1> QED
  BY <1>2, <1>3, <1>4, <1>5, <1>6, <1>7

\* A page leaves the bot as it is and its rows well formed.
LEMMA PageRows ==
  ASSUME BotIInv, Page
  PROVE  /\ status' \in [Users -> {"absent", "active", "disabled"}]
         /\ bound' \in [Users -> Accounts \cup {Nobody}]
         /\ \A u \in Users : bound'[u] \in {bound[u], Nobody}
         /\ tokens' \in SUBSET Users
         /\ links' \in SUBSET [user : Users, code : Nat, until : Nat]
         /\ codes' \in Nat /\ valid' \in [Users -> Nat]
         /\ LinksAreLast'
<1>1. TypeOK /\ LinksAreLast
  BY DEF BotIInv
<1>2. ASSUME NEW names \in SUBSET Users, Without(names) = links',
             \A u \in Users : u \notin names => valid'[u] = valid[u]
      PROVE  LinksAreLast' /\ links' \in SUBSET [user : Users, code : Nat, until : Nat]
  <2>1. links' \subseteq links /\ \A l \in links' : l.user \in Users /\ l.user \notin names
    BY <1>1, <1>2 DEF Without, TypeOK
  <2> QED
    BY <1>1, <1>2, <2>1, FewerLinks DEF TypeOK
<1>3. ASSUME NEW names \in SUBSET Users, PageIssue(names)
      PROVE  UNCHANGED <<status, bound, links, codes, valid>> /\ tokens' \in SUBSET Users
  BY <1>1, <1>3 DEF PageIssue, TypeOK
<1>4. ASSUME NEW names \in SUBSET Users, PageBulkBind(names)
      PROVE  /\ UNCHANGED <<status, bound>> /\ tokens' \in SUBSET Users
             /\ \E some \in SUBSET Users : NewLinks(some)
  BY <1>1, <1>4 DEF PageBulkBind, TypeOK
<1>5. ASSUME NEW u \in Users, PageRevoke(u)
      PROVE  UNCHANGED <<status, bound, links, codes, valid>> /\ tokens' \in SUBSET Users
  BY <1>1, <1>5 DEF PageRevoke, TypeOK
<1>6. ASSUME NEW u \in Users, PageLink(u)
      PROVE  UNCHANGED <<status, bound, tokens>> /\ NewLinks({u})
  BY <1>6 DEF PageLink
<1>7. ASSUME NEW u \in Users, PageDropLink(u)
      PROVE  /\ UNCHANGED <<status, bound, tokens, codes>> /\ Without({u}) = links'
             /\ valid' \in [Users -> Nat] /\ \A w \in Users : w # u => valid'[w] = valid[w]
  BY <1>1, <1>7 DEF PageDropLink, TypeOK
<1>8. ASSUME NEW u \in Users, PageUnbind(u)
      PROVE  /\ UNCHANGED <<status, tokens, links, codes, valid>>
             /\ bound' \in [Users -> Accounts \cup {Nobody}]
             /\ \A w \in Users : bound'[w] \in {bound[w], Nobody}
  BY <1>1, <1>8 DEF PageUnbind, TypeOK
<1>9. ASSUME NEW u \in Users, PageStatus(u)
      PROVE  /\ UNCHANGED <<bound, tokens, links, codes, valid>>
             /\ status' \in [Users -> {"absent", "active", "disabled"}]
  BY <1>1, <1>9 DEF PageStatus, TypeOK
<1>10. ASSUME NEW u \in Users, PageDelete(u)
       PROVE  /\ status' \in [Users -> {"absent", "active", "disabled"}]
              /\ bound' \in [Users -> Accounts \cup {Nobody}]
              /\ \A w \in Users : bound'[w] \in {bound[w], Nobody}
              /\ tokens' \in SUBSET Users /\ codes' = codes
              /\ Without({u}) = links'
              /\ valid' \in [Users -> Nat] /\ \A w \in Users : w # u => valid'[w] = valid[w]
  BY <1>1, <1>10 DEF PageDelete, TypeOK
<1>11. UNCHANGED <<links, valid>> => LinksAreLast'
  BY <1>1 DEF LinksAreLast
<1>12. CASE \E names \in SUBSET Users \ {{}} : PageIssue(names)
  BY <1>1, <1>3, <1>11, <1>12 DEF TypeOK
<1>13. CASE \E names \in SUBSET Users \ {{}} : PageBulkBind(names)
  <2>1. PICK names \in SUBSET Users : PageBulkBind(names)
    BY <1>13
  <2>2. PICK some \in SUBSET Users : NewLinks(some)
    BY <1>4, <2>1
  <2> QED
    BY <1>1, <1>4, <2>1, <2>2, NewLinksGood DEF TypeOK
<1>14. CASE \E u \in Users : PageRevoke(u)
  BY <1>1, <1>5, <1>11, <1>14 DEF TypeOK
<1>15. CASE \E u \in Users : PageLink(u)
  <2>1. PICK u \in Users : PageLink(u)
    BY <1>15
  <2>2. {u} \in SUBSET Users
    OBVIOUS
  <2> QED
    BY <1>1, <1>6, <2>1, <2>2, NewLinksGood DEF TypeOK
<1>16. CASE \E u \in Users : PageDropLink(u)
  <2>1. PICK u \in Users : PageDropLink(u)
    BY <1>16
  <2>2. {u} \in SUBSET Users
    OBVIOUS
  <2> QED
    BY <1>1, <1>2, <1>7, <2>1, <2>2 DEF TypeOK
<1>17. CASE \E u \in Users : PageUnbind(u)
  BY <1>1, <1>8, <1>11, <1>17 DEF TypeOK
<1>18. CASE \E u \in Users : PageStatus(u)
  BY <1>1, <1>9, <1>11, <1>18 DEF TypeOK
<1>19. CASE \E u \in Users : PageDelete(u)
  <2>1. PICK u \in Users : PageDelete(u)
    BY <1>19
  <2>2. {u} \in SUBSET Users
    OBVIOUS
  <2> QED
    BY <1>1, <1>2, <1>10, <2>1, <2>2 DEF TypeOK
<1>20. CASE \E u \in Users : PageNew(u)
  <2>1. /\ status' \in [Users -> {"absent", "active", "disabled"}]
        /\ UNCHANGED <<bound, tokens, links, codes, valid>>
    BY <1>1, <1>20 DEF PageNew, AddUser, TypeOK
  <2> QED
    BY <1>1, <1>11, <2>1 DEF TypeOK
<1> QED
  BY <1>12, <1>13, <1>14, <1>15, <1>16, <1>17, <1>18, <1>19, <1>20 DEF Page

LEMMA TypePage ==
  ASSUME BotIInv, Page
  PROVE  TypeOK'
<1>1. TypeOK
  BY DEF BotIInv
<1>2. owners' \in SUBSET (Accounts \X Users)
  BY <1>1 DEF Page, Bindings, TypeOK
<1>3. /\ status' \in [Users -> {"absent", "active", "disabled"}]
      /\ bound' \in [Users -> Accounts \cup {Nobody}]
      /\ tokens' \in SUBSET Users
      /\ links' \in SUBSET [user : Users, code : Nat, until : Nat]
      /\ codes' \in Nat /\ valid' \in [Users -> Nat]
  BY PageRows
<1>4. UNCHANGED <<bot, ghosts, taken, now>> /\ Event
  BY DEF Page
<1>5. /\ {saved', now', taken', codes', events'} \subseteq Nat
      /\ pc' \in {"down", "poll", "handle", "act", "publish", "tell", "store"}
  BY <1>1, <1>3, <1>4 DEF TypeOK, bot, Event
<1>6. /\ update' \in Updates \cup {NoUpdate}
      /\ job' \in [do : {"show", "reset", "unbind", "issue", "link"}, user : Users] \cup {NoJob}
      /\ pending' \in SUBSET Question
  BY <1>1, <1>4 DEF TypeOK, bot
<1>7. /\ asked' \in SUBSET Question
      /\ did' \in Seq([code : Nat, from : Accounts, at : Nat])
      /\ sent' \in SUBSET (Accounts \X Users)
  BY <1>1, <1>4 DEF TypeOK, ghosts
<1> QED
  BY <1>2, <1>3, <1>5, <1>6, <1>7 DEF TypeOK

LEMMA TypeStep == BotIInv /\ [Next]_vars => TypeOK'
<1> SUFFICES ASSUME BotIInv, [Next]_vars PROVE TypeOK'
  OBVIOUS
<1>1. CASE UNCHANGED vars
  BY <1>1 DEF BotIInv, TypeOK, vars, db, bot, ghosts, bounds
<1>2. CASE Next
  BY <1>2, TypeLoop, TypeMessage, TypeButton, TypePage DEF Next, Bot, Handle
<1> QED
  BY <1>1, <1>2

-----------------------------------------------------------------------------
(***************************************************************************)
(* Questions, links, and whom the update in hand is about.                 *)
(***************************************************************************)

LEMMA QuestionsStep == BotIInv /\ [Next]_vars => Questions' /\ ConfirmedOnce'
<1> SUFFICES ASSUME BotIInv, [Next]_vars PROVE Questions' /\ ConfirmedOnce'
  OBVIOUS
<1>1. TypeOK /\ Questions /\ ConfirmedOnce
  BY DEF BotIInv
<1>2. CASE UNCHANGED <<asked, did>> /\ pending' \subseteq pending
  BY <1>1, <1>2, FewerQuestions
<1>3. CASE AskUser
  <2>1. update.from \in Accounts /\ update.what \in {"reset", "unbind"}
    BY <1>1, <1>3, UpdateParts DEF AskUser, Message
  <2>2. UserOf(update.from) \in Users /\ Ask(update.what, UserOf(update.from)) /\ did' = did
    BY <1>3, <2>1, UserOfBound DEF AskUser
  <2> QED
    BY <1>1, <2>1, <2>2, AskGood
<1>4. CASE AskDisable
  <2>1. update.from \in Accounts /\ update.arg \in Users
    BY <1>1, <1>4, UpdateParts DEF AskDisable, Message, AdminCommands
  <2>2. Ask("disable", update.arg) /\ did' = did
    BY <1>4 DEF AskDisable
  <2> QED
    BY <1>1, <2>1, <2>2, AskGood
<1>5. ASSUME NEW q \in pending, ConfirmDisable(q) \/ ConfirmOwn(q)
      PROVE  Questions' /\ ConfirmedOnce'
  <2>1. Answers(q) /\ CarryOut(q) /\ pending' = Popped /\ asked' = asked
    BY <1>5 DEF ConfirmDisable, ConfirmOwn
  <2> QED
    BY <1>1, <2>1, ConfirmGood
<1>6. Start \/ Receive \/ Store \/ Tick \/ UNCHANGED vars
        => UNCHANGED <<asked, did>> /\ pending' \subseteq pending
  BY DEF Start, Receive, Store, Tick, vars, bot, ghosts
<1>7. Stop \/ GiveUp \/ Page => UNCHANGED <<asked, did>> /\ pending' \subseteq pending
  BY DEF Stop, GiveUp, Popped, Page, bot, ghosts
<1>8. Bind \/ Show \/ SendAddress \/ Administer \/ Issue \/ InsertToken \/ Link \/ InsertLink
        => UNCHANGED <<asked, did>> /\ pending' \subseteq pending
  BY DEF Bind, Show, SendAddress, Administer, Issue, InsertToken, Link, InsertLink, ghosts
<1>9. Unbind \/ Rotate \/ Published \/ Tell
        => UNCHANGED <<asked, did>> /\ pending' \subseteq pending
  BY DEF Unbind, Rotate, Published, Tell, ghosts
<1> QED
  BY <1>2, <1>3, <1>4, <1>5, <1>6, <1>7, <1>8, <1>9 DEF Next, Bot, Handle

LEMMA LinksStep == BotIInv /\ [Next]_vars => LinksAreLast'
<1> SUFFICES ASSUME BotIInv, [Next]_vars PROVE LinksAreLast'
  OBVIOUS
<1>1. TypeOK /\ LinksAreLast
  BY DEF BotIInv
<1>2. CASE UNCHANGED <<links, valid>>
  BY <1>1, <1>2 DEF LinksAreLast
<1>3. CASE Bind
  <2>1. PICK l \in links : Redeem(l)
    BY <1>3 DEF Bind
  <2>2. links' \subseteq links /\ \A m \in links' : m.user # l.user /\ m.user \in Users
    BY <1>1, <2>1 DEF Redeem, Redeemed, LinksAreLast, TypeOK
  <2>3. \A m \in links' : valid'[m.user] = valid[m.user]
    BY <1>1, <2>1, <2>2 DEF Redeem, TypeOK
  <2> QED
    BY <1>1, <2>2, <2>3, FewerLinks
<1>4. CASE InsertLink
  <2>1. {job.user} \in SUBSET Users /\ NewLinks({job.user})
    BY <1>1, <1>4 DEF InsertLink, TypeOK, NoJob
  <2> QED
    BY <1>1, <2>1, NewLinksGood
<1>5. CASE Page
  BY <1>5, PageRows
<1>6. Start \/ Receive \/ Store \/ Stop \/ GiveUp \/ Tick \/ UNCHANGED vars
        => UNCHANGED <<links, valid>>
  BY DEF Start, Receive, Store, Stop, GiveUp, Tick, vars, db, bounds
<1>7. AskUser \/ AskDisable \/ Show \/ SendAddress \/ Administer \/ Issue \/ InsertToken \/ Link
        => UNCHANGED <<links, valid>>
  BY DEF AskUser, AskDisable, Show, SendAddress, Administer, AddUser, Enable, Issue, InsertToken,
    Link, db, bounds
<1>8. Unbind \/ Rotate \/ Published \/ Tell => UNCHANGED <<links, valid>>
  BY DEF Unbind, Rotate, Published, Tell, db, bounds
<1>9. \A q \in pending : ConfirmDisable(q) \/ ConfirmOwn(q) => UNCHANGED <<links, valid>>
  BY DEF ConfirmDisable, ConfirmOwn, db, bounds
<1> QED
  BY <1>2, <1>3, <1>4, <1>5, <1>6, <1>7, <1>8, <1>9 DEF Next, Bot, Handle

\* While an update is in hand, owners has every binding there was.
LEMMA OwnersStep ==
  ASSUME BotIInv, [Next]_vars, pc' \in {"handle", "act", "publish", "tell"}
  PROVE  Bindings' \subseteq owners'
<1>1. TypeOK /\ InHand
  BY DEF BotIInv
<1>2. ASSUME bound' = bound, owners' = owners, pc \in {"handle", "act", "publish", "tell"}
      PROVE  Bindings' \subseteq owners'
  BY <1>1, <1>2 DEF InHand, Bindings
<1>3. CASE Start \/ Receive
  BY <1>3 DEF Start, Receive, Bindings, db
<1>4. CASE Page
  BY <1>1, <1>4 DEF Page, InHand, bot, TypeOK
<1>5. CASE Show \/ Issue \/ Link
  BY <1>2, <1>5 DEF Show, Issue, Link, Message, db
<1>6. ASSUME NEW q \in pending, ConfirmOwn(q) PROVE Bindings' \subseteq owners'
  BY <1>2, <1>6 DEF ConfirmOwn, Answers, Button, Message, db
<1>7. CASE Rotate \/ Published
  BY <1>2, <1>7 DEF Rotate, Published, db
<1>8. CASE Tick \/ UNCHANGED vars
  BY <1>2, <1>8 DEF Tick, vars, db, bot
<1>9. Store \/ Stop \/ GiveUp => pc' \in {"poll", "down", "store"}
  BY DEF Store, Stop, GiveUp, Goto, Skip, Done
<1>10. Bind \/ AskUser \/ AskDisable \/ SendAddress \/ Administer \/ InsertToken \/ InsertLink
         => pc' = "store"
  BY DEF Bind, AskUser, AskDisable, SendAddress, Administer, InsertToken, InsertLink, Done
<1>11. Unbind \/ Tell \/ (\E q \in pending : ConfirmDisable(q)) => pc' = "store"
  BY DEF Unbind, Tell, ConfirmDisable, Done
<1> QED
  BY <1>3, <1>4, <1>5, <1>6, <1>7, <1>8, <1>9, <1>10, <1>11 DEF Next, Bot, Handle

\* The steps that give the update in hand a user whose address it may send.
Told ==
  pc \in {"publish", "tell"} \/ (pc = "act" /\ job.do \in {"show", "reset"})

LEMMA ToldStep ==
  ASSUME BotIInv, [Next]_vars, Told'
  PROVE  <<update'.from, job'.user>> \in owners'
<1>1. TypeOK /\ InHand
  BY DEF BotIInv
<1>2. ASSUME UNCHANGED <<update, job>>, owners \subseteq owners', Told
      PROVE  <<update'.from, job'.user>> \in owners'
  BY <1>1, <1>2 DEF InHand, Told
<1>3. CASE Show
  <2>1. UserOf(update.from) # Nobody /\ update.from \in Accounts /\ pc = "handle"
    BY <1>1, <1>3, UpdateParts DEF Show, Message
  <2>2. <<update.from, UserOf(update.from)>> \in owners
    BY <1>1, <2>1, OwnerBound DEF InHand
  <2> QED
    BY <1>3, <2>2 DEF Show
<1>4. ASSUME NEW q \in pending, ConfirmOwn(q)
      PROVE  <<update'.from, job'.user>> \in owners'
  <2>1. q.user \in Users /\ update.from \in Accounts /\ pc = "handle"
    BY <1>1, <1>4, UpdateParts DEF ConfirmOwn, Answers, Button, Message, TypeOK, Question
  <2>2. UserOf(update.from) = q.user /\ q.user # Nobody
    BY <1>4, <2>1, BotAssumption DEF ConfirmOwn, StillBound
  <2>3. <<update.from, q.user>> \in owners
    BY <1>1, <2>1, <2>2, OwnerBound DEF InHand
  <2> QED
    BY <1>4, <2>3 DEF ConfirmOwn
<1>5. CASE Rotate
  BY <1>2, <1>5 DEF Rotate, Told
<1>6. CASE Published
  BY <1>2, <1>6 DEF Published, Told
<1>7. CASE Page
  BY <1>2, <1>7 DEF Page, bot, Told
<1>8. CASE Tick \/ UNCHANGED vars
  BY <1>2, <1>8 DEF Tick, vars, bot, Told
<1>9. CASE Issue \/ Link
  BY <1>9 DEF Issue, Link, Goto, Told
<1>10. Start \/ Receive \/ Store \/ Stop \/ GiveUp
         => pc' \in {"handle", "poll", "down", "store"}
  BY DEF Start, Receive, Store, Stop, GiveUp, Goto, Skip, Done
<1>11. Bind \/ AskUser \/ AskDisable \/ SendAddress \/ Administer \/ InsertToken \/ InsertLink
         => pc' = "store"
  BY DEF Bind, AskUser, AskDisable, SendAddress, Administer, InsertToken, InsertLink, Done
<1>12. Unbind \/ Tell \/ (\E q \in pending : ConfirmDisable(q)) => pc' = "store"
  BY DEF Unbind, Tell, ConfirmDisable, Done
<1> QED
  BY <1>3, <1>4, <1>5, <1>6, <1>7, <1>8, <1>9, <1>10, <1>11, <1>12
  DEF Next, Bot, Handle, Told

-----------------------------------------------------------------------------
(***************************************************************************)
(* Theorems.                                                               *)
(***************************************************************************)

LEMMA BotStep == BotIInv /\ [Next]_vars => BotIInv'
<1> SUFFICES ASSUME BotIInv, [Next]_vars PROVE BotIInv'
  OBVIOUS
<1>1. InHand'
  BY OwnersStep, ToldStep DEF InHand, Told
<1> QED
  BY <1>1, TypeStep, QuestionsStep, LinksStep DEF BotIInv

\* Types, one code per question, one link per user, and the account in hand:
\* every reachable state of bot and pages keeps them.
THEOREM BotInvariance == Spec => []BotIInv
<1> QED
  BY BotInit, BotStep, PTL DEF Spec

\* A button is carried out at most once, for the account that was asked, in time,
\* however often the bot stops and Telegram delivers again (on_button).
THEOREM ConfirmedAtMostOnce == Spec => []ConfirmedOnce
<1>1. BotIInv => ConfirmedOnce
  BY DEF BotIInv
<1> QED
  BY <1>1, BotInvariance, PTL

\* An address is sent only to an account its user was bound to while the update
\* was in hand, whatever the pages do between the bot's statements.
THEOREM AddressToOwner == Spec => AddressOfOwner
<1>1. BotIInv /\ [Next]_vars => [sent' \ sent \subseteq owners]_vars
  <2> SUFFICES ASSUME BotIInv, Next PROVE sent' \ sent \subseteq owners
    BY DEF vars
  <2>1. CASE SendAddress \/ Tell
    BY <2>1 DEF BotIInv, InHand, SendAddress, Tell, Send
  <2>2. Start \/ Receive \/ Store \/ Stop \/ GiveUp \/ Tick \/ Page => sent' \subseteq sent
    BY DEF Start, Receive, Store, Stop, GiveUp, Tick, Page, ghosts
  <2>3. Bind \/ AskUser \/ AskDisable \/ Show \/ Administer \/ Issue \/ InsertToken \/ Link
          \/ InsertLink
          => sent' \subseteq sent
    BY DEF Bind, AskUser, AskDisable, Show, Administer, Issue, InsertToken, Link, InsertLink,
      ghosts
  <2>4. Unbind \/ Rotate \/ Published => sent' \subseteq sent
    BY DEF Unbind, Rotate, Published, ghosts
  <2>5. \A q \in pending : ConfirmDisable(q) \/ ConfirmOwn(q) => sent' \subseteq sent
    BY DEF ConfirmDisable, ConfirmOwn
  <2> QED
    BY <2>1, <2>2, <2>3, <2>4, <2>5 DEF Next, Bot, Handle
<1> QED
  BY <1>1, BotInvariance, PTL DEF Spec, AddressOfOwner

\* Only the link that was made last binds an account; a page never binds one.
THEOREM LastLinkBinds == Spec => LinkOnce
<1> DEFINE Binds ==
      \A u \in Users : bound'[u] \notin {bound[u], Nobody} => update.arg = valid[u]
<1>1. BotIInv /\ [Next]_vars => [Binds]_vars
  <2> SUFFICES ASSUME BotIInv, Next PROVE Binds
    BY DEF vars
  <2>1. TypeOK /\ LinksAreLast
    BY DEF BotIInv
  <2>2. CASE bound' = bound
    BY <2>2
  <2>3. CASE Bind
    <3>1. PICK l \in links : Redeem(l)
      BY <2>3 DEF Bind
    <3>2. l.user \in Users /\ l.code = update.arg /\ l.code = valid[l.user]
      BY <2>1, <3>1 DEF Redeem, TypeOK, LinksAreLast
    <3>3. \A u \in Users : u # l.user => bound'[u] = bound[u]
      BY <2>1, <3>1 DEF Redeem, TypeOK
    <3> QED
      BY <3>2, <3>3
  <2>4. CASE Unbind
    BY <2>1, <2>4 DEF Unbind, TypeOK
  <2>5. CASE Page
    BY <2>5, PageRows
  <2>6. Start \/ Receive \/ Store \/ Stop \/ GiveUp \/ Tick => bound' = bound
    BY DEF Start, Receive, Store, Stop, GiveUp, Tick, db
  <2>7. AskUser \/ AskDisable \/ Show \/ SendAddress \/ Administer \/ Issue \/ InsertToken
          \/ Link \/ InsertLink
          => bound' = bound
    BY DEF AskUser, AskDisable, Show, SendAddress, Administer, Issue, InsertToken, Link,
      InsertLink, db
  <2>8. Rotate \/ Published \/ Tell => bound' = bound
    BY DEF Rotate, Published, Tell, db
  <2>9. \A q \in pending : ConfirmDisable(q) \/ ConfirmOwn(q) => bound' = bound
    BY DEF ConfirmDisable, ConfirmOwn, db
  <2> HIDE DEF Binds
  <2> QED
    BY <2>2, <2>3, <2>4, <2>5, <2>6, <2>7, <2>8, <2>9 DEF Next, Bot, Handle
<1> QED
  BY <1>1, BotInvariance, PTL DEF Spec, LinkOnce
=============================================================================
