------------------------------- MODULE Console -------------------------------
(***************************************************************************)
(* One tab of the web console (App.jsx, api.js) and the handlers that it   *)
(* calls (app.py).  The tab sends a request and goes on; the service       *)
(* answers when it gets there; the answer is handled when it arrives, by   *)
(* which time others may have overtaken it, the part of the page that      *)
(* asked may be gone, and another user may have signed in.                 *)
(*                                                                         *)
(* A request is sent, served and answered in three steps; it fails in any  *)
(* of them.  A login and the activation of a second factor are served in   *)
(* two: what they check and what they then change are two transactions.    *)
(* Passwords are right, and a person types only codes of secrets that a    *)
(* page has shown.  Left out are the requests by which a part fills its    *)
(* lists when it is mounted: the lists start empty, the intervals and the  *)
(* changes made in the tab load them.  Administrators are not deleted.     *)
(***************************************************************************)
EXTENDS Naturals

CONSTANTS
    Users,
    Admins,      \* those of them that are administrators
    Changers,    \* those who may change the list that is not polled: all, for
                 \* the API keys (their own), administrators, for the keys
    Listers,     \* and those to whom it is given: administrators, and all
    Filters,     \* settings of the filter of the monitor
    Tokens,      \* session tokens
    Slots,       \* requests that clicks have under way: a bound
    Timer,       \* the slot of the intervals
    MaxSecrets,  \* secrets of a second factor that are drawn: a bound
    MaxClicks,   \* clicks, and deeds of others: a bound
    None

ASSUME TabAssumption ==
    /\ Admins \subseteq Users /\ Changers \subseteq Users /\ Listers \subseteq Users
    /\ Timer \notin Slots
    /\ None \notin Users \union Tokens \union Filters
    /\ Filters # {}
    /\ MaxSecrets \in Nat /\ MaxClicks \in Nat

\* The requests that a part may send, with their arguments and their answers.
TabOps == {"me", "logout", "needs", "setup", "login", "register", "forgot", "force", "password",
        "enroll", "activate", "change", "keys", "users", "approve", "delete", "reset",
        "history", "live"}
Me == [user : Users, must : BOOLEAN, mfa : BOOLEAN]
Arguments == Nat \union Users \union Filters \union {None} \union [user : Users, code : Nat]
Answers == Nat \union BOOLEAN \union {None, "data", "disabled"} \union Tokens \union Me
           \union [Users -> {"pending", "reset", "settled"}]
Requests == [op : TabOps, x : Arguments, t : Tokens \union {None}, gone : BOOLEAN,
             state : {"sent", "passed", "ok", "code"}, ans : Answers]

\* No request is None, which stands for null.
ASSUME NoneAssumption == None \notin Requests

VARIABLES
    acct,     \* the table users of the service
    owner,    \* the user that each token was made for
    live,     \* tokens with a row in the table sessions
    keys,     \* (as a number of changes) what that list holds
    secrets,  \* secrets drawn so far
    cookie,   \* the token that the browser has, in all its tabs
    flight,   \* the requests under way
    tab,      \* who is signed in, as the page sees it, and the view
    part,     \* what the mounted parts of the page hold
    known,    \* secrets that the authenticator of the person at the tab holds
    clicks,   \* clicks left
    astray,   \* (history) /api/me failed or came after the cookie had changed, or
              \* another tab has changed it since
    replaced  \* (history) users who were enrolled again with their factor enabled, or
              \* enrolled again or removed with the code for it verified

server == <<acct, owner, live, keys, secrets>>
history == <<astray, replaced>>
tabVars == <<server, cookie, flight, tab, part, known, clicks, history>>

-----------------------------------------------------------------------------
(* The parts of the page *)

Nobody == [user |-> None, must |-> FALSE, mfa |-> FALSE, view |-> "console"]
SignedIn(b) == b.user # None
IsAdmin(u) == u \in Admins

\* What App returns for the state b.
Mounted(c, b) ==
    CASE c = "app"      -> TRUE
      [] c = "gate"     -> ~SignedIn(b)
      [] c = "force"    -> SignedIn(b) /\ b.must
      [] c = "console"  -> SignedIn(b) /\ ~b.must /\ (IsAdmin(b.user) => b.view = "console")
      [] c = "requests" -> SignedIn(b) /\ ~b.must /\ IsAdmin(b.user) /\ b.view = "console"
      [] c = "monitor"  -> SignedIn(b) /\ ~b.must /\ IsAdmin(b.user) /\ b.view = "monitor"

Shows(c) == Mounted(c, tab)

\* The state of the parts, and of those that are not mounted.
FirstFilter == CHOOSE f \in Filters : TRUE
FirstToken == CHOOSE t \in Tokens : TRUE
FirstSlot == CHOOSE s \in Slots : TRUE
SecondSlot == CHOOSE s \in Slots \ {FirstSlot} : TRUE
NoList == [u \in Users |-> "unknown"]
Blank == [screen |-> "loading", otp |-> FALSE, list |-> NoList, keys |-> 0,
          own |-> 0, crossed |-> FALSE, enroll |-> 0, filter |-> FirstFilter, shown |-> None]

\* What is kept of p when the page changes to b.
Kept(p, b) ==
    [screen |-> IF Mounted("gate", b) THEN p.screen ELSE Blank.screen,
     otp |-> Mounted("gate", b) /\ p.otp,
     list |-> IF Mounted("requests", b) THEN p.list ELSE Blank.list,
     keys |-> IF Mounted("console", b) THEN p.keys ELSE 0,
     own |-> IF Mounted("console", b) THEN p.own ELSE 0,
     crossed |-> Mounted("console", b) /\ p.crossed,
     enroll |-> IF Mounted("console", b) THEN p.enroll ELSE 0,
     filter |-> IF Mounted("monitor", b) THEN p.filter ELSE Blank.filter,
     shown |-> IF Mounted("monitor", b) THEN p.shown ELSE None]

\* The part that sends a request.
Sender(op) ==
    CASE op \in {"me", "logout"} -> "app"
      [] op \in {"needs", "setup", "login", "register", "forgot"} -> "gate"
      [] op = "force" -> "force"
      [] op \in {"password", "enroll", "activate", "change", "keys"} -> "console"
      [] op \in {"users", "approve", "delete", "reset"} -> "requests"
      [] op \in {"history", "live"} -> "monitor"

-----------------------------------------------------------------------------
(* Requests *)

Request(op, x, t) ==
    [op |-> op, x |-> x, t |-> t, gone |-> FALSE, state |-> "sent", ans |-> None]

Busy(s) == flight[s] # None
Quiet(ops) == \A s \in Slots \union {Timer} : Busy(s) => flight[s].op \notin ops

Close(s) == [flight EXCEPT ![s] = None]

\* The handler of the answer sends another request; whether its part is still
\* mounted makes no difference.
Chain(s, op, x, t) ==
    [flight EXCEPT ![s] =
        [Request(op, x, t) EXCEPT !.gone = flight[s].gone /\ Sender(op) # "app"]]

\* (mutant) an answer finds the part that has taken the place of the one that asked
BecomeAlone(b, f) == tab' = b /\ part' = Kept(part, b) /\ flight' = f

\* The page becomes b; the answers for parts that go away will find nobody.
Become(b, f) ==
    /\ tab' = b
    /\ part' = Kept(part, b)
    /\ flight' = [s \in DOMAIN f |->
          IF f[s] # None /\ Shows(Sender(f[s].op)) /\ ~Mounted(Sender(f[s].op), b)
          THEN [f[s] EXCEPT !.gone = TRUE] ELSE f[s]]

\* The slots are alike.
Free(s) == ~Busy(s) /\ (s = SecondSlot => Busy(FirstSlot))

Send(s, op, x) ==
    /\ Free(s)
    /\ flight' = [flight EXCEPT ![s] = Request(op, x, cookie)]

Click(s, op, x) ==
    /\ clicks > 0 /\ clicks' = clicks - 1
    /\ Send(s, op, x)
    /\ UNCHANGED <<server, cookie, tab, part, known, history>>
-----------------------------------------------------------------------------
(* The handlers of the service, in one step each but for those of a login and *)
(* of an activation                                                           *)

NoAccount == [status |-> "none", must |-> FALSE, reset |-> FALSE, secret |-> 0, mfa |-> FALSE]
Account(status) == [NoAccount EXCEPT !.status = status]
Has(u, status) == acct[u].status = status
AdminExists == \E u \in Admins : Has(u, "active")

\* session_user; require_auth; require_admin
Caller(t) == IF t \in live THEN owner[t] ELSE None
Full(t) == Caller(t) # None /\ ~acct[Caller(t)].must
Admin(t) == Full(t) /\ IsAdmin(Caller(t))

\* (mutant) any secret of the person will do
CodeValidAny(u, code) == acct[u].secret # 0 /\ code > 0

\* pyotp verifies a code against the secret in the table.
CodeValid(u, code) == acct[u].secret # 0 /\ code = acct[u].secret

\* Whether the handler of r comes to its end.
Permitted(r) ==
    CASE r.op = "me" -> Caller(r.t) # None
      [] r.op \in {"needs", "logout", "forgot"} -> TRUE
      [] r.op = "setup" -> \A u \in Users : Has(u, "none")
      [] r.op = "login" ->
           /\ Has(r.x.user, "active")
           /\ acct[r.x.user].mfa => CodeValid(r.x.user, r.x.code)
      [] r.op = "register" -> AdminExists /\ Has(r.x, "none")
      [] r.op = "force" -> Caller(r.t) # None /\ acct[Caller(r.t)].must
      [] r.op = "password" -> Caller(r.t) # None /\ ~Has(Caller(r.t), "none")
      [] r.op = "enroll" -> Full(r.t)
      [] r.op = "change" -> Full(r.t) /\ Caller(r.t) \in Changers
      [] r.op = "keys" -> Full(r.t) /\ Caller(r.t) \in Listers
      [] r.op = "activate" -> Full(r.t) /\ CodeValid(Caller(r.t), r.x)
      [] r.op \in {"users", "history", "live"} -> Admin(r.t)
      [] r.op = "approve" -> Admin(r.t) /\ Has(r.x, "pending")
      [] r.op = "delete" -> Admin(r.t) /\ ~Has(r.x, "none") /\ r.x # Caller(r.t)
      [] r.op = "reset" -> Admin(r.t) /\ ~Has(r.x, "none")

Listed(u) ==
    IF Has(u, "pending") THEN "pending" ELSE IF acct[u].reset THEN "reset" ELSE "settled"

\* The history, if the service keeps one; the snapshot of the gateway, or the
\* reason why there is none, which the panel shows in its place.
HistoryAnswers == {"data", "disabled"}
LiveAnswers == {"data"}

\* What the handlers that only read return.
Readings(r) ==
    CASE r.op = "me" ->
           LET u == Caller(r.t) IN {[user |-> u, must |-> acct[u].must, mfa |-> acct[u].mfa]}
      [] r.op = "needs" -> {~AdminExists}
      [] r.op = "keys" -> {keys}
      [] r.op = "users" -> {[u \in Users |-> Listed(u)]}
      [] r.op = "history" -> HistoryAnswers
      [] r.op = "live" -> LiveAnswers

Reads == {"me", "needs", "keys", "users", "history", "live"}

Sent(s, ops) == Busy(s) /\ flight[s].state = "sent" /\ flight[s].op \in ops
Served(s, ops) == Sent(s, ops) /\ Permitted(flight[s])
Passed(s, op) == Busy(s) /\ flight[s].state = "passed" /\ flight[s].op = op
Answer(s, v) == flight' = [flight EXCEPT ![s].state = "ok", ![s].ans = v]

\* The password of an active account was right: the code was not, and the
\* message says so.  (Any other refusal is as good as a failure: ErrorArrives.)
WantsCode(s) ==
    /\ Sent(s, {"login"}) /\ ~Permitted(flight[s])
    /\ Has(flight[s].x.user, "active")
    /\ flight' = [flight EXCEPT ![s].state = "code"]
    /\ UNCHANGED <<server, history>>

ServeRead(s) ==
    /\ Served(s, Reads)
    /\ \E v \in Readings(flight[s]) : Answer(s, v)
    /\ UNCHANGED <<server, history>>

\* login and mfa_activate have checked what they check.
ServeCheck(s) ==
    /\ Served(s, {"login", "activate"})
    /\ flight' = [flight EXCEPT ![s].state = "passed"]
    /\ UNCHANGED <<server, history>>

\* create_session does not look at the account again.
ServeLogin(s) ==
    /\ Passed(s, "login")
    /\ \E t \in Tokens :
         /\ owner[t] = None
         /\ owner' = [owner EXCEPT ![t] = flight[s].x.user]
         /\ live' = live \union {t}
         /\ Answer(s, t)
    /\ UNCHANGED <<acct, keys, secrets, history>>

\* set_mfa_enabled looks neither at the secret nor at the session again; without
\* a row it changes nothing.
ServeActivate(s) ==
    LET u == owner[flight[s].t] IN
      /\ Passed(s, "activate")
      /\ acct' = IF Has(u, "none") THEN acct ELSE [acct EXCEPT ![u].mfa = TRUE]
      /\ Answer(s, None)
      /\ UNCHANGED <<owner, live, keys, secrets, history>>

ServeLogout(s) ==
    /\ Served(s, {"logout"})
    /\ live' = live \ {flight[s].t}
    /\ Answer(s, None)
    /\ UNCHANGED <<acct, owner, keys, secrets, history>>

\* The row of u after a handler that changes it.
Changed(op, u) ==
    CASE op = "setup" -> Account("active")
      [] op = "register" -> Account("pending")
      [] op = "forgot" -> IF Has(u, "active") THEN [acct[u] EXCEPT !.reset = TRUE] ELSE acct[u]
      [] op \in {"force", "password"} -> [acct[u] EXCEPT !.must = FALSE, !.reset = FALSE]
      [] op = "approve" -> [acct[u] EXCEPT !.status = "active"]
      [] op = "reset" -> [acct[u] EXCEPT !.must = TRUE, !.reset = FALSE]

ServeAccount(s) ==
    LET r == flight[s]
        u == IF r.op \in {"force", "password"} THEN Caller(r.t) ELSE r.x
    IN
      /\ Served(s, {"setup", "register", "forgot", "force", "password", "approve", "reset"})
      /\ acct' = [acct EXCEPT ![u] = Changed(r.op, u)]
      /\ Answer(s, None)
      /\ UNCHANGED <<owner, live, keys, secrets, history>>

\* A code of u is verified, and his factor about to be enabled.
Activating(u) ==
    \E s \in Slots \union {Timer} : Passed(s, "activate") /\ owner[flight[s].t] = u

\* delete_user with its cascade
Removed(u) ==
    /\ acct' = [acct EXCEPT ![u] = NoAccount]
    /\ live' = {t \in live : owner[t] # u}
    /\ replaced' = replaced \union {v \in {u} : Activating(v)}

ServeDelete(s) ==
    /\ Served(s, {"delete"})
    /\ Removed(flight[s].x)
    /\ Answer(s, None)
    /\ UNCHANGED <<owner, keys, secrets, astray>>

\* set_totp_secret does not look at mfa_enabled; without a row it changes nothing.
Enrolled(u, secret) == IF Has(u, "none") THEN acct ELSE [acct EXCEPT ![u].secret = secret]

ServeEnroll(s) ==
    LET u == Caller(flight[s].t) IN
      /\ Served(s, {"enroll"})
      /\ secrets < MaxSecrets
      /\ secrets' = secrets + 1
      /\ acct' = Enrolled(u, secrets + 1)
      /\ Answer(s, secrets + 1)
      /\ replaced' = replaced \union {v \in {u} : acct[v].mfa \/ Activating(v)}
      /\ UNCHANGED <<owner, live, keys, astray>>

\* A change of the list: a key generated, rotated or deleted, or an API key.
ServeChange(s) ==
    /\ Served(s, {"change"})
    /\ keys' = keys + 1
    /\ Answer(s, keys + 1)
    /\ UNCHANGED <<acct, owner, live, secrets, history>>

Serve(s) ==
    /\ \/ WantsCode(s) \/ ServeRead(s) \/ ServeCheck(s) \/ ServeLogin(s) \/ ServeLogout(s)
       \/ ServeAccount(s) \/ ServeDelete(s) \/ ServeEnroll(s) \/ ServeActivate(s)
       \/ ServeChange(s)
    /\ UNCHANGED <<cookie, tab, part, known, clicks>>

\* Other browsers call the same handlers; sessions grow old.
Elsewhere ==
    /\ clicks > 0 /\ clicks' = clicks - 1
    /\ \/ \E u \in Users, op \in {"register", "approve", "reset"} :
            /\ AdminExists
            /\ op = "register" => ~IsAdmin(u)
            /\ acct[u].status \in CASE op = "register" -> {"none"}
                                   [] op = "approve" -> {"pending"}
                                   [] op = "reset" -> {"pending", "active"}
            /\ acct' = [acct EXCEPT ![u] = Changed(op, u)]
            /\ UNCHANGED <<live, replaced>>
       \/ \E u \in Users \ Admins : ~Has(u, "none") /\ Removed(u)
       \/ \E t \in live : live' = live \ {t} /\ UNCHANGED <<acct, replaced>>
    /\ UNCHANGED <<owner, keys, secrets, cookie, flight, tab, part, known, astray>>

\* Another tab of the browser, which has the same cookie and the same person:
\* it signs in as anybody, or out.
OtherTab ==
    /\ clicks > 0 /\ clicks' = clicks - 1
    /\ \/ \E u \in Users, t \in Tokens :
            /\ Has(u, "active") /\ (acct[u].mfa => acct[u].secret \in known)
            /\ owner[t] = None
            /\ owner' = [owner EXCEPT ![t] = u]
            /\ live' = live \union {t}
            /\ cookie' = t
       \/ /\ cookie # None
          /\ live' = live \ {cookie}
          /\ cookie' = None
          /\ UNCHANGED owner
    /\ astray' = TRUE
    /\ UNCHANGED <<acct, keys, secrets, flight, tab, part, known, replaced>>

-----------------------------------------------------------------------------
(* What a person does at the tab *)

\* AuthGate; the code is asked for after an answer that wanted one.
SignIn(s) ==
    /\ Shows("gate") /\ part.screen = "login"
    /\ \E u \in Users, code \in known \union {0} :
         /\ code # 0 => part.otp
         /\ Click(s, "login", [user |-> u, code |-> code])

SetUp(s) ==
    /\ Shows("gate") /\ part.screen = "setup"
    /\ \E u \in Admins : Click(s, "setup", u)

\* go() to another screen, and back.
RegisterOrForget(s) ==
    /\ Shows("gate") /\ part.screen = "login"
    /\ clicks > 0 /\ clicks' = clicks - 1
    /\ \E u \in Users \ Admins, op \in {"register", "forgot"} : Send(s, op, u)
    /\ part' = [part EXCEPT !.otp = FALSE]
    /\ UNCHANGED <<server, cookie, tab, known, history>>

SetNewPassword(s) == Shows("force") /\ Click(s, "force", None)

SignOut(s) == SignedIn(tab) /\ ~tab.must /\ Click(s, "logout", None)

\* KeysPanel, ApiKeysPanel and EmployeesPanel: what changes their lists.
ChangeList(s) == Shows("console") /\ Click(s, "change", None)

\* SecurityPanel
StartEnroll(s) ==
    /\ Shows("console") /\ ~tab.mfa /\ part.enroll = 0
    /\ secrets < MaxSecrets
    /\ Click(s, "enroll", None)

Confirm(s) ==
    /\ Shows("console") /\ ~tab.mfa /\ part.enroll # 0
    /\ \E code \in known : Click(s, "activate", code)

ChangePassword(s) == Shows("console") /\ Click(s, "password", None)

\* AccountRequestsPanel offers what its list shows.
Decide(s) ==
    /\ Shows("requests")
    /\ \E u \in Users :
         \/ part.list[u] = "pending" /\ (Click(s, "approve", u) \/ Click(s, "delete", u))
         \/ part.list[u] = "reset" /\ Click(s, "reset", u)

\* The effect of MonitorPanel sends a request for the new filter at once.
SetFilter(s) ==
    /\ Shows("monitor")
    /\ clicks > 0 /\ clicks' = clicks - 1
    /\ \E f \in Filters \ {part.filter} :
         part' = [part EXCEPT !.filter = f] /\ Send(s, "history", f)
    /\ UNCHANGED <<server, cookie, tab, known, history>>

SwitchView ==
    /\ Shows("requests") \/ Shows("monitor")
    /\ clicks > 0 /\ clicks' = clicks - 1
    /\ Become([tab EXCEPT !.view = IF @ = "console" THEN "monitor" ELSE "console"], flight)
    /\ UNCHANGED <<server, cookie, known, history>>

-----------------------------------------------------------------------------
(* Effects and intervals *)

\* A poll that is served later is as good as one that was sent later, and one
\* that is refused changes nothing.
Poll(op, x) ==
    LET r == Request(op, x, cookie) IN
      /\ ~Busy(Timer) /\ Permitted(r)
      /\ \E v \in Readings(r) :
            flight' = [flight EXCEPT ![Timer] = [r EXCEPT !.state = "ok", !.ans = v]]
      /\ UNCHANGED <<server, cookie, tab, part, known, clicks, history>>

\* (mutant) the interval keeps the filter it was made with
PolledFilterFirst == FirstFilter

\* The interval is made again with every filter.
PolledFilter == part.filter

PollMonitor == Shows("monitor") /\ Poll("history", PolledFilter)

PollRequests == Shows("requests") /\ Poll("users", None)

-----------------------------------------------------------------------------
(* Answers *)

Ok(s, ops) == Busy(s) /\ flight[s].state = "ok" /\ flight[s].op \in ops
Here(s) == ~flight[s].gone

\* loadMe
MeArrives(s) ==
    LET a == flight[s].ans IN
      /\ Ok(s, {"me"})
      /\ Become([user |-> a.user, must |-> a.must, mfa |-> a.mfa, view |-> tab.view], Close(s))
      /\ astray' = (flight[s].t # cookie)
      /\ UNCHANGED <<cookie, known>>

\* doLogin, with the cookie that the answer sets; then onAuthed.
LoginArrives(s) ==
    /\ Ok(s, {"login"})
    /\ cookie' = flight[s].ans
    /\ flight' = Chain(s, "me", None, flight[s].ans)
    /\ UNCHANGED <<tab, part, known, astray>>

\* doSetup goes on with a login; ForceChangePassword, if it did it, with loadMe.
NextArrives(s) ==
    /\ Ok(s, {"setup", "force"})
    /\ flight' = IF flight[s].op = "force" THEN Chain(s, "me", None, cookie)
                 ELSE Chain(s, "login", [user |-> flight[s].x, code |-> 0], cookie)
    /\ UNCHANGED <<cookie, tab, part, known, astray>>

\* (mutant) the page stays as it was
AfterLogoutStays == tab

AfterLogout == [Nobody EXCEPT !.view = tab.view]

\* logout, whether the service has answered or not; a gate that is new asks
\* whether the service needs its setup.
Leave(s, c) ==
    /\ cookie' = c
    /\ Become(AfterLogout,
              IF Shows("gate") THEN Close(s) ELSE Chain(s, "needs", None, c))
    /\ UNCHANGED <<known, astray>>

NeedsArrives(s) ==
    /\ Ok(s, {"needs"})
    /\ part' = IF Here(s) THEN [part EXCEPT !.screen = IF flight[s].ans THEN "setup" ELSE "login"]
               ELSE part
    /\ flight' = Close(s)
    /\ UNCHANGED <<cookie, tab, known, astray>>

\* The secret is shown unless the page shows a factor that is enabled.
EnrollArrives(s) ==
    /\ Ok(s, {"enroll"})
    /\ part' = IF Here(s) THEN [part EXCEPT !.enroll = flight[s].ans] ELSE part
    /\ known' = IF Here(s) /\ ~tab.mfa THEN known \union {flight[s].ans} ELSE known
    /\ flight' = Close(s)
    /\ UNCHANGED <<cookie, tab, astray>>

\* onMfaChange is App's.
ActivateArrives(s) ==
    /\ Ok(s, {"activate"})
    /\ tab' = [tab EXCEPT !.mfa = TRUE]
    /\ part' = IF Here(s) THEN [part EXCEPT !.enroll = 0] ELSE part
    /\ flight' = Close(s)
    /\ UNCHANGED <<cookie, known, astray>>

\* (mutant) the page does not load the list again
ReloadNot(s) == Close(s)

Reload(s) == Chain(s, IF flight[s].op = "change" THEN "keys" ELSE "users", None, cookie)

\* A change that was made is followed by the list.
ChangeArrives(s) ==
    /\ Ok(s, {"change", "approve", "delete", "reset"})
    /\ flight' = Reload(s)
    /\ part' = IF flight[s].op = "change" /\ Here(s) THEN [part EXCEPT !.own = flight[s].ans]
               ELSE part
    /\ UNCHANGED <<cookie, tab, known, astray>>

\* (mutant) a list that is shown stays
TakesFirst(s) == Here(s) /\ (flight[s].op = "users" => part.list = NoList)

TakesList(s) == Here(s)

ListArrives(s) ==
    /\ Ok(s, {"keys", "users"})
    /\ part' = IF ~TakesList(s) THEN part
               ELSE IF flight[s].op = "users" THEN [part EXCEPT !.list = flight[s].ans]
               ELSE [part EXCEPT !.keys = flight[s].ans,
                                 !.crossed = @ \/ flight[s].ans < part.keys]
    /\ flight' = Close(s)
    /\ UNCHANGED <<cookie, tab, known, astray>>

\* Without a history the monitor shows the live snapshot, of any filter.
MonitorArrives(s) ==
    /\ Ok(s, {"history", "live"})
    /\ IF flight[s].op = "history" /\ flight[s].ans = "disabled"
       THEN flight' = Chain(s, "live", flight[s].x, cookie) /\ UNCHANGED part
       ELSE /\ flight' = Close(s)
            /\ part' = IF Here(s) THEN [part EXCEPT !.shown = <<flight[s].op, flight[s].x>>]
                       ELSE part
    /\ UNCHANGED <<cookie, tab, known, astray>>

NothingArrives(s) ==
    /\ Ok(s, {"register", "forgot", "password"})
    /\ flight' = Close(s)
    /\ part' = [part EXCEPT !.otp = @ /\ (flight[s].op = "register" => flight[s].gone)]
    /\ UNCHANGED <<cookie, tab, known, astray>>

\* An error of the service, or the network's: the service may have served the
\* request or not.
ErrorArrives(s) ==
    /\ Busy(s) /\ flight[s].op # "logout"
    /\ flight' = Close(s)
    /\ part' = CASE flight[s].op = "needs" /\ Here(s) -> [part EXCEPT !.screen = "login"]
               [] flight[s].state = "code" /\ Here(s) -> [part EXCEPT !.otp = TRUE]
               [] flight[s].op = "keys" /\ Here(s) -> [part EXCEPT !.crossed = TRUE]
               [] OTHER -> part
    /\ astray' = (astray \/ flight[s].op = "me")
    /\ UNCHANGED <<cookie, tab, known>>

Arrives(s) ==
    /\ \/ MeArrives(s) \/ LoginArrives(s) \/ NextArrives(s) \/ NeedsArrives(s)
       \/ EnrollArrives(s) \/ ActivateArrives(s) \/ ChangeArrives(s) \/ ListArrives(s)
       \/ MonitorArrives(s) \/ NothingArrives(s)
       \/ Ok(s, {"logout"}) /\ Leave(s, None)
       \/ Busy(s) /\ flight[s].op = "logout" /\ Leave(s, cookie)
       \/ ErrorArrives(s)
    /\ UNCHANGED <<server, clicks, replaced>>
-----------------------------------------------------------------------------
\* The page is loaded, perhaps with the cookie of an earlier one.  There may be
\* no account, or an administrator and others who wait or are approved.
Accounts0 ==
    {[u \in Users |-> NoAccount]} \union
    {a \in [Users -> {Account("pending"), Account("active")}] :
        \A u \in Admins : a[u] = Account("active")}

TabInit ==
    /\ acct \in Accounts0
    /\ owner \in {[t \in Tokens |-> None]} \union
          {[[t \in Tokens |-> None] EXCEPT ![FirstToken] = u] : u \in {v \in Users : Has(v, "active")}}
    /\ live = {t \in Tokens : owner[t] # None}
    /\ cookie = IF live = {} THEN None ELSE FirstToken
    /\ keys = 0
    /\ secrets = 0
    /\ flight = [s \in Slots \union {Timer} |->
          IF s = FirstSlot THEN Request("me", None, cookie)
          ELSE IF s = SecondSlot THEN Request("needs", None, cookie) ELSE None]
    /\ tab = Nobody
    /\ part = Blank
    /\ known = {}
    /\ clicks = MaxClicks
    /\ astray = FALSE
    /\ replaced = {}

Person(s) ==
    \/ SignIn(s) \/ SetUp(s) \/ RegisterOrForget(s) \/ SetNewPassword(s) \/ SignOut(s)
    \/ ChangeList(s) \/ StartEnroll(s) \/ Confirm(s) \/ ChangePassword(s)
    \/ Decide(s) \/ SetFilter(s)

TabNext ==
    \/ \E s \in Slots : Person(s)
    \/ SwitchView
    \/ PollMonitor \/ PollRequests
    \/ \E s \in Slots \union {Timer} : Serve(s) \/ Arrives(s)
    \/ Elsewhere
    \/ OtherTab

\* A request ends: it is answered, or the connection breaks.  It is enough that one
\* of those under way does.
TabFairness == WF_tabVars(\E s \in Slots : Arrives(s))

TabSpec == TabInit /\ [][TabNext]_tabVars /\ TabFairness

-----------------------------------------------------------------------------
TabTypeOK ==
    /\ acct \in [Users -> [status : {"none", "pending", "active"}, must : BOOLEAN,
                           reset : BOOLEAN, secret : 0 .. MaxSecrets, mfa : BOOLEAN]]
    /\ owner \in [Tokens -> Users \union {None}]
    /\ \A t \in live : t \in Tokens /\ owner[t] # None
    /\ keys \in Nat /\ secrets \in 0 .. MaxSecrets
    /\ cookie \in Tokens \union {None}
    /\ cookie # None => owner[cookie] # None
    /\ \A s \in Slots \union {Timer} : Busy(s) =>
          /\ flight[s].t \in Tokens \union {None}
          /\ flight[s].gone \in BOOLEAN
          /\ flight[s].state \in {"sent", "passed", "ok", "code"}
          /\ (Here(s) => Shows(Sender(flight[s].op)))
    /\ tab \in [user : Users \union {None}, must : BOOLEAN, mfa : BOOLEAN,
                view : {"console", "monitor"}]
    /\ part = Kept(part, tab)
    /\ known \subseteq 1 .. secrets

(* Safety *)

\* When no /api/me is under way, the page shows the user whose session the
\* browser has, whatever else is and whatever was clicked twice or came late;
\* unless the last /api/me was answered after the cookie had changed, or failed, or
\* another tab of the browser has signed in or out since.  (App.jsx:1177-1198)
IdentityShown ==
    SignedIn(tab) /\ Quiet({"me"}) =>
        astray \/ (cookie # None /\ owner[cookie] = tab.user)

\* Whoever has the second factor enabled holds its secret; unless he was enrolled
\* again when the factor was enabled, at which mfa_enroll does not look
\* (app.py:558-562), or was enrolled again or removed between the two transactions
\* of an activation, the second of which does not look again (app.py:571-574).
SecondFactorKept ==
    \A u \in Users : acct[u].mfa => acct[u].secret \in known \/ u \in replaced

\* A list that is not polled shows the changes that were made in it, once their
\* requests are answered; unless an older list came late, or none came, as to a user
\* who may change the list and not see it.  (App.jsx:738-749)
OwnChangesShown ==
    Shows("console") /\ Quiet({"keys", "change"}) /\ ~part.crossed => part.keys >= part.own

(* Liveness *)

\* While its polls are answered, the monitor comes to show what its filter says,
\* although answers for an earlier filter arrive late.
MonitorSettles ==
    []<><<MonitorArrives(Timer) /\ ~Busy(Timer)'>>_tabVars =>
        <>[](Shows("monitor") => part.shown # None /\ part.shown[2] = part.filter)

\* And the account requests come to be those that the service has.
RequestsSettle ==
    []<><<ListArrives(Timer)>>_tabVars =>
        <>[](Shows("requests") => part.list = [u \in Users |-> Listed(u)])

=============================================================================
