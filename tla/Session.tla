------------------------------ MODULE Session -------------------------------
(***************************************************************************)
(* The one EvengClient that all tool calls share, its login, and its       *)
(* transparent relogin.  EVE-NG keeps one session per account: a login     *)
(* ends the session that was there, also when both are this client's.      *)
(*                                                                         *)
(* A call gets the client (get_client), then sends any number of requests. *)
(* A request or a login is sent, handled by EVE-NG, and answered, in three *)
(* steps of their own; what the other calls do comes in between.  The      *)
(* reply to a login takes two: httpx stores the cookie when the headers    *)
(* have arrived, and login goes on when the body has.                      *)
(***************************************************************************)
EXTENDS Naturals, FiniteSets

CONSTANTS
  Tasks,        \* tool calls that are open at once
  NoTask,       \* the holder of a free lock
  Cookies,      \* the session cookies EVE-NG makes up
  NoCookie,     \* no cookie, or no session
  Shared        \* TRUE if others log in with the account, too

ASSUME SessionAssumption ==
  NoTask \notin Tasks /\ NoCookie \notin Cookies /\ Shared \in BOOLEAN

VARIABLES
  valid,          \* EVE-NG: the cookie of the account's session
  jar,            \* the cookie in the client's cookie jar
  authenticated,  \* the client's _authenticated
  lock,           \* the task inside get_client's lock
  pc,             \* what each call waits for
  cookie,         \* the cookie sent with a request, or returned by a login
  answer,         \* EVE-NG's answer to the request or login, once it is handled
  outcome,        \* how the last request of the call ended
  \* history
  rival,          \* tasks whose session another login, or its loss, has ended, or
                  \* whose cookie that of another login has replaced, since they
                  \* first sent their current request
  carried         \* tasks whose current request EVE-NG has carried out

clientVars  == <<jar, authenticated, lock>>
callVars    == <<pc, cookie, answer, outcome>>
historyVars == <<rival, carried>>
vars == <<valid, clientVars, callVars, historyVars>>

Init ==
  /\ valid = NoCookie /\ jar = NoCookie
  /\ authenticated = FALSE
  /\ lock = NoTask
  /\ pc = [t \in Tasks |-> "idle"]
  /\ cookie = [t \in Tasks |-> NoCookie]
  /\ answer = [t \in Tasks |-> "none"]
  /\ outcome = [t \in Tasks |-> "none"]
  /\ rival = {} /\ carried = {}

\* A new cookie is none that is still in use anywhere; which one does not matter.
Unused == Cookies \ ({valid, jar} \cup {cookie[t] : t \in Tasks})
Fresh  == {k \in Unused : k = CHOOSE u \in Unused : TRUE}

\* Task t goes on to wait for something, with cookie k and nothing answered yet.
WaitFor(t, what, k) ==
  /\ pc' = [pc EXCEPT ![t] = what]
  /\ cookie' = [cookie EXCEPT ![t] = k]
  /\ answer' = [answer EXCEPT ![t] = "none"]

\* Task t's request has ended, for the tool, with o.
Ends(t, o) ==
  /\ WaitFor(t, "ready", NoCookie)
  /\ outcome' = [outcome EXCEPT ![t] = o]
-----------------------------------------------------------------------------
\* An agent calls a tool, which calls get_client.
Call(t) ==
  /\ pc[t] = "idle"
  /\ WaitFor(t, "getClient", NoCookie)
  /\ outcome' = [outcome EXCEPT ![t] = "none"]
  /\ UNCHANGED <<valid, clientVars, historyVars>>

\* Mutant of GetClient: the client is handed out without ensure_authenticated.
GetClientUnchecked(t) ==
  /\ pc[t] = "getClient" /\ lock = NoTask
  /\ WaitFor(t, "ready", NoCookie)
  /\ UNCHANGED <<valid, clientVars, outcome, historyVars>>

\* Mutant of GetClient: the lock is kept when nothing has to be done.
GetClientKeeping(t) ==
  /\ pc[t] = "getClient" /\ lock = NoTask
  /\ lock' = t
  /\ WaitFor(t, IF authenticated THEN "ready" ELSE "login", NoCookie)
  /\ UNCHANGED <<valid, jar, authenticated, outcome, historyVars>>

\* get_client inside its lock: ensure_authenticated logs in unless that is done.
GetClient(t) ==
  /\ pc[t] = "getClient" /\ lock = NoTask
  /\ IF authenticated
     THEN WaitFor(t, "ready", NoCookie) /\ UNCHANGED lock
     ELSE WaitFor(t, "login", NoCookie) /\ lock' = t
  /\ UNCHANGED <<valid, jar, authenticated, outcome, historyVars>>

\* EVE-NG handles a login: there is a new session, and only that.
ServeLogin(t) ==
  /\ pc[t] \in {"login", "relogin"} /\ answer[t] = "none"
  /\ \E k \in Fresh :
       /\ valid' = k
       /\ cookie' = [cookie EXCEPT ![t] = k]
  /\ answer' = [answer EXCEPT ![t] = "done"]
  /\ rival' = rival \cup (Tasks \ {t})
  /\ UNCHANGED <<clientVars, pc, outcome, carried>>

\* The headers of the reply to a login: httpx puts its cookie into the jar.
StoreCookie(t) ==
  /\ pc[t] \in {"login", "relogin"} /\ answer[t] = "done"
  /\ jar' = cookie[t]
  /\ answer' = [answer EXCEPT ![t] = "stored"]
  /\ rival' = rival \cup (Tasks \ {t})
  /\ UNCHANGED <<valid, authenticated, lock, pc, cookie, outcome, carried>>

\* The rest of the reply: login sets _authenticated.
LoggedIn(t) ==
  /\ answer[t] = "stored"
  /\ authenticated' = TRUE

\* The login of get_client is answered; the lock is free again.
LoginAnswered(t) ==
  /\ pc[t] = "login"
  /\ LoggedIn(t)
  /\ lock' = NoTask
  /\ WaitFor(t, "ready", NoCookie)
  /\ UNCHANGED <<valid, jar, outcome, historyVars>>

\* A tool with the client sends a request, with the cookie that is in the jar.
Send(t) ==
  /\ pc[t] = "ready"
  /\ WaitFor(t, "request", jar)
  /\ outcome' = [outcome EXCEPT ![t] = "none"]
  /\ rival' = rival \ {t} /\ carried' = carried \ {t}
  /\ UNCHANGED <<valid, clientVars>>

\* EVE-NG handles a request: it is carried out, or rejected for what it asks,
\* but only in the account's session.
Serve(t) ==
  /\ pc[t] \in {"request", "retry"} /\ answer[t] = "none"
  /\ \/ /\ cookie[t] = valid /\ valid # NoCookie
        /\ \/ /\ answer' = [answer EXCEPT ![t] = "done"]
              /\ carried' = carried \cup {t}
           \/ /\ answer' = [answer EXCEPT ![t] = "rejected"]
              /\ UNCHANGED carried
     \/ /\ cookie[t] # valid \/ valid = NoCookie
        /\ answer' = [answer EXCEPT ![t] = "unauthorized"]
        /\ UNCHANGED carried
  /\ UNCHANGED <<valid, clientVars, pc, cookie, outcome, rival>>

\* Mutant of NeedsRelogin: the status of a lost session (412) is not among them.
NeedsReloginSometimes(a) == a = "rejected"

\* The statuses 400, 401 and 412 mean that the session is lost, or that the
\* request is not valid; which one, the client cannot tell.
NeedsRelogin(a) == a \in {"rejected", "unauthorized"}

\* _request: a first answer.
Answered(t) ==
  /\ pc[t] = "request" /\ answer[t] # "none"
  /\ IF NeedsRelogin(answer[t])
     THEN /\ authenticated' = FALSE
          /\ WaitFor(t, "relogin", NoCookie)
          /\ UNCHANGED outcome
     ELSE Ends(t, answer[t]) /\ UNCHANGED authenticated
  /\ UNCHANGED <<valid, jar, lock, historyVars>>

\* _request: the relogin is answered, and the request is sent again, with the cookie
\* that is in the jar by now.
ReloginAnswered(t) ==
  /\ pc[t] = "relogin"
  /\ LoggedIn(t)
  /\ WaitFor(t, "retry", jar)
  /\ UNCHANGED <<valid, jar, lock, outcome, historyVars>>

\* _request: the answer to the retry is final.
RetryAnswered(t) ==
  /\ pc[t] = "retry" /\ answer[t] # "none"
  /\ Ends(t, answer[t])
  /\ UNCHANGED <<valid, clientVars, historyVars>>

\* Mutant of Fail: a request whose answer is lost is sent again.
FailRetrying(t) ==
  /\ pc[t] = "request"
  /\ WaitFor(t, "relogin", NoCookie)
  /\ UNCHANGED <<valid, clientVars, outcome, historyVars>>

\* A request or a login fails: an HTTP error, a timeout, another error status, an
\* answer that is no JSON; handled or not, its cookie stored or not.  The tool may
\* catch it and go on.
Fail(t) ==
  /\ pc[t] \in {"request", "relogin", "retry"}
  /\ Ends(t, "raised")
  /\ UNCHANGED <<valid, clientVars, historyVars>>

\* The login of get_client fails, or its task is cancelled; the lock is free again.
FailLogin(t) ==
  /\ pc[t] = "login"
  /\ WaitFor(t, "idle", NoCookie)
  /\ lock' = NoTask
  /\ UNCHANGED <<valid, jar, authenticated, outcome, historyVars>>

\* The task of a call is cancelled while it waits for get_client's lock.
GiveUp(t) ==
  /\ pc[t] = "getClient"
  /\ WaitFor(t, "idle", NoCookie)
  /\ UNCHANGED <<valid, clientVars, outcome, historyVars>>

\* The tool is done.
Return(t) ==
  /\ pc[t] = "ready"
  /\ WaitFor(t, "idle", NoCookie)
  /\ outcome' = [outcome EXCEPT ![t] = "none"]
  /\ UNCHANGED <<valid, clientVars, historyVars>>

\* Someone else logs in with the account, or its session is ended.  A login of
\* this client that EVE-NG handles after the client has given up on it does this, too.
Elsewhere ==
  /\ Shared
  /\ \E k \in Fresh \cup {NoCookie} : valid' = k
  /\ rival' = Tasks
  /\ UNCHANGED <<clientVars, callVars, carried>>

\* What call t waits for of EVE-NG happens.
Progress(t) ==
  \/ ServeLogin(t) \/ StoreCookie(t) \/ LoginAnswered(t) \/ Serve(t) \/ Answered(t)
  \/ ReloginAnswered(t) \/ RetryAnswered(t) \/ Fail(t) \/ FailLogin(t)

Next ==
  \/ \E t \in Tasks : Call(t) \/ GiveUp(t) \/ GetClient(t) \/ Send(t) \/ Return(t) \/ Progress(t)
  \/ Elsewhere

Spec == Init /\ [][Next]_vars

(***************************************************************************)
(* Fairness.  A request is answered, fails, or runs into httpx's timeout.  *)
(* Who waits for get_client's lock, a FIFO asyncio.Lock, gets it.  No tool *)
(* has to send a request, and no failure has to happen.                    *)
(***************************************************************************)
FairSpec == Spec /\ \A t \in Tasks : WF_vars(Progress(t)) /\ SF_vars(GetClient(t))
-----------------------------------------------------------------------------
States == {"idle", "getClient", "login", "ready", "request", "relogin", "retry"}
Answers == {"none", "done", "stored", "rejected", "unauthorized"}

TypeOK ==
  /\ valid \in Cookies \cup {NoCookie} /\ jar \in Cookies \cup {NoCookie}
  /\ authenticated \in BOOLEAN
  /\ lock \in Tasks \cup {NoTask}
  /\ pc \in [Tasks -> States]
  /\ cookie \in [Tasks -> Cookies \cup {NoCookie}]
  /\ answer \in [Tasks -> Answers]
  /\ outcome \in [Tasks -> Answers \cup {"raised"}]
  /\ rival \subseteq Tasks /\ carried \subseteq Tasks

\* The relogin is transparent: whatever had become of the session before, a request
\* only ends as unauthorized if its session was ended once more while it ran, or the
\* cookie of another login came into the jar.
HealsUnlessRival == \A t \in Tasks : outcome[t] = "unauthorized" => t \in rival

\* The retry never carries a request out a second time: what was carried out is
\* answered, or given up, but not sent again.
NeverTwice ==
  \A t \in carried : pc[t] # "relogin" /\ (pc[t] = "retry" => answer[t] = "done")

\* Every request goes out with a cookie: a login has succeeded before the first
\* tool gets the client, however many calls arrive together.
LoggedInFirst == \A t \in Tasks : pc[t] \in {"request", "retry"} => cookie[t] # NoCookie

\* "using a separate, dedicated account for this server [...] rules this class of
\* issue out entirely" (docs/tools-reference.md): without others on the account, no
\* request fails because a login has ended its session.
DedicatedAccountSuffices ==
  ~Shared => \A t \in Tasks : outcome[t] # "unauthorized"

\* Nobody waits for ever for the client or for an answer.
Waits(t) == pc[t] \notin {"idle", "ready"}
EveryWaitEnds == \A t \in Tasks : Waits(t) ~> ~Waits(t)
-----------------------------------------------------------------------------
(***************************************************************************)
(* The inductive invariant.                                                *)
(***************************************************************************)
\* A relogin's session is the account's until a rival ends it, its cookie stays in the
\* jar until that of a rival is stored, and the retry is sent with it.
RetryInv ==
  \A t \in Tasks :
    /\ pc[t] = "relogin" /\ answer[t] \in {"done", "stored"} => cookie[t] = valid \/ t \in rival
    /\ pc[t] = "relogin" /\ answer[t] = "stored" => cookie[t] = jar \/ t \in rival
    /\ pc[t] = "retry" /\ answer[t] = "none" => cookie[t] = valid \/ t \in rival
    /\ pc[t] = "retry" /\ answer[t] = "unauthorized" => t \in rival
    /\ pc[t] \in {"login", "relogin"} /\ answer[t] # "none" => cookie[t] # NoCookie
    /\ pc[t] \in {"login", "relogin"} => answer[t] \in {"none", "done", "stored"}
    /\ pc[t] = "retry" => cookie[t] # NoCookie

\* A request that was carried out has been answered so, and nothing else.
CarriedInv ==
  \A t \in Tasks :
    pc[t] \in {"request", "retry"} => (t \in carried <=> answer[t] = "done")

\* Once a call has the client, or a login its cookie stored, the jar has a cookie.
JarInv ==
  (authenticated \/ \E t \in Tasks : \/ pc[t] \in {"ready", "request", "relogin", "retry"}
                                     \/ answer[t] = "stored")
    => jar # NoCookie

LockInv == \A t \in Tasks : pc[t] = "login" <=> lock = t

IInv ==
  /\ TypeOK /\ HealsUnlessRival /\ NeverTwice /\ LoggedInFirst
  /\ RetryInv /\ CarriedInv /\ JarInv /\ LockInv
=============================================================================
