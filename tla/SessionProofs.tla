--------------------------- MODULE SessionProofs ----------------------------
(***************************************************************************)
(* Proofs about Session, for any sets of calls and cookies, whether or not *)
(* others use the account: the inductive invariant, and from it the safety *)
(* properties.  There is one lemma per action, with a step for each group  *)
(* of conjuncts: types, what a retry knows, what has been carried out,     *)
(* that there is a cookie, and who holds get_client's lock.                *)
(***************************************************************************)
EXTENDS Session, TLAPS

-----------------------------------------------------------------------------
\* Nothing is sent, answered or logged in before the first call.
LEMMA InitIInv == Init => IInv
BY SessionAssumption DEF Init, IInv, TypeOK, HealsUnlessRival, NeverTwice, LoggedInFirst,
   RetryInv, CarriedInv, JarInv, LockInv, States, Answers

\* A tool asks for the client.
LEMMA CallKeeps ==
  ASSUME IInv, NEW t \in Tasks, Call(t) PROVE IInv'
<1>1. TypeOK'
  BY DEF IInv, TypeOK, Call, WaitFor, clientVars, historyVars, States, Answers
<1>2. HealsUnlessRival' /\ RetryInv'
  BY DEF IInv, TypeOK, HealsUnlessRival, RetryInv, Call, WaitFor, clientVars,
     historyVars
<1>3. NeverTwice' /\ CarriedInv'
  BY DEF IInv, TypeOK, NeverTwice, CarriedInv, Call, WaitFor, clientVars, historyVars
<1>4. LoggedInFirst' /\ JarInv'
  BY DEF IInv, TypeOK, LoggedInFirst, JarInv, Call, WaitFor, clientVars, historyVars
<1>5. LockInv'
  BY DEF IInv, TypeOK, LockInv, Call, WaitFor, clientVars, historyVars
<1> QED BY <1>1, <1>2, <1>3, <1>4, <1>5 DEF IInv

\* A task is cancelled while it waits for the client.
LEMMA GiveUpKeeps ==
  ASSUME IInv, NEW t \in Tasks, GiveUp(t) PROVE IInv'
<1>1. TypeOK'
  BY DEF IInv, TypeOK, GiveUp, WaitFor, clientVars, historyVars, States, Answers
<1>2. HealsUnlessRival' /\ RetryInv'
  BY DEF IInv, TypeOK, HealsUnlessRival, RetryInv, GiveUp, WaitFor, clientVars,
     historyVars
<1>3. NeverTwice' /\ CarriedInv'
  BY DEF IInv, TypeOK, NeverTwice, CarriedInv, GiveUp, WaitFor, clientVars, historyVars
<1>4. LoggedInFirst' /\ JarInv'
  BY DEF IInv, TypeOK, LoggedInFirst, JarInv, GiveUp, WaitFor, clientVars, historyVars
<1>5. LockInv'
  BY DEF IInv, TypeOK, LockInv, GiveUp, WaitFor, clientVars, historyVars
<1> QED BY <1>1, <1>2, <1>3, <1>4, <1>5 DEF IInv

\* A tool gets the client, or logs in inside the lock, which nobody else holds.
LEMMA GetClientKeeps ==
  ASSUME IInv, NEW t \in Tasks, GetClient(t) PROVE IInv'
<1>1. TypeOK'
  BY DEF IInv, TypeOK, GetClient, WaitFor, historyVars, States, Answers
<1>2. HealsUnlessRival' /\ RetryInv'
  BY DEF IInv, TypeOK, HealsUnlessRival, RetryInv, GetClient, WaitFor, historyVars
<1>3. NeverTwice' /\ CarriedInv'
  BY DEF IInv, TypeOK, NeverTwice, CarriedInv, GetClient, WaitFor, historyVars
<1>4. LoggedInFirst' /\ JarInv'
  BY DEF IInv, TypeOK, LoggedInFirst, JarInv, GetClient, WaitFor, historyVars
<1>5. LockInv'
  BY SessionAssumption DEF IInv, TypeOK, LockInv, GetClient, WaitFor, historyVars
<1> QED BY <1>1, <1>2, <1>3, <1>4, <1>5 DEF IInv

\* A request goes out with the cookie in the jar, which JarInv says there is.
LEMMA SendKeeps ==
  ASSUME IInv, NEW t \in Tasks, Send(t) PROVE IInv'
<1>1. TypeOK'
  BY DEF IInv, TypeOK, Send, WaitFor, clientVars, States, Answers
<1>2. HealsUnlessRival' /\ RetryInv'
  BY DEF IInv, TypeOK, HealsUnlessRival, RetryInv, Send, WaitFor, clientVars
<1>3. NeverTwice' /\ CarriedInv'
  BY DEF IInv, TypeOK, NeverTwice, CarriedInv, Send, WaitFor, clientVars
<1>4. LoggedInFirst' /\ JarInv'
  BY DEF IInv, TypeOK, LoggedInFirst, JarInv, Send, WaitFor, clientVars
<1>5. LockInv'
  BY DEF IInv, TypeOK, LockInv, Send, WaitFor, clientVars
<1> QED BY <1>1, <1>2, <1>3, <1>4, <1>5 DEF IInv

\* A tool is done.
LEMMA ReturnKeeps ==
  ASSUME IInv, NEW t \in Tasks, Return(t) PROVE IInv'
<1>1. TypeOK'
  BY DEF IInv, TypeOK, Return, WaitFor, clientVars, historyVars, States, Answers
<1>2. HealsUnlessRival' /\ RetryInv'
  BY DEF IInv, TypeOK, HealsUnlessRival, RetryInv, Return, WaitFor, clientVars,
     historyVars
<1>3. NeverTwice' /\ CarriedInv'
  BY DEF IInv, TypeOK, NeverTwice, CarriedInv, Return, WaitFor, clientVars, historyVars
<1>4. LoggedInFirst' /\ JarInv'
  BY DEF IInv, TypeOK, LoggedInFirst, JarInv, Return, WaitFor, clientVars, historyVars
<1>5. LockInv'
  BY DEF IInv, TypeOK, LockInv, Return, WaitFor, clientVars, historyVars
<1> QED BY <1>1, <1>2, <1>3, <1>4, <1>5 DEF IInv

\* EVE-NG makes a new session: every other call now has a rival.
LEMMA ServeLoginKeeps ==
  ASSUME IInv, NEW t \in Tasks, ServeLogin(t) PROVE IInv'
<1>1. TypeOK'
  BY DEF IInv, TypeOK, ServeLogin, Fresh, Unused, clientVars, States, Answers
<1>2. HealsUnlessRival' /\ RetryInv'
  BY SessionAssumption DEF IInv, TypeOK, HealsUnlessRival, RetryInv, ServeLogin, Fresh, Unused,
     clientVars
<1>3. NeverTwice' /\ CarriedInv'
  BY DEF IInv, TypeOK, NeverTwice, CarriedInv, ServeLogin, Fresh, Unused, clientVars
<1>4. LoggedInFirst' /\ JarInv'
  BY DEF IInv, TypeOK, LoggedInFirst, JarInv, ServeLogin, Fresh, Unused, clientVars
<1>5. LockInv'
  BY DEF IInv, TypeOK, LockInv, ServeLogin, Fresh, Unused, clientVars
<1> QED BY <1>1, <1>2, <1>3, <1>4, <1>5 DEF IInv

\* The cookie of a login goes to the jar: every other call now has a rival.
LEMMA StoreCookieKeeps ==
  ASSUME IInv, NEW t \in Tasks, StoreCookie(t) PROVE IInv'
<1>1. TypeOK'
  BY DEF IInv, TypeOK, StoreCookie, States, Answers
<1>2. HealsUnlessRival' /\ RetryInv'
  BY DEF IInv, TypeOK, HealsUnlessRival, RetryInv, StoreCookie
<1>3. NeverTwice' /\ CarriedInv'
  BY DEF IInv, TypeOK, NeverTwice, CarriedInv, StoreCookie
<1>4. LoggedInFirst' /\ JarInv'
  BY DEF IInv, TypeOK, LoggedInFirst, JarInv, RetryInv, StoreCookie
<1>5. LockInv'
  BY DEF IInv, TypeOK, LockInv, StoreCookie
<1> QED BY <1>1, <1>2, <1>3, <1>4, <1>5 DEF IInv

\* The login of get_client is answered, and its lock is free.
LEMMA LoginAnsweredKeeps ==
  ASSUME IInv, NEW t \in Tasks, LoginAnswered(t) PROVE IInv'
<1>1. TypeOK'
  BY DEF IInv, TypeOK, LoginAnswered, WaitFor, LoggedIn, historyVars, States, Answers
<1>2. HealsUnlessRival' /\ RetryInv'
  BY DEF IInv, TypeOK, HealsUnlessRival, RetryInv, LoginAnswered, WaitFor, LoggedIn,
     historyVars
<1>3. NeverTwice' /\ CarriedInv'
  BY DEF IInv, TypeOK, NeverTwice, CarriedInv, LoginAnswered, WaitFor, LoggedIn,
     historyVars
<1>4. LoggedInFirst' /\ JarInv'
  BY DEF IInv, TypeOK, LoggedInFirst, JarInv, RetryInv, LoginAnswered, WaitFor,
     LoggedIn, historyVars
<1>5. LockInv'
  BY SessionAssumption DEF IInv, TypeOK, LockInv, LoginAnswered, WaitFor, LoggedIn,
     historyVars
<1> QED BY <1>1, <1>2, <1>3, <1>4, <1>5 DEF IInv

\* EVE-NG handles a request, and records what it has carried out.
LEMMA ServeKeeps ==
  ASSUME IInv, NEW t \in Tasks, Serve(t) PROVE IInv'
<1>1. TypeOK'
  BY DEF IInv, TypeOK, Serve, clientVars, States, Answers
<1>2. HealsUnlessRival' /\ RetryInv'
  BY DEF IInv, TypeOK, HealsUnlessRival, RetryInv, Serve, clientVars
<1>3. NeverTwice' /\ CarriedInv'
  BY DEF IInv, TypeOK, NeverTwice, CarriedInv, Serve, clientVars
<1>4. LoggedInFirst' /\ JarInv'
  BY DEF IInv, TypeOK, LoggedInFirst, JarInv, Serve, clientVars
<1>5. LockInv'
  BY DEF IInv, TypeOK, LockInv, Serve, clientVars
<1> QED BY <1>1, <1>2, <1>3, <1>4, <1>5 DEF IInv

\* A first answer: what goes on to a relogin has not been carried out.
LEMMA AnsweredKeeps ==
  ASSUME IInv, NEW t \in Tasks, Answered(t) PROVE IInv'
<1>1. TypeOK'
  BY DEF IInv, TypeOK, Answered, WaitFor, Ends, NeedsRelogin, historyVars, States,
     Answers
<1>2. HealsUnlessRival' /\ RetryInv'
  BY DEF IInv, TypeOK, HealsUnlessRival, RetryInv, JarInv, Answered, WaitFor, Ends,
     NeedsRelogin, historyVars
<1>3. NeverTwice' /\ CarriedInv'
  BY DEF IInv, TypeOK, NeverTwice, CarriedInv, Answered, WaitFor, Ends, NeedsRelogin,
     historyVars
<1>4. LoggedInFirst' /\ JarInv'
  BY DEF IInv, TypeOK, LoggedInFirst, JarInv, Answered, WaitFor, Ends, NeedsRelogin,
     historyVars
<1>5. LockInv'
  BY DEF IInv, TypeOK, LockInv, Answered, WaitFor, Ends, NeedsRelogin, historyVars
<1> QED BY <1>1, <1>2, <1>3, <1>4, <1>5 DEF IInv

\* A relogin is answered: the retry goes out with its cookie and in its session, unless a
\* rival has replaced the one or ended the other.
LEMMA ReloginAnsweredKeeps ==
  ASSUME IInv, NEW t \in Tasks, ReloginAnswered(t) PROVE IInv'
<1>1. TypeOK'
  BY DEF IInv, TypeOK, ReloginAnswered, WaitFor, LoggedIn, historyVars, States, Answers
<1>2. HealsUnlessRival' /\ RetryInv'
  BY DEF IInv, TypeOK, HealsUnlessRival, RetryInv, JarInv, ReloginAnswered, WaitFor, LoggedIn,
     historyVars
<1>3. NeverTwice' /\ CarriedInv'
  BY DEF IInv, TypeOK, NeverTwice, CarriedInv, ReloginAnswered, WaitFor, LoggedIn,
     historyVars
<1>4. LoggedInFirst' /\ JarInv'
  BY DEF IInv, TypeOK, LoggedInFirst, JarInv, RetryInv, ReloginAnswered, WaitFor,
     LoggedIn, historyVars
<1>5. LockInv'
  BY DEF IInv, TypeOK, LockInv, ReloginAnswered, WaitFor, LoggedIn, historyVars
<1> QED BY <1>1, <1>2, <1>3, <1>4, <1>5 DEF IInv

\* A retry is answered: if as unauthorized, RetryInv knows of a rival.
LEMMA RetryAnsweredKeeps ==
  ASSUME IInv, NEW t \in Tasks, RetryAnswered(t) PROVE IInv'
<1>1. TypeOK'
  BY DEF IInv, TypeOK, RetryAnswered, WaitFor, Ends, clientVars, historyVars, States,
     Answers
<1>2. HealsUnlessRival' /\ RetryInv'
  BY DEF IInv, TypeOK, HealsUnlessRival, RetryInv, RetryAnswered, WaitFor, Ends,
     clientVars, historyVars
<1>3. NeverTwice' /\ CarriedInv'
  BY DEF IInv, TypeOK, NeverTwice, CarriedInv, RetryAnswered, WaitFor, Ends, clientVars,
     historyVars
<1>4. LoggedInFirst' /\ JarInv'
  BY DEF IInv, TypeOK, LoggedInFirst, JarInv, RetryAnswered, WaitFor, Ends, clientVars,
     historyVars
<1>5. LockInv'
  BY DEF IInv, TypeOK, LockInv, RetryAnswered, WaitFor, Ends, clientVars, historyVars
<1> QED BY <1>1, <1>2, <1>3, <1>4, <1>5 DEF IInv

\* A request or a relogin fails.
LEMMA FailKeeps ==
  ASSUME IInv, NEW t \in Tasks, Fail(t) PROVE IInv'
<1>1. TypeOK'
  BY DEF IInv, TypeOK, Fail, WaitFor, Ends, clientVars, historyVars, States, Answers
<1>2. HealsUnlessRival' /\ RetryInv'
  BY DEF IInv, TypeOK, HealsUnlessRival, RetryInv, Fail, WaitFor, Ends, clientVars,
     historyVars
<1>3. NeverTwice' /\ CarriedInv'
  BY DEF IInv, TypeOK, NeverTwice, CarriedInv, Fail, WaitFor, Ends, clientVars,
     historyVars
<1>4. LoggedInFirst' /\ JarInv'
  BY DEF IInv, TypeOK, LoggedInFirst, JarInv, Fail, WaitFor, Ends, clientVars,
     historyVars
<1>5. LockInv'
  BY DEF IInv, TypeOK, LockInv, Fail, WaitFor, Ends, clientVars, historyVars
<1> QED BY <1>1, <1>2, <1>3, <1>4, <1>5 DEF IInv

\* The login of get_client fails, and its lock is free.
LEMMA FailLoginKeeps ==
  ASSUME IInv, NEW t \in Tasks, FailLogin(t) PROVE IInv'
<1>1. TypeOK'
  BY DEF IInv, TypeOK, FailLogin, WaitFor, historyVars, States, Answers
<1>2. HealsUnlessRival' /\ RetryInv'
  BY DEF IInv, TypeOK, HealsUnlessRival, RetryInv, FailLogin, WaitFor, historyVars
<1>3. NeverTwice' /\ CarriedInv'
  BY DEF IInv, TypeOK, NeverTwice, CarriedInv, FailLogin, WaitFor, historyVars
<1>4. LoggedInFirst' /\ JarInv'
  BY DEF IInv, TypeOK, LoggedInFirst, JarInv, FailLogin, WaitFor, historyVars
<1>5. LockInv'
  BY SessionAssumption DEF IInv, TypeOK, LockInv, FailLogin, WaitFor, historyVars
<1> QED BY <1>1, <1>2, <1>3, <1>4, <1>5 DEF IInv

\* Another login, or the end of the session, makes every call's session rivalled.
LEMMA ElsewhereKeeps == IInv /\ Elsewhere => IInv'
BY DEF IInv, TypeOK, HealsUnlessRival, NeverTwice, LoggedInFirst, RetryInv, CarriedInv,
   JarInv, LockInv, Elsewhere, Fresh, Unused, clientVars, callVars

\* Every step of the client and of EVE-NG preserves the invariant.
LEMMA NextIInv == IInv /\ [Next]_vars => IInv'
<1> SUFFICES ASSUME IInv, [Next]_vars PROVE IInv'
  OBVIOUS
<1>1. CASE Elsewhere
  BY <1>1, ElsewhereKeeps
<1>2. ASSUME NEW t \in Tasks, Progress(t) PROVE IInv'
  BY <1>2, ServeLoginKeeps, StoreCookieKeeps, LoginAnsweredKeeps, ServeKeeps, AnsweredKeeps,
     ReloginAnsweredKeeps, RetryAnsweredKeeps, FailKeeps, FailLoginKeeps DEF Progress
<1>3. ASSUME NEW t \in Tasks, Call(t) \/ GiveUp(t) \/ GetClient(t) \/ Send(t) \/ Return(t)
      PROVE  IInv'
  BY <1>3, CallKeeps, GiveUpKeeps, GetClientKeeps, SendKeeps, ReturnKeeps
<1>4. CASE UNCHANGED vars
  BY <1>4 DEF vars, clientVars, callVars, historyVars, IInv, TypeOK, HealsUnlessRival,
     NeverTwice, LoggedInFirst, RetryInv, CarriedInv, JarInv, LockInv
<1> QED BY <1>1, <1>2, <1>3, <1>4 DEF Next

\* The invariant holds in every reachable state of the client and its session.
THEOREM Invariance == Spec => []IInv
  BY InitIInv, NextIInv, PTL DEF Spec

\* _request heals a lost session: a request that still ends as unauthorized had its
\* session ended, or its cookie replaced, once more while it ran.
THEOREM RetryHeals == Spec => []HealsUnlessRival
<1>1. IInv => HealsUnlessRival
  BY DEF IInv
<1> QED BY <1>1, Invariance, PTL

\* _request never sends again what EVE-NG has carried out.
THEOREM RetryRepeatsNothing == Spec => []NeverTwice
<1>1. IInv => NeverTwice
  BY DEF IInv
<1> QED BY <1>1, Invariance, PTL

\* get_client hands the client out only after a login: no request goes out without
\* a cookie.
THEOREM LoginComesFirst == Spec => []LoggedInFirst
<1>1. IInv => LoggedInFirst
  BY DEF IInv
<1> QED BY <1>1, Invariance, PTL
=============================================================================
