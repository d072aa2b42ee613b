--------------------------- MODULE AccountsProofs ---------------------------
(***************************************************************************)
(* Theorems about Accounts for any users, callbacks, states and settings,  *)
(* any times to live and any number of restarts.  The inductive invariant  *)
(* says what the rows in Postgres are worth when a restart loads them, and *)
(* what the copy that is being saved under the mutex may contain.          *)
(***************************************************************************)
EXTENDS Accounts, TLAPS

\* A user is in memory whenever a request goes on for them, or a session.
KnownUsers ==
    \A c \in Callbacks :
        c \in sessions \/ at[c] \in {"insert", "remember", "ok"} => hook[User[c]] # "absent"

\* The row of a session has the row of its user.
SessionsHaveUsers == \A c \in rowSessions : rowHook[User[c]] # "absent"

\* The row is there before the session is remembered, and both before it expires.
IssuedIsStored ==
    \A c \in Callbacks :
        /\ at[c] = "remember" => c \in rowSessions
        /\ at[c] = "ok" /\ age[c] < SessionTTL => c \in sessions

\* What is about to be applied to memory is what was saved.
AppliedIsSaved == \A r \in Requests : at[r] = "apply" => rowHook[Subject(r)] = draft[r]

\* What may be saved, in a row or on its way to one.
Current(u, url) == url = agreed[u] \/ url \in tried[u]

RowsAreCurrent == \A u \in Users : rowHook[u] # "absent" => Current(u, rowHook[u])

DraftsAreCurrent ==
    \A r \in Requests : at[r] \in {"save", "apply"} => Current(Subject(r), draft[r])

\* A user nobody knows has made no settings.
UnknownHaveNone == \A u \in Users : hook[u] = "absent" => agreed[u] = "none"

\* A setting that is being saved is among those tried.
PutsAreTried ==
    \A p \in Puts : at[p] \in {"save", "apply"} =>
        /\ draft[p] = Url[p]
        /\ Url[p] \in tried[Putter[p]]

\* An accepted state is never accepted again.
ConsumedIsExpired == \A c \in consumed : issued[State[c]] = Expired

\* The two halves of MemoryIsDurable.
UsersSurvive == \A u \in Users : hook[u] # "absent" => rowHook[u] # "absent"
SessionsSurvive == \A c \in sessions : age[c] < SessionTTL => c \in rowSessions

Settings ==
    /\ AppliedIsSaved /\ RowsAreCurrent /\ DraftsAreCurrent /\ UnknownHaveNone
    /\ PutsAreTried /\ SettingHolds /\ UsersSurvive

Sessions == KnownUsers /\ SessionsHaveUsers /\ IssuedIsStored /\ SessionsSurvive

OAuthStates == ConsumedIsExpired /\ StateIsUsedOnce

IInv == TypeOK /\ Settings /\ Sessions /\ OAuthStates

-----------------------------------------------------------------------------
\* Every request is about a user, and knows a URL if it sets one.
LEMMA Subjects ==
    /\ \A r \in Requests : Subject(r) \in Users
    /\ \A p \in Puts : Url[p] \in Urls /\ Subject(p) = Putter[p]
    /\ \A c \in Callbacks : Subject(c) = User[c]
    /\ \A n \in Notices : Notified[n] \in Users
    /\ "none" \in Urls /\ "absent" \notin Urls /\ Callbacks \cap Puts = {}
BY AccountsAssumption DEF Requests, Subject, Urls

\* Before the first login nobody is known and nothing is stored.
THEOREM InitIInv == Init => IInv
<1> SUFFICES ASSUME Init PROVE IInv
  OBVIOUS
<1>1. TypeOK
  <2>1. \A r \in Requests : lock # r /\ at[r] = "unsent"
    BY AccountsAssumption DEF Init, Requests
  <2>2. lock \in Requests \cup {"nobody"} /\ restarts \in 0 .. MaxRestarts
    BY AccountsAssumption, SMT DEF Init
  <2>3. /\ issued \in [States -> 0 .. Unissued]
        /\ age \in [Callbacks -> 0 .. SessionTTL]
    BY AccountsAssumption, SMT DEF Init, Unissued
  <2> QED
    BY <2>1, <2>2, <2>3, Subjects, SMT DEF Init, TypeOK, Steps
<1>2. Settings
  BY Subjects, SMT DEF Init, Settings, AppliedIsSaved, RowsAreCurrent, DraftsAreCurrent,
     UnknownHaveNone, PutsAreTried, SettingHolds, UsersSurvive, Requests
<1>3. Sessions /\ OAuthStates
  BY SMT DEF Init, Sessions, KnownUsers, SessionsHaveUsers, IssuedIsStored, SessionsSurvive,
     OAuthStates, ConsumedIsExpired, StateIsUsedOnce, Requests
<1> QED
  BY <1>1, <1>2, <1>3 DEF IInv

\* Every action keeps every variable in its type, and the mutex with its holder.
LEMMA TypePreserved == TypeOK /\ [Next]_vars => TypeOK'
<1> SUFFICES ASSUME TypeOK, [Next]_vars PROVE TypeOK'
  OBVIOUS
<1>a. "nobody" \notin Requests /\ Callbacks \subseteq Requests /\ Puts \subseteq Requests
  BY AccountsAssumption DEF Requests
<1>b. /\ StateTTL \in Nat /\ SessionTTL \in Nat \ {0} /\ MaxRestarts \in Nat
      /\ State \in [Callbacks -> States]
  BY AccountsAssumption
<1> USE <1>a, <1>b, Subjects
    DEF TypeOK, Steps, Unissued, Expired, GoTo, oauth, users, logins, ghosts, notes, store
<1>1. ASSUME NEW s \in States, IssueState(s) PROVE TypeOK'
  BY <1>1, SMT DEF IssueState
<1>2. ASSUME NEW c \in Callbacks, Consume(c) PROVE TypeOK'
  BY <1>2, SMT DEF Consume, Used
<1>3. ASSUME NEW c \in Callbacks, Exchange(c) PROVE TypeOK'
  BY <1>3, SMT DEF Exchange
<1>4. ASSUME NEW c \in Callbacks, InsertSession(c) PROVE TypeOK'
  BY <1>4, SMT DEF InsertSession, Inserted
<1>5. ASSUME NEW c \in Callbacks, RememberSession(c) PROVE TypeOK'
  BY <1>5, SMT DEF RememberSession
<1>6. ASSUME NEW c \in Callbacks, ForgetSession(c) PROVE TypeOK'
  BY <1>6, SMT DEF ForgetSession
<1>7. ASSUME NEW p \in Puts, Authenticate(p) PROVE TypeOK'
  BY <1>7, SMT DEF Authenticate
<1>8. ASSUME NEW r \in Requests, Lock(r) PROVE TypeOK'
  BY <1>8, SMT DEF Lock, Free, Updated, Requests
<1>9. ASSUME NEW r \in Requests, Save(r) PROVE TypeOK'
  BY <1>9, SMT DEF Save
<1>10. ASSUME NEW r \in Requests, SaveError(r) PROVE TypeOK'
  BY <1>10, SMT DEF SaveError
<1>11. ASSUME NEW r \in Requests, Apply(r) PROVE TypeOK'
  BY <1>11, SMT DEF Apply
<1>12. CASE Restart
  BY <1>12, SMT DEF Restart, Settled, Unexpired
<1>13. CASE Tick
  BY <1>13, SMT DEF Tick
<1>14. ASSUME NEW n \in Notices, FindOwner(n) \/ CheckHook(n) \/ Send(n) PROVE TypeOK'
  <2>1. Seen(Notified[n]) \subseteq Urls \cup {"torn", "absent"}
    BY DEF Seen, Racing
  <2>2. heard' \in [Notices -> Urls \cup {"torn", "absent"}]
    BY <1>14, <2>1 DEF FindOwner, CheckHook, Send, Target
  <2>3. note' \in [Notices -> {"unsent", "check", "link", "sent", "over"}]
    <3>1. \E step \in {"check", "link", "sent", "over"} : note' = [note EXCEPT ![n] = step]
      BY <1>14 DEF FindOwner, CheckHook, Send
    <3>2. note \in [Notices -> {"unsent", "check", "link", "sent", "over"}]
      OBVIOUS
    <3> QED
      BY ONLY <3>1, <3>2
  <2>4. UNCHANGED <<store, at>>
    BY <1>14 DEF FindOwner, CheckHook, Send
  <2> QED
    BY <2>2, <2>3, <2>4
<1>15. CASE UNCHANGED vars
  BY <1>15 DEF vars
<1> QED
  BY <1>1, <1>2, <1>3, <1>4, <1>5, <1>6, <1>7, <1>8, <1>9, <1>10, <1>11, <1>12, <1>13,
     <1>14, <1>15 DEF Next

-----------------------------------------------------------------------------
\* Only one request at a time is between copying a user and updating memory.
LEMMA MutualExclusion ==
    ASSUME TypeOK, NEW r \in Requests, NEW q \in Requests,
           at[r] \in {"save", "apply"}, at[q] \in {"save", "apply"}
    PROVE  q = r
BY DEF TypeOK

\* Settings are only changed under the mutex and by a restart.
LEMMA SettingsPreserved == ASSUME IInv, [Next]_vars PROVE Settings'
<1> USE Subjects
    DEF IInv, TypeOK, Settings, AppliedIsSaved, RowsAreCurrent, DraftsAreCurrent,
        UnknownHaveNone, PutsAreTried, SettingHolds, UsersSurvive, Current, GoTo,
        oauth, users, logins, ghosts
<1>a. /\ Callbacks \subseteq Requests /\ Puts \subseteq Requests
      /\ Requests = Callbacks \cup Puts
  BY DEF Requests
<1>1. ASSUME UNCHANGED <<draft, users, ghosts>>,
             \A r \in Requests : at'[r] \in {"save", "apply"} => at'[r] = at[r]
      PROVE  Settings'
  BY <1>1, <1>a, SMT
<1>2. ASSUME NEW s \in States, IssueState(s) PROVE Settings'
  BY <1>1, <1>2 DEF IssueState
<1>3. ASSUME NEW c \in Callbacks,
             Consume(c) \/ Exchange(c) \/ InsertSession(c) \/ RememberSession(c)
               \/ ForgetSession(c)
      PROVE  Settings'
  <2>1. UNCHANGED <<draft, users, ghosts>>
    BY <1>3 DEF Consume, Exchange, InsertSession, RememberSession, ForgetSession
  <2>2. \A r \in Requests : at'[r] \in {"save", "apply"} => at'[r] = at[r]
    BY <1>3, <1>a, SMT DEF Consume, Exchange, InsertSession, RememberSession, ForgetSession
  <2> QED
    BY <1>1, <2>1, <2>2
<1>4. ASSUME NEW p \in Puts, Authenticate(p) PROVE Settings'
  <2>1. \A r \in Requests : at'[r] \in {"save", "apply"} => at'[r] = at[r]
    BY <1>4, <1>a, SMT DEF Authenticate
  <2> QED
    BY <1>1, <1>4, <2>1 DEF Authenticate
<1>5. ASSUME NEW r \in Requests, Lock(r) PROVE Settings'
  <2>1. /\ at' = [at EXCEPT ![r] = "save"] /\ draft' = [draft EXCEPT ![r] = Updated(r)]
        /\ UNCHANGED <<hook, rowHook, agreed>>
        /\ \A u \in Users : tried[u] \subseteq tried'[u]
        /\ r \in Puts => Url[r] \in tried'[Subject(r)]
    BY <1>5, SMT DEF Lock
  <2>2. Current(Subject(r), Updated(r))'
    <3>1. CASE r \in Puts
      BY <2>1, <3>1 DEF Updated, Lock
    <3>2. CASE r \in Callbacks /\ hook[User[r]] = "absent"
      BY <2>1, <3>2, SMT DEF Updated
    <3>3. CASE r \in Callbacks /\ hook[User[r]] # "absent"
      BY <2>1, <3>3, SMT DEF Updated
    <3> QED
      BY <1>a, <3>1, <3>2, <3>3
  <2> QED
    BY <2>1, <2>2, <1>a, SMT DEF Updated
<1>6. ASSUME NEW r \in Requests, Save(r) \/ SaveError(r) PROVE Settings'
  <2>1. /\ at[r] = "save" /\ at' \in {[at EXCEPT ![r] = "apply"], [at EXCEPT ![r] = "failed"]}
        /\ rowHook' \in {rowHook, [rowHook EXCEPT ![Subject(r)] = draft[r]]}
        /\ at'[r] = "apply" => rowHook'[Subject(r)] = draft[r]
        /\ UNCHANGED <<draft, hook, agreed, tried>>
    BY <1>6, SMT DEF Save, SaveError
  <2>2. \A q \in Requests \ {r} : at'[q] \notin {"save", "apply"}
    BY <2>1, MutualExclusion, SMT
  <2> QED
    BY <2>1, <2>2, <1>a, SMT
<1>7. ASSUME NEW r \in Requests, Apply(r) PROVE Settings'
  <2>1. at[r] = "apply" /\ rowHook[Subject(r)] = draft[r] /\ UNCHANGED <<draft, rowHook>>
    BY <1>7, SMT DEF Apply
  <2>2. \A q \in Requests : at'[q] \notin {"save", "apply"}
    BY <1>7, <2>1, MutualExclusion, SMT DEF Apply
  <2>3. CASE r \in Callbacks
    BY <1>7, <1>a, <2>1, <2>2, <2>3, SMT DEF Apply
  <2>4. CASE r \in Puts
    BY <1>7, <1>a, <2>1, <2>2, <2>4, SMT DEF Apply
  <2> QED
    BY <1>a, <2>3, <2>4
<1>8. CASE Restart
  BY <1>8, <1>a, SMT DEF Restart, Settled
<1>9. CASE Tick
  BY <1>1, <1>9 DEF Tick
<1>10. CASE UNCHANGED <<store, at>>
  BY <1>1, <1>10 DEF store
<1> QED
  BY <1>2, <1>3, <1>4, <1>5, <1>6, <1>7, <1>8, <1>9, <1>10
  DEF Next, vars, FindOwner, CheckHook, Send

\* A token is only handed out once the session is stored and remembered.
LEMMA SessionsPreserved == ASSUME IInv, [Next]_vars PROVE Sessions'
<1> USE Subjects
    DEF IInv, TypeOK, Sessions, KnownUsers, SessionsHaveUsers, IssuedIsStored,
        SessionsSurvive, GoTo, oauth, users, logins, ghosts
<1>a. /\ Callbacks \subseteq Requests /\ Puts \subseteq Requests
      /\ Requests = Callbacks \cup Puts
      /\ \A c \in Callbacks : User[c] \in Users
      /\ SessionTTL \in Nat
  BY AccountsAssumption DEF Requests
<1>1. ASSUME UNCHANGED logins,
             \A u \in Users : /\ hook[u] # "absent" => hook'[u] # "absent"
                              /\ rowHook[u] # "absent" => rowHook'[u] # "absent",
             \A c \in Callbacks : at'[c] \in {"insert", "remember", "ok"} =>
                 \/ at'[c] = at[c]
                 \/ at'[c] = "insert" /\ hook'[User[c]] # "absent"
      PROVE  Sessions'
  BY <1>1, <1>a, SMT
<1>2. ASSUME NEW s \in States, IssueState(s) PROVE Sessions'
  BY <1>1, <1>2 DEF IssueState
<1>3. ASSUME NEW c \in Callbacks, Consume(c) \/ Exchange(c) PROVE Sessions'
  <2>1. UNCHANGED <<logins, users>>
    BY <1>3 DEF Consume, Exchange
  <2>2. \A d \in Callbacks : at'[d] \in {"insert", "remember", "ok"} => at'[d] = at[d]
    BY <1>3, <1>a, SMT DEF Consume, Exchange
  <2> QED
    BY <1>1, <2>1, <2>2
<1>4. ASSUME NEW c \in Callbacks, InsertSession(c) PROVE Sessions'
  <2>1. rowHook[User[c]] # "absent"
    BY <1>4, <1>a, SMT DEF InsertSession, Settings, UsersSurvive
  <2> QED
    BY <1>4, <1>a, <2>1, SMT DEF InsertSession, Inserted
<1>5. ASSUME NEW c \in Callbacks, RememberSession(c) PROVE Sessions'
  BY <1>5, <1>a, SMT DEF RememberSession
<1>6. ASSUME NEW c \in Callbacks, ForgetSession(c) PROVE Sessions'
  BY <1>6, <1>a, SMT DEF ForgetSession
<1>7. ASSUME NEW p \in Puts, Authenticate(p) PROVE Sessions'
  <2>1. \A d \in Callbacks : at'[d] = at[d]
    BY <1>7, <1>a, SMT DEF Authenticate
  <2> QED
    BY <1>1, <1>7, <2>1 DEF Authenticate
<1>8. ASSUME NEW r \in Requests, Lock(r) PROVE Sessions'
  <2>1. \A d \in Callbacks : at'[d] \in {"insert", "remember", "ok"} => at'[d] = at[d]
    BY <1>8, <1>a, SMT DEF Lock
  <2> QED
    BY <1>1, <1>8, <2>1 DEF Lock
<1>9. ASSUME NEW r \in Requests, Save(r) \/ SaveError(r) PROVE Sessions'
  <2>1. \A d \in Callbacks : at'[d] \in {"insert", "remember", "ok"} => at'[d] = at[d]
    BY <1>9, <1>a, SMT DEF Save, SaveError
  <2>2. \A u \in Users : rowHook[u] # "absent" => rowHook'[u] # "absent"
    BY <1>9, <1>a, SMT DEF Save, SaveError
  <2>3. UNCHANGED <<logins, hook>>
    BY <1>9 DEF Save, SaveError
  <2> QED
    BY <1>1, <2>1, <2>2, <2>3
<1>10. ASSUME NEW r \in Requests, Apply(r) PROVE Sessions'
  <2>1. \A u \in Users : hook[u] # "absent" => hook'[u] # "absent"
    BY <1>10, <1>a, SMT DEF Apply
  <2>2. \A d \in Callbacks : at'[d] \in {"insert", "remember", "ok"} =>
           \/ at'[d] = at[d]
           \/ at'[d] = "insert" /\ hook'[User[d]] # "absent"
    BY <1>10, <1>a, SMT DEF Apply
  <2> QED
    BY <1>1, <1>10, <2>1, <2>2 DEF Apply
<1>11. CASE Restart
  BY <1>11, <1>a, SMT DEF Restart, Settled, Unexpired, Settings, UsersSurvive
<1>12. CASE Tick
  BY <1>12, <1>a, SMT DEF Tick
<1>13. CASE UNCHANGED <<store, at>>
  BY <1>1, <1>13 DEF store
<1> QED
  BY <1>2, <1>3, <1>4, <1>5, <1>6, <1>7, <1>8, <1>9, <1>10, <1>11, <1>12, <1>13
  DEF Next, vars, FindOwner, CheckHook, Send

\* Accepting a state expires it, and nothing makes it young again.
LEMMA OAuthStatesPreserved == ASSUME IInv, [Next]_vars PROVE OAuthStates'
<1> USE DEF IInv, TypeOK, OAuthStates, ConsumedIsExpired, StateIsUsedOnce, Expired, Unissued,
        oauth, users, logins, ghosts
<1>a. StateTTL \in Nat /\ \A c \in Callbacks : State[c] \in States
  BY AccountsAssumption
<1>1. ASSUME NEW s \in States, IssueState(s) PROVE OAuthStates'
  BY <1>1, <1>a, SMT DEF IssueState
<1>2. ASSUME NEW c \in Callbacks, Consume(c) PROVE OAuthStates'
  BY <1>2, <1>a, SMT DEF Consume, Used
<1>3. ASSUME NEW c \in Callbacks,
             Exchange(c) \/ InsertSession(c) \/ RememberSession(c) \/ ForgetSession(c)
      PROVE  OAuthStates'
  BY <1>3, SMT DEF Exchange, InsertSession, RememberSession, ForgetSession
<1>4. ASSUME NEW p \in Puts, Authenticate(p) PROVE OAuthStates'
  BY <1>4, SMT DEF Authenticate
<1>5. ASSUME NEW r \in Requests, Lock(r) \/ Save(r) \/ SaveError(r) \/ Apply(r)
      PROVE  OAuthStates'
  BY <1>5, SMT DEF Lock, Save, SaveError, Apply
<1>6. CASE Restart
  BY <1>6, <1>a, SMT DEF Restart
<1>7. CASE Tick
  BY <1>7, <1>a, SMT DEF Tick
<1>8. CASE UNCHANGED <<store, at>>
  BY <1>8, SMT DEF store
<1> QED
  BY <1>1, <1>2, <1>3, <1>4, <1>5, <1>6, <1>7, <1>8
  DEF Next, vars, FindOwner, CheckHook, Send

\* Every action keeps the inductive invariant.
THEOREM IInvPreserved == IInv /\ [Next]_vars => IInv'
BY TypePreserved, SettingsPreserved, SessionsPreserved, OAuthStatesPreserved DEF IInv

\* The inductive invariant holds in every reachable state.
THEOREM SpecIInv == Spec => []IInv
BY InitIInv, IInvPreserved, PTL DEF Spec

-----------------------------------------------------------------------------
\* The types, and the mutex that is held over a save and no longer.
THEOREM SpecTypeOK == Spec => []TypeOK
<1>1. IInv => TypeOK
  BY DEF IInv
<1> QED
  BY <1>1, SpecIInv, PTL

\* A token that reached a browser names its user until it expires, whatever
\* fails and however often the coordinator restarts (userstore.go:62-66).
THEOREM SpecReceivedTokenWorks == Spec => []ReceivedTokenWorks
<1>1. IInv => ReceivedTokenWorks
  BY DEF IInv, Sessions, KnownUsers, IssuedIsStored, ReceivedTokenWorks, Valid
<1> QED
  BY <1>1, SpecIInv, PTL

\* Memory holds the setting last answered, or a later one that may have been
\* written: saving whole rows under the mutex loses no setting
\* (userstore.go:195-215).
THEOREM SpecSettingHolds == Spec => []SettingHolds
<1>1. IInv => SettingHolds
  BY DEF IInv, Settings
<1> QED
  BY <1>1, SpecIInv, PTL

\* What memory serves from, a restart would load again (userstore.go:114-157).
THEOREM SpecMemoryIsDurable == Spec => []MemoryIsDurable
<1>1. IInv => MemoryIsDurable
  BY DEF IInv, Settings, Sessions, UsersSurvive, SessionsSurvive, MemoryIsDurable
<1> QED
  BY <1>1, SpecIInv, PTL

\* No two callbacks log in with one OAuth state (authstate.go:11-13).
THEOREM SpecStateIsUsedOnce == Spec => []StateIsUsedOnce
<1>1. IInv => StateIsUsedOnce
  BY DEF IInv, OAuthStates
<1> QED
  BY <1>1, SpecIInv, PTL

\* Only the goroutines of notifyFinishedTest change their own step, and their
\* last one reads the webhook as it is.
LEMMA Sending ==
    ASSUME TypeOK, [Next]_vars, NEW n \in Notices, note'[n] = "sent", note[n] # "sent"
    PROVE  Send(n)
<1> USE DEF TypeOK, store, notes, GoTo
<1>1. CASE UNCHANGED notes
  BY <1>1
<1>2. ASSUME NEW m \in Notices, FindOwner(m) \/ CheckHook(m) PROVE FALSE
  BY <1>2 DEF FindOwner, CheckHook
<1>3. ASSUME NEW m \in Notices, Send(m) PROVE Send(n)
  <2>1. note' = [note EXCEPT ![m] = "sent"]
    BY <1>3 DEF Send
  <2>2. m = n
    BY <2>1
  <2> QED
    BY <1>3, <2>2
<1>4. CASE Restart
  BY <1>4 DEF Restart
<1> QED
  BY <1>1, <1>2, <1>3, <1>4
  DEF Next, vars, IssueState, Consume, Exchange, InsertSession, RememberSession,
      ForgetSession, Authenticate, Lock, Save, SaveError, Apply, Tick

\* An owner who was found stays known.
OwnersKnown == \A n \in Notices : note[n] \in {"check", "link"} => hook[Notified[n]] # "absent"

LEMMA OwnersKnownPreserved == ASSUME IInv, OwnersKnown, [Next]_vars PROVE OwnersKnown'
<1> USE Subjects DEF IInv, TypeOK, OwnersKnown, Settings, UsersSurvive, users, notes, store
<1>1. ASSUME UNCHANGED notes, \A u \in Users : hook[u] # "absent" => hook'[u] # "absent"
      PROVE  OwnersKnown'
  BY <1>1
<1>2. ASSUME NEW r \in Requests, Apply(r) PROVE OwnersKnown'
  <2>1. \A u \in Users : hook[u] # "absent" => hook'[u] # "absent"
    BY <1>2, SMT DEF Apply, Requests
  <2> QED
    BY <1>1, <1>2, <2>1 DEF Apply
<1>3. CASE Restart
  BY <1>3 DEF Restart
<1>4. ASSUME NEW n \in Notices, FindOwner(n) \/ CheckHook(n) \/ Send(n) PROVE OwnersKnown'
  BY <1>4 DEF FindOwner, CheckHook, Send
<1>5. CASE UNCHANGED <<hook, notes>>
  BY <1>1, <1>5
<1> QED
  BY <1>2, <1>3, <1>4, <1>5
  DEF Next, vars, IssueState, Consume, Exchange, InsertSession, RememberSession,
      ForgetSession, Authenticate, Lock, Save, SaveError, Tick

\* Notifications go to the setting that is current when they are sent, unless it
\* is being written that very moment (resultwatcher.go:103-120).
THEOREM SpecNotifiedIsCurrent == Spec => NotifiedIsCurrent
<1>1. ASSUME IInv, OwnersKnown, [Next]_vars, NEW n \in Notices, note'[n] = "sent", note[n] # "sent"
      PROVE  LET u == Notified[n] IN
             heard'[n] \in {agreed[u]} \cup tried[u] \/ Racing(u) # {}
  <2> DEFINE u == Notified[n]
  <2>1. Send(n) /\ note[n] = "link" /\ u \in Users
    BY <1>1, Sending, Subjects DEF IInv, Send
  <2>2. heard'[n] \in Seen(u)
    BY <1>1, <2>1 DEF IInv, TypeOK, Send, Target
  <2>3. CASE Racing(u) = {}
    <3>1. heard'[n] = hook[u]
      BY <2>2, <2>3 DEF Seen
    <3> QED
      BY <1>1, <2>1, <3>1 DEF IInv, Settings, SettingHolds, OwnersKnown
  <2> QED
    BY <2>3
<1>2. IInv /\ OwnersKnown /\ [Next]_vars =>
        [\A n \in Notices : note'[n] = "sent" /\ note[n] # "sent" =>
            LET u == Notified[n] IN
            heard'[n] \in {agreed[u]} \cup tried[u] \/ Racing(u) # {}]_vars
  BY <1>1
<1>3. Init => OwnersKnown
  BY DEF Init, OwnersKnown
<1>4. IInv /\ OwnersKnown /\ [Next]_vars => OwnersKnown'
  BY OwnersKnownPreserved
<1> QED
  BY <1>2, <1>3, <1>4, SpecIInv, PTL DEF Spec, NotifiedIsCurrent
=============================================================================
