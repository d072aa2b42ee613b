------------------------------ MODULE Accounts ------------------------------
(***************************************************************************)
(* Users, their sessions and their settings: the GitHub login flow         *)
(* (authstate.go, handlers.go:77-148), UserStore (userstore.go), which     *)
(* serves from memory and writes to Postgres first (identitystore.go), and *)
(* the restart that loads it again; and the goroutines that notify owners  *)
(* (resultwatcher.go:103), which read a user the store may be changing.  A *)
(* session is named by the callback that issued it; of a user's row only   *)
(* the webhook is kept.                                                    *)
(***************************************************************************)
EXTENDS Naturals

CONSTANTS
    Users,
    Callbacks,  \* requests of GET /auth/github/callback
    User,       \* User[c]: the user GitHub names in callback c
    States,     \* OAuth states
    State,      \* State[c]: the state callback c carries
    Puts,       \* requests of PUT /me/webhook
    Putter,     \* Putter[p]: the user who makes request p
    Url,        \* Url[p]: what p sets the webhook to
    Notices,    \* goroutines that tell an owner of a finished test
    Notified,   \* Notified[n]: the owner n tells
    StateTTL, SessionTTL,
    MaxRestarts \* bound: restarts of the coordinator

Urls == {"none"} \cup {Url[p] : p \in Puts}

ASSUME AccountsAssumption ==
    /\ User \in [Callbacks -> Users] /\ State \in [Callbacks -> States]
    /\ Putter \in [Puts -> Users] /\ DOMAIN Url = Puts
    /\ StateTTL \in Nat /\ SessionTTL \in Nat \ {0} /\ MaxRestarts \in Nat
    /\ Callbacks \cap Puts = {} /\ "nobody" \notin Callbacks \cup Puts
    /\ Notified \in [Notices -> Users]
    /\ {"absent", "torn"} \cap Urls = {}

VARIABLES
    issued,     \* issued[s]: age of state s, Expired or Unissued
    at,         \* at[r]: the step of request r
    lock,       \* the request that holds UserStore.mu across a save, or "nobody"
    draft,      \* draft[r]: the webhook in the row r is about to save
    hook,       \* hook[u]: the webhook of u in memory, "absent" for an unknown user
    rowHook,    \* rowHook[u]: the same in table users
    sessions,   \* the sessions in memory
    rowSessions,\* the rows of table sessions
    age,        \* age[c]: age of the session of callback c
    note,       \* note[n]: the step of goroutine n
    heard,      \* heard[n]: the webhook n read last
    consumed,   \* callbacks whose state was accepted
    agreed,     \* agreed[u]: the last webhook whose PUT was answered with 200
    tried,      \* tried[u]: the webhooks of later PUTs that were not
    restarts

Requests == Callbacks \cup Puts
Subject(r) == IF r \in Callbacks THEN User[r] ELSE Putter[r]

oauth == <<issued, consumed>>
users == <<hook, rowHook>>
logins == <<sessions, rowSessions, age>>
ghosts == <<agreed, tried>>
notes == <<note, heard>>
store == <<oauth, lock, draft, users, logins, ghosts, restarts>>
vars == <<store, at, notes>>

Expired == StateTTL + 1
Unissued == StateTTL + 2

Steps == {"unsent", "exchange", "user", "save", "apply", "insert", "remember", "ok", "failed"}

TypeOK ==
    /\ issued \in [States -> 0 .. Unissued]
    /\ at \in [Requests -> Steps]
    /\ lock \in Requests \cup {"nobody"}
    /\ draft \in [Requests -> Urls]
    /\ hook \in [Users -> Urls \cup {"absent"}] /\ rowHook \in [Users -> Urls \cup {"absent"}]
    /\ sessions \subseteq Callbacks /\ rowSessions \subseteq Callbacks
    /\ age \in [Callbacks -> 0 .. SessionTTL]
    /\ note \in [Notices -> {"unsent", "check", "link", "sent", "over"}]
    /\ heard \in [Notices -> Urls \cup {"torn", "absent"}]
    /\ consumed \subseteq Callbacks
    /\ agreed \in [Users -> Urls] /\ tried \in [Users -> SUBSET Urls]
    /\ restarts \in 0 .. MaxRestarts
    \* The mutex is held over a save and no longer.
    /\ \A r \in Requests : at[r] \in {"save", "apply"} <=> lock = r

Init ==
    /\ issued = [s \in States |-> Unissued] /\ consumed = {}
    /\ at = [r \in Requests |-> "unsent"]
    /\ lock = "nobody" /\ draft = [r \in Requests |-> "none"]
    /\ hook = [u \in Users |-> "absent"] /\ rowHook = [u \in Users |-> "absent"]
    /\ sessions = {} /\ rowSessions = {} /\ age = [c \in Callbacks |-> 0]
    /\ note = [n \in Notices |-> "unsent"] /\ heard = [n \in Notices |-> "none"]
    /\ agreed = [u \in Users |-> "none"] /\ tried = [u \in Users |-> {}]
    /\ restarts = 0

GoTo(r, step) == at' = [at EXCEPT ![r] = step]

-----------------------------------------------------------------------------
(* The login flow. *)

\* GET /auth/github/login.
IssueState(s) ==
    /\ issued[s] = Unissued
    /\ issued' = [issued EXCEPT ![s] = 0]
    /\ UNCHANGED <<consumed, at, lock, draft, users, logins, ghosts, restarts, notes>>

\* Mutant of Used: an accepted state stays issued until it expires.
UsedAgain(s) == issued[s]

\* delete(s.issued, state), whatever its age.
Used(s) == Expired

\* The callback arrives, with the state of a browser that may come twice.
Consume(c) ==
    LET s == State[c] IN
    /\ at[c] = "unsent" /\ issued[s] # Unissued
    /\ \/ /\ issued[s] <= StateTTL
          /\ GoTo(c, "exchange") /\ consumed' = consumed \cup {c}
       \/ /\ issued[s] > StateTTL
          /\ GoTo(c, "failed") /\ UNCHANGED consumed
    /\ issued' = [issued EXCEPT ![s] = Used(s)]
    /\ UNCHANGED <<lock, draft, users, logins, ghosts, restarts, notes>>

\* GitHub exchanges the code and names the user, or does not.
Exchange(c) ==
    /\ at[c] = "exchange"
    /\ GoTo(c, "user") \/ GoTo(c, "failed")
    /\ UNCHANGED <<oauth, lock, draft, users, logins, ghosts, restarts, notes>>

\* UserStore.mu can be taken.
Free == lock = "nobody"

\* Valid sessions, by UserForSession.
Valid(c) == c \in sessions /\ age[c] < SessionTTL /\ hook[User[c]] # "absent"

\* PUT /me/webhook passes requireAuth and the checks on the URL.
Authenticate(p) ==
    /\ at[p] = "unsent" /\ Free
    /\ \E c \in Callbacks : Valid(c) /\ User[c] = Putter[p]
    /\ GoTo(p, "user")
    /\ UNCHANGED <<oauth, lock, draft, users, logins, ghosts, restarts, notes>>

-----------------------------------------------------------------------------
(* UserStore: FindOrCreate and SetWebhookURL. *)

\* Mutant of Updated: a login starts from a new user.
UpdatedFromNew(r) == IF r \in Puts THEN Url[r] ELSE "none"

\* The webhook of the updated copy of the user.
Updated(r) ==
    IF r \in Puts THEN Url[r]
    ELSE IF hook[User[r]] = "absent" THEN "none" ELSE hook[User[r]]

\* The mutex is taken and the user copied.
Lock(r) ==
    LET u == Subject(r) IN
    /\ at[r] = "user" /\ Free
    /\ GoTo(r, "save") /\ lock' = r
    /\ draft' = [draft EXCEPT ![r] = Updated(r)]
    /\ tried' = [tried EXCEPT ![u] = @ \cup IF r \in Puts THEN {Url[r]} ELSE {}]
    /\ UNCHANGED <<oauth, users, logins, agreed, restarts, notes>>

\* SaveUser succeeds.
Save(r) ==
    /\ at[r] = "save"
    /\ GoTo(r, "apply")
    /\ rowHook' = [rowHook EXCEPT ![Subject(r)] = draft[r]]
    /\ UNCHANGED <<oauth, lock, draft, hook, logins, ghosts, restarts, notes>>

\* SaveUser fails or times out; the row may have been written by then.
SaveError(r) ==
    /\ at[r] = "save"
    /\ GoTo(r, "failed") /\ lock' = "nobody"
    /\ rowHook' = [rowHook EXCEPT ![Subject(r)] = draft[r]] \/ UNCHANGED rowHook
    /\ UNCHANGED <<oauth, draft, hook, logins, ghosts, restarts, notes>>

\* Memory follows, and the mutex is released.  A PUT is answered.
Apply(r) ==
    LET u == Subject(r) IN
    /\ at[r] = "apply"
    /\ lock' = "nobody"
    /\ \/ /\ r \in Callbacks
          /\ GoTo(r, "insert") /\ hook' = [hook EXCEPT ![u] = IF @ = "absent" THEN "none" ELSE @]
          /\ UNCHANGED ghosts
       \/ /\ r \in Puts
          /\ GoTo(r, "ok") /\ hook' = [hook EXCEPT ![u] = Url[r]]
          /\ agreed' = [agreed EXCEPT ![u] = Url[r]] /\ tried' = [tried EXCEPT ![u] = {}]
    /\ UNCHANGED <<oauth, draft, rowHook, logins, restarts, notes>>

-----------------------------------------------------------------------------
(* UserStore: IssueSession and UserForSession. *)

\* Mutant of Inserted: the session is kept in memory only.
InsertedNowhere(c) == rowSessions

Inserted(c) == rowSessions \cup {c}

InsertSession(c) ==
    /\ at[c] = "insert"
    /\ \/ GoTo(c, "remember") /\ rowSessions' = Inserted(c)
       \/ GoTo(c, "failed") /\ rowSessions' \in {rowSessions, Inserted(c)}
    /\ UNCHANGED <<oauth, lock, draft, users, sessions, age, ghosts, restarts, notes>>

\* The browser is sent to the dashboard with the token.
RememberSession(c) ==
    /\ at[c] = "remember" /\ Free
    /\ GoTo(c, "ok")
    /\ sessions' = sessions \cup {c}
    /\ UNCHANGED <<oauth, lock, draft, users, rowSessions, age, ghosts, restarts, notes>>

\* The first use of a session after its expiry removes it.
ForgetSession(c) ==
    /\ c \in sessions /\ age[c] >= SessionTTL /\ Free
    /\ sessions' = sessions \ {c}
    /\ UNCHANGED <<oauth, at, lock, draft, users, rowSessions, age, ghosts, restarts, notes>>

-----------------------------------------------------------------------------
(* notifyFinishedTest: the user is found under the mutex, and read without it. *)

\* A PUT for u is between its save and the end of its critical section.
Racing(u) == {p \in Puts : at[p] = "apply" /\ Putter[p] = u}

\* What a read of the webhook of u may see: the string is written meanwhile.
Seen(u) ==
    {hook[u]} \cup IF Racing(u) = {} THEN {} ELSE {"torn"} \cup {Url[p] : p \in Racing(u)}

FindOwner(n) ==
    /\ note[n] = "unsent" /\ Free
    /\ note' = [note EXCEPT ![n] = IF hook[Notified[n]] = "absent" THEN "over" ELSE "check"]
    /\ UNCHANGED <<store, at, heard>>

\* The first read: is there a webhook at all?
CheckHook(n) ==
    /\ note[n] = "check"
    /\ heard' \in {[heard EXCEPT ![n] = url] : url \in Seen(Notified[n])}
    /\ note' = [note EXCEPT ![n] = IF heard'[n] = "none" THEN "over" ELSE "link"]
    /\ UNCHANGED <<store, at>>

\* Mutant of Target: the URL of the first read is kept.
TargetChecked(n) == {heard[n]}

Target(n) == Seen(Notified[n])

\* The second read, once the link of the report is there: Notify is called.
Send(n) ==
    /\ note[n] = "link"
    /\ heard' \in {[heard EXCEPT ![n] = url] : url \in Target(n)}
    /\ note' = [note EXCEPT ![n] = "sent"]
    /\ UNCHANGED <<store, at>>

-----------------------------------------------------------------------------
\* Mutant of Unexpired: sessions in their last unit of time are pruned.
UnexpiredForLong == {c \in rowSessions : age[c] + 1 < SessionTTL}

Unexpired == {c \in rowSessions : age[c] < SessionTTL}

\* Requests under way end with the process.
Settled(step) == IF step \in {"unsent", "ok", "failed"} THEN step ELSE "failed"

\* A restart loads users and unexpired sessions, and prunes the others.
Restart ==
    /\ restarts < MaxRestarts
    /\ restarts' = restarts + 1
    /\ issued' = [s \in States |-> IF issued[s] = Unissued THEN Unissued ELSE Expired]
    /\ at' = [r \in Requests |-> Settled(at[r])]
    /\ note' = [n \in Notices |-> IF note[n] \in {"check", "link"} THEN "over" ELSE note[n]]
    /\ lock' = "nobody"
    /\ hook' = rowHook
    /\ sessions' = Unexpired /\ rowSessions' = Unexpired
    /\ UNCHANGED <<consumed, draft, rowHook, age, ghosts, heard>>

\* expiresAt is fixed before the row is inserted.
Ageing(c) == at[c] \in {"remember", "ok"} \/ c \in rowSessions

Tick ==
    /\ issued' = [s \in States |-> IF issued[s] <= StateTTL THEN issued[s] + 1 ELSE issued[s]]
    /\ age' = [c \in Callbacks |-> IF Ageing(c) /\ age[c] < SessionTTL THEN age[c] + 1 ELSE age[c]]
    /\ UNCHANGED <<consumed, at, lock, draft, users, sessions, rowSessions, ghosts, restarts,
                   notes>>

Next ==
    \/ \E s \in States : IssueState(s)
    \/ \E c \in Callbacks :
         Consume(c) \/ Exchange(c) \/ InsertSession(c) \/ RememberSession(c) \/ ForgetSession(c)
    \/ \E p \in Puts : Authenticate(p)
    \/ \E r \in Requests : Lock(r) \/ Save(r) \/ SaveError(r) \/ Apply(r)
    \/ \E n \in Notices : FindOwner(n) \/ CheckHook(n) \/ Send(n)
    \/ Restart \/ Tick

Spec == Init /\ [][Next]_vars

-----------------------------------------------------------------------------
(***************************************************************************)
(* A token that was handed to a browser names its user until it expires,   *)
(* however often the coordinator restarts: "users, sessions, and webhook   *)
(* settings survive a coordinator restart" (userstore.go:62-66).           *)
(***************************************************************************)
ReceivedTokenWorks ==
    \A c \in Callbacks : at[c] = "ok" /\ age[c] < SessionTTL => Valid(c)

(***************************************************************************)
(* The webhook in memory is the last one that was answered with 200, or    *)
(* one of the later ones that failed and may have been written: neither a  *)
(* login, which writes the whole row, nor a restart brings an older one    *)
(* back.  The mutex is held across the save for this (userstore.go:195-215).*)
(***************************************************************************)
SettingHolds == \A u \in Users : hook[u] \in {"absent", agreed[u]} \cup tried[u]

(***************************************************************************)
(* What memory serves from, it would still know after a restart: users and *)
(* unexpired sessions are written first (userstore.go:114-157).            *)
(***************************************************************************)
MemoryIsDurable ==
    /\ \A u \in Users : hook[u] # "absent" => rowHook[u] # "absent"
    /\ \A c \in sessions : age[c] < SessionTTL => c \in rowSessions

(***************************************************************************)
(* "A state is only ever accepted once" (authstate.go:11-13): two          *)
(* callbacks with one state never both log in.                             *)
(***************************************************************************)
StateIsUsedOnce == \A c, d \in consumed : State[c] = State[d] => c = d

(***************************************************************************)
(* A notification goes to the webhook whose PUT was answered last, or one  *)
(* tried since: although EnsureShareToken comes between the check and the  *)
(* call, and although the user is read without the mutex, no URL that was  *)
(* replaced before the call is used.  Only a read in the middle of the     *)
(* assignment may see something that was never set                         *)
(* (resultwatcher.go:103-120, userstore.go:207).                           *)
(***************************************************************************)
NotifiedIsCurrent ==
    [][\A n \in Notices : note'[n] = "sent" /\ note[n] # "sent" =>
          LET u == Notified[n] IN
          heard'[n] \in {agreed[u]} \cup tried[u] \/ Racing(u) # {}]_vars
=============================================================================
