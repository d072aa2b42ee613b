------------------------------ MODULE History ------------------------------
(***************************************************************************)
(* Finished tests in Postgres (coordinator/history.go) and what is done    *)
(* with them while the TestStore still holds them in memory: the results   *)
(* watcher saves a test whenever it finishes, the webhook goroutine and    *)
(* the owner's requests create share links in two queries that other       *)
(* calls come between, and the owner looks at, labels and deletes them.    *)
(***************************************************************************)
EXTENDS Naturals, FiniteSets

CONSTANTS
    Tests, Users,
    Owner,      \* Owner[t]: the user who submitted t
    Url,        \* Url[t]: what t tests
    ListLimit,  \* testHistoryListLimit
    TrendLimit, \* trendListLimit
    Labels,     \* the labels a request may set, "none" for the empty one
    Calls,      \* calls of EnsureShareToken, each made once
    MaxReports, \* bound: updates of a test
    MaxRestarts \* bound: restarts of the coordinator

ASSUME HistoryAssumption ==
    /\ IsFiniteSet(Tests) /\ DOMAIN Url = Tests
    /\ ListLimit \in Nat \ {0} /\ TrendLimit \in Nat \ {0}
    /\ Owner \in [Tests -> Users] /\ "none" \in Labels
    /\ MaxReports \in Nat /\ MaxRestarts \in Nat

VARIABLES
    memory,     \* memory[t]: what the TestStore knows of t, or Unknown
    row,        \* row[t]: the row of t in table tests, or NoRow
    saving,     \* the tests the watcher is saving: one or none
    at,         \* at[c]: the query the call c is at
    about, by,  \* about[c], by[c]: the test and the user of c
    minted,     \* share tokens generated so far, and the latest of them
    links,      \* the links handed out: [token, test, user]
    overlapped, \* tokens minted while another call for the test was between its queries
    deleted,    \* tests that were deleted from the history, ...
    gone,       \* ... and not saved again since
    named,      \* named[t]: the label the owner gave t since it is in the history
    settled,    \* tests of which memory has nothing that was not saved
    saves,      \* rows written so far: what the clock says
    restarts

store == <<memory, saving>>
calls == <<at, about, by>>
ghosts == <<overlapped, deleted, gone, named, settled>>
vars == <<store, row, calls, minted, links, ghosts, saves, restarts>>

Unknown == [report |-> 0, done |-> FALSE, known |-> FALSE]
Registered == [Unknown EXCEPT !.known = TRUE]
NoRow == [report |-> 0, label |-> "none", token |-> 0, finished |-> 0]

Saved == {t \in Tests : row[t] # NoRow}

TypeOK ==
    /\ memory \in [Tests -> [report : 0 .. MaxReports, done : BOOLEAN, known : BOOLEAN]]
    /\ row \in [Tests -> [report : 0 .. MaxReports, label : Labels, token : Nat,
                          finished : Nat]]
    /\ saving \subseteq Tests
    /\ at \in [Calls -> {"unused", "look", "mint", "over"}]
    /\ about \in [Calls -> Tests] /\ by \in [Calls -> Users]
    /\ minted \in Nat /\ saves \in Nat
    /\ links \subseteq [token : Nat, test : Tests, user : Users]
    /\ overlapped \subseteq Nat /\ named \in [Tests -> Labels]
    /\ deleted \subseteq Tests /\ gone \subseteq Tests /\ settled \subseteq Tests
    /\ restarts \in 0 .. MaxRestarts
    \* Nothing refers to a token or a time that is yet to come.
    /\ \A t \in Tests : row[t].token <= minted /\ row[t].finished <= saves
    /\ \A l \in links : l.token \in 1 .. minted

Init ==
    /\ memory = [t \in Tests |-> Registered]
    /\ row = [t \in Tests |-> NoRow]
    /\ saving = {}
    /\ at = [c \in Calls |-> "unused"]
    /\ about \in [Calls -> Tests] /\ by \in [Calls -> Users]
    /\ minted = 0 /\ links = {}
    /\ overlapped = {} /\ deleted = {} /\ gone = {} /\ settled = {}
    /\ named = [t \in Tests |-> "none"]
    /\ saves = 0 /\ restarts = 0

-----------------------------------------------------------------------------
(* The results watcher. *)

Latest(m, done) == [m EXCEPT !.report = @ + 1, !.done = done]

\* A snapshot of a sub-job arrives.  The test is saved when it becomes done;
\* it may be taken back by a later run of a sub-job.
Update(t, done) ==
    LET m == memory[t] IN
    /\ saving = {} /\ m.known /\ m.report < MaxReports
    /\ memory' = [memory EXCEPT ![t] = Latest(@, done)]
    /\ saving' = IF done /\ ~m.done THEN {t} ELSE {}
    /\ settled' = settled \ {t}
    /\ UNCHANGED <<row, calls, minted, links, overlapped, deleted, gone, named, saves, restarts>>

\* Mutant of Upserted: the upsert replaces the whole row.
UpsertedAll(old, m) == [NoRow EXCEPT !.report = m.report, !.finished = saves + 1]

\* Mutant of Upserted: ON CONFLICT DO NOTHING.
UpsertedOnce(old, m) ==
    IF old # NoRow THEN old ELSE [old EXCEPT !.report = m.report, !.finished = saves + 1]

\* Mutant of Upserted: a second finish keeps the time of the first.
UpsertedUndated(old, m) ==
    [old EXCEPT !.report = m.report, !.finished = IF @ = 0 THEN saves + 1 ELSE @]

\* ON CONFLICT DO UPDATE names neither the label nor the share token.
Upserted(old, m) == [old EXCEPT !.report = m.report, !.finished = saves + 1]

\* Save returns; the goroutine that notifies the owner, and links the report,
\* is started whether it succeeded or not.
SaveReturns(t) ==
    /\ t \in saving /\ saving' = {}
    /\ \/ /\ row' = [row EXCEPT ![t] = Upserted(@, memory[t])]
          /\ saves' = saves + 1
          /\ settled' = settled \cup {t} /\ gone' = gone \ {t}
       \/ UNCHANGED <<row, saves, settled, gone>>
    /\ \/ UNCHANGED calls
       \/ \E c \in Calls :
            /\ at[c] = "unused" /\ about[c] = t /\ by[c] = Owner[t]
            /\ at' = [at EXCEPT ![c] = "look"]
            /\ UNCHANGED <<about, by>>
    /\ UNCHANGED <<memory, minted, links, overlapped, deleted, named, restarts>>

-----------------------------------------------------------------------------
(* EnsureShareToken, for the owner's request or the webhook's link. *)

\* POST /tests/{id}/share.
Share(c) ==
    /\ at[c] = "unused"
    /\ at' = [at EXCEPT ![c] = "look"]
    /\ UNCHANGED <<store, row, about, by, minted, links, ghosts, saves, restarts>>

HandOut(c, k) == links' = links \cup {[token |-> k, test |-> about[c], user |-> by[c]]}

Visible(t, u) == t \in Saved /\ u = Owner[t]

Existing(t) == row[t].token # 0

\* The first query, which ends the call unless a token is to be made.
Look(c) ==
    LET t == about[c] IN
    /\ at[c] = "look"
    /\ \/ /\ ~Visible(t, by[c])
          /\ at' = [at EXCEPT ![c] = "over"] /\ UNCHANGED links
       \/ /\ Visible(t, by[c]) /\ Existing(t)
          /\ at' = [at EXCEPT ![c] = "over"] /\ HandOut(c, row[t].token)
       \/ /\ Visible(t, by[c]) /\ ~Existing(t)
          /\ at' = [at EXCEPT ![c] = "mint"] /\ UNCHANGED links
    /\ UNCHANGED <<store, row, about, by, minted, ghosts, saves, restarts>>

\* Mutant of Tokened: an upsert.
TokenedAnyway(t, k) == [row EXCEPT ![t].token = k]

\* UPDATE ... WHERE test_id: a test that is gone is no error.
Tokened(t, k) == IF t \in Saved THEN [row EXCEPT ![t].token = k] ELSE row

\* The second one: an UPDATE that asks for nothing but the test's ID, and
\* whose answer may be lost.
Mint(c) ==
    LET t == about[c]
        k == minted + 1 IN
    /\ at[c] = "mint"
    /\ at' = [at EXCEPT ![c] = "over"]
    /\ minted' = k
    /\ row' = Tokened(t, k)
    /\ HandOut(c, k) \/ UNCHANGED links
    /\ overlapped' = IF \E d \in Calls \ {c} : at[d] = "mint" /\ about[d] = t
                     THEN overlapped \cup {k} ELSE overlapped
    /\ UNCHANGED <<store, about, by, deleted, gone, named, settled, saves, restarts>>

\* Either query fails, and the call with it.
ShareError(c) ==
    /\ at[c] \in {"look", "mint"}
    /\ at' = [at EXCEPT ![c] = "over"]
    /\ UNCHANGED <<store, row, about, by, minted, links, ghosts, saves, restarts>>

-----------------------------------------------------------------------------
(* The owner's other requests. *)

SetLabel(t, u, label) ==
    /\ Visible(t, u)
    /\ row' = [row EXCEPT ![t].label = label]
    /\ named' = [named EXCEPT ![t] = label]
    /\ UNCHANGED <<store, calls, minted, links, overlapped, deleted, gone, settled, saves,
                   restarts>>

Delete(t, u) ==
    /\ Visible(t, u)
    /\ row' = [row EXCEPT ![t] = NoRow]
    /\ deleted' = deleted \cup {t} /\ gone' = gone \cup {t} /\ settled' = settled \ {t}
    /\ named' = [named EXCEPT ![t] = "none"]
    /\ UNCHANGED <<store, calls, minted, links, overlapped, saves, restarts>>

\* The coordinator restarts: what was in memory, or under way, is gone.
Restart ==
    /\ restarts < MaxRestarts
    /\ restarts' = restarts + 1
    /\ memory' = [t \in Tests |-> Unknown] /\ saving' = {}
    /\ at' = [c \in Calls |-> IF at[c] = "unused" THEN "unused" ELSE "over"]
    /\ UNCHANGED <<row, about, by, minted, links, ghosts, saves>>

-----------------------------------------------------------------------------
Next ==
    \/ \E t \in Tests, done \in BOOLEAN : Update(t, done)
    \/ \E t \in Tests : SaveReturns(t)
    \/ \E c \in Calls : Share(c) \/ Look(c) \/ Mint(c) \/ ShareError(c)
    \/ \E t \in Tests, u \in Users, label \in Labels : SetLabel(t, u, label)
    \/ \E t \in Tests, u \in Users : Delete(t, u)
    \/ Restart

Spec == Init /\ [][Next]_vars

-----------------------------------------------------------------------------
(* What the owner is shown. *)

\* GET /tests/{id}: the TestStore, which has no labels, is asked first, then
\* Postgres.
Answer(t) ==
    IF memory[t].known
    THEN [report |-> memory[t].report, done |-> memory[t].done, label |-> "none"]
    ELSE [report |-> row[t].report, done |-> t \in Saved, label |-> row[t].label]

\* GET /tests: ORDER BY finished_at DESC LIMIT ListLimit.
Listed(t) ==
    Cardinality({s \in Saved : Owner[s] = Owner[t] /\ row[s].finished > row[t].finished})
        < ListLimit

\* GET /tests/trend: ORDER BY finished_at ASC LIMIT TrendLimit.
SameTarget(t) == {s \in Saved : Owner[s] = Owner[t] /\ Url[s] = Url[t]}
Plotted(t) ==
    Cardinality({s \in SameTarget(t) : row[s].finished < row[t].finished}) < TrendLimit

\* The report GetByShareToken finds.
Alive(l) == l.test \in Saved /\ row[l.test].token = l.token

(***************************************************************************)
(* "The same token on every later call" (history.go:225): a link stops     *)
(* working only if its token was made while another call for the same test *)
(* was between its two queries, as when "share" is clicked twice, or the   *)
(* test was deleted: not by a second Save, a new label, a failed call or a *)
(* restart, and not by a later call (history.go:223-247).                  *)
(***************************************************************************)
LinksDieOnlyByOverlap ==
    \A l \in links : l.token \notin overlapped /\ l.test \notin deleted => Alive(l)

(***************************************************************************)
(* A restart, after which only Postgres has the test, changes one thing of *)
(* what GET /tests/{id} answers about a test whose last report was saved:  *)
(* the answer from memory had no label, the new one has the label its      *)
(* owner gave it last.  A second finish replaces the first report and      *)
(* keeps the label, and no link or failed call disturbs either             *)
(* (handlers.go:399-425, history.go:154-178, 206, teststore.go:271-275).   *)
(***************************************************************************)
FinishedIsDurable ==
    [][restarts' # restarts =>
         \A t \in settled :
             Answer(t)' = [report |-> Answer(t).report, done |-> Answer(t).done,
                           label |-> named[t]]]_vars

(***************************************************************************)
(* A test that was deleted is back in the history only if it finished and  *)
(* was saved again: not by the call for a link that found it before it was *)
(* deleted, nor by a label (history.go:243, 334-350).                      *)
(***************************************************************************)
DeletedStaysGone == gone \cap Saved = {}

(***************************************************************************)
(* A test that has just been saved is among its owner's most recent tests, *)
(* also when it finished for the second time, long after the first         *)
(* (handlers.go:430-432, history.go:164-178, 301-303).                     *)
(***************************************************************************)
LatestIsShown == [][\A t \in saving : saves' # saves => Listed(t)']_vars

(***************************************************************************)
(* The trend of a target tells "has this URL gotten faster or slower       *)
(* across recent tests" (handlers.go:459-460): the test that finished last *)
(* is in it.  The query keeps the oldest TrendLimit tests, and takes no    *)
(* test any more once the target has that many.                            *)
(***************************************************************************)
RecentIsPlotted ==
    \A t \in Saved :
        (\A s \in SameTarget(t) : row[s].finished <= row[t].finished) => Plotted(t)
=============================================================================
