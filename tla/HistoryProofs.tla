--------------------------- MODULE HistoryProofs ---------------------------
(***************************************************************************)
(* Share links are stable unless calls overlap, for any number of tests,   *)
(* users and calls: the proof of LinksDieOnlyByOverlap.                    *)
(***************************************************************************)
EXTENDS History, FiniteSetTheorems, TLAPS

Row == [report : 0 .. MaxReports, label : Labels, token : Nat, finished : Nat]

\* The part of the types the argument needs.
Types ==
    /\ row \in [Tests -> Row]
    /\ at \in [Calls -> {"unused", "look", "mint", "over"}]
    /\ about \in [Calls -> Tests] /\ by \in [Calls -> Users]
    /\ links \subseteq [token : Nat \ {0}, test : Tests, user : Users]
    /\ minted \in Nat /\ saves \in Nat

\* A row tells that it is one by its time, whatever else it says.
RowsAreDated == \A t \in Saved : row[t].finished # 0

\* A call that is about to make a token is about a test that is there.
MintsForSaved ==
    \A c \in Calls : at[c] = "mint" /\ about[c] \notin deleted => about[c] \in Saved

\* If there is a token by then, it is one that another call overlapped.
MintsReplaceOverlapped ==
    \A c \in Calls : at[c] = "mint" /\ about[c] \notin deleted /\ row[about[c]].token # 0
                        => row[about[c]].token \in overlapped

\* The inductive invariant.
IInv == Types /\ RowsAreDated /\ MintsForSaved /\ MintsReplaceOverlapped
          /\ LinksDieOnlyByOverlap

-----------------------------------------------------------------------------
\* There are no links, no rows and no calls at first.
LEMMA InitIInv == ASSUME Init, MaxReports \in Nat, "none" \in Labels PROVE IInv
  <1>1. NoRow \in Row BY DEF NoRow, Row
  <1>2. Saved = {} BY DEF Init, Saved
  <1> QED
    BY <1>1, <1>2
    DEF Init, IInv, Types, RowsAreDated, MintsForSaved, MintsReplaceOverlapped,
        LinksDieOnlyByOverlap

\* A Save leaves the token as it was, and a test that was there stays.
LEMMA SavePreserves ==
    ASSUME IInv, MaxReports \in Nat, NEW t \in Tests, SaveReturns(t),
           memory[t].report \in 0 .. MaxReports
    PROVE  IInv'
  <1>1. /\ UNCHANGED <<about, by, minted, links, overlapped, deleted>>
        /\ at' \in [Calls -> {"unused", "look", "mint", "over"}]
        /\ \A c \in Calls : at'[c] = "mint" => at[c] = "mint"
    BY DEF IInv, Types, SaveReturns, calls
  <1>2. CASE UNCHANGED <<row, saves>>
    <2>1. Saved' = Saved BY <1>2 DEF Saved
    <2> QED
      BY <1>1, <1>2, <2>1
      DEF IInv, Types, RowsAreDated, MintsForSaved, MintsReplaceOverlapped,
          LinksDieOnlyByOverlap, Alive
  <1>3. CASE row' = [row EXCEPT ![t] = Upserted(@, memory[t])] /\ saves' = saves + 1
    <2>1. /\ row' \in [Tests -> Row] /\ saves' \in Nat
          /\ row'[t].finished = saves + 1
          /\ row'[t].token = row[t].token
          /\ \A s \in Tests \ {t} : row'[s] = row[s]
      <3> DEFINE new == [row[t] EXCEPT !.report = memory[t].report,
                                       !.finished = saves + 1]
      <3>1. row[t] \in Row /\ saves + 1 \in Nat BY DEF IInv, Types
      <3>2. new \in Row /\ new.finished = saves + 1 /\ new.token = row[t].token
        BY <3>1 DEF Row
      <3>3. row' = [row EXCEPT ![t] = new] BY <1>3 DEF Upserted
      <3> HIDE DEF new
      <3> QED BY <1>3, <3>1, <3>2, <3>3 DEF IInv, Types
    <2>2. row'[t] # NoRow
      BY <2>1 DEF IInv, Types, NoRow
    <2>3. Saved' = Saved \cup {t}
      BY <2>1, <2>2 DEF Saved
    <2>4. \A s \in Tests : row'[s].token = row[s].token
      BY <2>1
    <2>5. RowsAreDated'
      BY <2>1, <2>3 DEF IInv, Types, RowsAreDated, Saved
    <2>6. LinksDieOnlyByOverlap'
      BY <1>1, <2>3, <2>4 DEF IInv, Types, LinksDieOnlyByOverlap, Alive
    <2>7. MintsForSaved' /\ MintsReplaceOverlapped'
      BY <1>1, <2>3, <2>4 DEF IInv, Types, MintsForSaved, MintsReplaceOverlapped
    <2> QED BY <1>1, <2>1, <2>5, <2>6, <2>7 DEF IInv, Types
  <1> QED BY <1>2, <1>3 DEF SaveReturns

\* The first query: a call goes on only for a test that is there without a
\* token, and a token it hands out is the current one.
LEMMA LookPreserves == ASSUME IInv, NEW c \in Calls, Look(c) PROVE IInv'
  <1> DEFINE t == about[c]
  <1>1. /\ UNCHANGED <<row, about, by, minted, overlapped, deleted, saves>>
        /\ at' \in [Calls -> {"unused", "look", "mint", "over"}]
        /\ t \in Tests /\ by[c] \in Users /\ Saved' = Saved
    BY DEF IInv, Types, Look, store, ghosts, Saved
  <1>2. \A d \in Calls : at'[d] = "mint" =>
           at[d] = "mint" \/ (d = c /\ t \in Saved /\ row[t].token = 0)
    BY DEF IInv, Types, Look, Visible, Existing
  <1>3. \A l \in links' : l \in links \/
           (t \in Saved /\ row[t].token # 0
              /\ l = [token |-> row[t].token, test |-> t, user |-> by[c]])
    BY DEF Look, HandOut, Visible, Existing
  <1>4. Types'
    BY <1>1, <1>3 DEF IInv, Types, Row
  <1>5. RowsAreDated' /\ MintsForSaved' /\ MintsReplaceOverlapped'
    BY <1>1, <1>2 DEF IInv, RowsAreDated, MintsForSaved, MintsReplaceOverlapped
  <1>6. LinksDieOnlyByOverlap'
    BY <1>1, <1>3 DEF IInv, LinksDieOnlyByOverlap, Alive
  <1> QED BY <1>4, <1>5, <1>6 DEF IInv

\* The second one: the token it replaces, if any, is one that was overlapped,
\* and its own is overlapped if another call is where it was.
LEMMA MintPreserves == ASSUME IInv, NEW c \in Calls, Mint(c) PROVE IInv'
  <1> DEFINE t == about[c]
             k == minted + 1
  <1>1. /\ at[c] = "mint" /\ minted' = k /\ k \in Nat /\ k # 0
        /\ t \in Tests /\ by[c] \in Users
        /\ UNCHANGED <<about, by, deleted, saves>>
        /\ row' = IF t \in Saved THEN [row EXCEPT ![t].token = k] ELSE row
    BY DEF IInv, Types, Mint, Tokened
  <1>2. /\ at' \in [Calls -> {"unused", "look", "mint", "over"}]
        /\ \A d \in Calls : at'[d] = "mint" => d # c /\ at[d] = "mint"
    BY DEF IInv, Types, Mint
  <1>3. /\ overlapped \subseteq overlapped'
        /\ (\E d \in Calls \ {c} : at[d] = "mint" /\ about[d] = t) => k \in overlapped'
    BY DEF Mint
  <1>4. \A l \in links' : l \in links \/ l = [token |-> k, test |-> t, user |-> by[c]]
    BY DEF Mint, HandOut
  <1>5. /\ row' \in [Tests -> Row]
        /\ \A s \in Tests \ {t} : row'[s] = row[s]
        /\ t \in Saved => row'[t].token = k /\ row'[t].finished = row[t].finished
        /\ t \notin Saved => row'[t] = row[t]
    BY <1>1 DEF IInv, Types, Row
  <1>6. Saved' = Saved
    <2>1. t \in Saved => row'[t] # NoRow BY <1>1, <1>5 DEF NoRow
    <2> QED BY <1>1, <1>5, <2>1 DEF Saved
  <1>7. Types'
    BY <1>1, <1>2, <1>4, <1>5 DEF IInv, Types
  <1>8. RowsAreDated'
    BY <1>5, <1>6 DEF IInv, RowsAreDated, Saved
  <1>9. MintsForSaved'
    BY <1>1, <1>2, <1>6 DEF IInv, MintsForSaved
  <1>10. MintsReplaceOverlapped'
    <2> SUFFICES ASSUME NEW d \in Calls, at'[d] = "mint", about[d] \notin deleted,
                        row'[about[d]].token # 0
                 PROVE  row'[about[d]].token \in overlapped'
      BY <1>1 DEF MintsReplaceOverlapped
    <2>1. d # c /\ at[d] = "mint" /\ about[d] \in Saved /\ about[d] \in Tests
      BY <1>2 DEF IInv, Types, MintsForSaved
    <2>2. CASE about[d] = t
      BY <2>1, <2>2, <1>3, <1>5
    <2>3. CASE about[d] # t
      BY <2>1, <2>3, <1>3, <1>5 DEF IInv, MintsReplaceOverlapped
    <2> QED BY <2>2, <2>3
  <1>11. LinksDieOnlyByOverlap'
    <2> SUFFICES ASSUME NEW l \in links', l.token \notin overlapped', l.test \notin deleted
                 PROVE  Alive(l)'
      BY <1>1 DEF LinksDieOnlyByOverlap
    <2>1. CASE l = [token |-> k, test |-> t, user |-> by[c]]
      <3>1. t \in Saved BY <1>1, <2>1 DEF IInv, MintsForSaved
      <3> QED BY <2>1, <3>1, <1>5, <1>6 DEF Alive
    <2>2. CASE l \in links
      <3>1. l.token \notin overlapped /\ l.test \in Tests /\ Alive(l)
        BY <1>3, <2>2 DEF IInv, Types, LinksDieOnlyByOverlap
      <3>2. CASE l.test # t
        BY <3>1, <3>2, <1>5, <1>6 DEF Alive
      <3>3. CASE l.test = t
        <4>1. row[t].token = l.token BY <3>1, <3>3 DEF Alive
        <4>2. row[t].token = 0
          BY <1>1, <3>1, <3>3, <4>1 DEF IInv, MintsReplaceOverlapped
        <4> QED BY <4>1, <4>2, <2>2 DEF IInv, Types
      <3> QED BY <3>2, <3>3
    <2> QED BY <1>4, <2>1, <2>2
  <1> QED BY <1>7, <1>8, <1>9, <1>10, <1>11 DEF IInv

\* A label changes nothing else in the row.
LEMMA SetLabelPreserves ==
    ASSUME IInv, NEW t \in Tests, NEW u \in Users, NEW b \in Labels, SetLabel(t, u, b)
    PROVE  IInv'
  <1>1. /\ row' \in [Tests -> Row]
        /\ \A s \in Tests : /\ row'[s].token = row[s].token
                            /\ row'[s].finished = row[s].finished
                            /\ s # t => row'[s] = row[s]
    BY DEF SetLabel, IInv, Types, Row
  <1>2. t \in Saved /\ row[t].finished # 0
    BY DEF SetLabel, Visible, IInv, RowsAreDated
  <1>3. row'[t] # NoRow
    BY <1>1, <1>2 DEF NoRow
  <1>4. Saved' = Saved /\ Saved \subseteq Tests
    BY <1>1, <1>2, <1>3 DEF Saved
  <1>5. UNCHANGED <<at, about, by, minted, links, overlapped, deleted, saves>>
    BY DEF SetLabel, calls, ghosts
  <1>6. Types'
    BY <1>1, <1>5 DEF IInv, Types
  <1>7. RowsAreDated'
    BY <1>1, <1>4 DEF IInv, RowsAreDated
  <1>8. MintsForSaved' /\ MintsReplaceOverlapped'
    BY <1>1, <1>4, <1>5 DEF IInv, Types, MintsForSaved, MintsReplaceOverlapped
  <1>9. LinksDieOnlyByOverlap'
    BY <1>1, <1>4, <1>5 DEF IInv, Types, LinksDieOnlyByOverlap, Alive
  <1> QED BY <1>6, <1>7, <1>8, <1>9 DEF IInv

\* The remaining actions disturb one of these at most.
LEMMA OthersPreserve ==
    ASSUME IInv, HistoryAssumption
    PROVE  /\ \A t \in Tests, d \in BOOLEAN : Update(t, d) => IInv'
           /\ \A c \in Calls : Share(c) \/ ShareError(c) => IInv'
           /\ \A t \in Tests, u \in Users, b \in Labels : SetLabel(t, u, b) => IInv'
           /\ \A t \in Tests, u \in Users : Delete(t, u) => IInv'
           /\ Restart => IInv'
           /\ UNCHANGED vars => IInv'
  <1> USE DEF IInv, Types, RowsAreDated, MintsForSaved, MintsReplaceOverlapped,
              LinksDieOnlyByOverlap, Alive, Saved
  <1>1. ASSUME NEW t \in Tests, NEW d \in BOOLEAN, Update(t, d)
        PROVE  IInv'
    BY <1>1 DEF Update, calls, ghosts
  <1>2. ASSUME NEW c \in Calls, Share(c) \/ ShareError(c) PROVE IInv'
    BY <1>2 DEF Share, ShareError, store, ghosts
  <1>3. ASSUME NEW t \in Tests, NEW u \in Users, NEW b \in Labels, SetLabel(t, u, b)
        PROVE  IInv'
    BY <1>3, SetLabelPreserves
  <1>4. ASSUME NEW t \in Tests, NEW u \in Users, Delete(t, u) PROVE IInv'
    <2>1. NoRow \in Row
      BY HistoryAssumption DEF NoRow, Row, HistoryAssumption
    <2>2. /\ row' \in [Tests -> Row]
          /\ \A s \in Tests \ {t} : row'[s] = row[s]
          /\ row'[t] = NoRow /\ deleted' = deleted \cup {t}
          /\ UNCHANGED <<calls, minted, links, overlapped, saves>>
      BY <1>4, <2>1 DEF Delete
    <2>3. Saved' = Saved \ {t}
      BY <2>2
    <2> QED BY <2>2, <2>3 DEF calls
  <1>5. ASSUME Restart PROVE IInv'
    <2>1. /\ at' \in [Calls -> {"unused", "look", "mint", "over"}]
          /\ \A c \in Calls : at'[c] # "mint"
          /\ UNCHANGED <<row, about, by, minted, links, ghosts, saves>>
      BY <1>5 DEF Restart
    <2> QED BY <2>1 DEF ghosts
  <1>6. ASSUME UNCHANGED vars PROVE IInv'
    BY <1>6 DEF vars, calls, ghosts
  <1> QED BY <1>1, <1>2, <1>3, <1>4, <1>5, <1>6

-----------------------------------------------------------------------------
\* What the TestStore knows of a test, for Save to write.
Memory ==
    memory \in [Tests -> [report : 0 .. MaxReports, done : BOOLEAN, known : BOOLEAN]]

\* Memory changes by updates and restarts only.
LEMMA MemoryPreserved == ASSUME Memory, HistoryAssumption, [Next]_vars PROVE Memory'
  <1>1. ASSUME NEW t \in Tests, NEW d \in BOOLEAN, Update(t, d)
        PROVE  Memory'
    <2> DEFINE m == Latest(memory[t], d)
    <2>1. memory[t].report + 1 \in 0 .. MaxReports
      BY <1>1, HistoryAssumption DEF Update, Memory, HistoryAssumption
    <2>3. m \in [report : 0 .. MaxReports, done : BOOLEAN, known : BOOLEAN]
      BY <2>1 DEF Memory, Latest
    <2>4. memory' = [memory EXCEPT ![t] = m]
      BY <1>1 DEF Update
    <2> HIDE DEF m
    <2> QED BY <2>3, <2>4 DEF Memory
  <1>2. ASSUME Restart PROVE Memory'
    <2>1. Unknown \in [report : 0 .. MaxReports, done : BOOLEAN, known : BOOLEAN]
      BY HistoryAssumption DEF HistoryAssumption, Unknown
    <2> QED BY <1>2, <2>1 DEF Restart, Memory
  <1>3. ASSUME UNCHANGED memory PROVE Memory'
    BY <1>3 DEF Memory
  <1> QED
    BY <1>1, <1>2, <1>3
    DEF Next, vars, store, SaveReturns, Share, Look, Mint, ShareError, SetLabel, Delete

\* Every step preserves the invariant.
LEMMA IInvPreserved ==
    ASSUME IInv, Memory, HistoryAssumption, [Next]_vars PROVE IInv'
  <1>1. ASSUME NEW t \in Tests, SaveReturns(t) PROVE IInv'
    <2>1. memory[t].report \in 0 .. MaxReports
      BY DEF Memory
    <2> QED BY <1>1, <2>1, SavePreserves, HistoryAssumption DEF HistoryAssumption
  <1> QED
    BY <1>1, LookPreserves, MintPreserves, OthersPreserve DEF Next

\* The invariant holds in every state of every behaviour.
THEOREM SpecIInv == Spec => [](IInv /\ Memory)
  <1>1. Init => IInv
    BY InitIInv, HistoryAssumption DEF HistoryAssumption
  <1>2. Init => Memory
    <2> SUFFICES ASSUME Init PROVE Memory OBVIOUS
    <2>1. Registered \in [report : 0 .. MaxReports, done : BOOLEAN, known : BOOLEAN]
      <3>1. Unknown \in [report : 0 .. MaxReports, done : BOOLEAN, known : BOOLEAN]
        BY HistoryAssumption DEF HistoryAssumption, Unknown
      <3> QED BY <3>1 DEF Registered
    <2> QED BY <2>1 DEF Init, Memory
  <1>3. (IInv /\ Memory) /\ [Next]_vars => (IInv /\ Memory)'
    BY IInvPreserved, MemoryPreserved, HistoryAssumption
  <1> QED BY <1>1, <1>2, <1>3, PTL DEF Spec

\* A share link dies only if calls overlapped or its test was deleted, in any
\* number of clicks, notifications, saves, failures and restarts.
THEOREM SpecLinksDieOnlyByOverlap == Spec => []LinksDieOnlyByOverlap
  <1>1. IInv /\ Memory => LinksDieOnlyByOverlap BY DEF IInv
  <1> QED BY <1>1, SpecIInv, PTL
-----------------------------------------------------------------------------
\* The types of what the module above does not need, and of the rows.
LEMMA TypePreserved == TypeOK /\ HistoryAssumption /\ [Next]_vars => TypeOK'
  <1> SUFFICES ASSUME TypeOK, HistoryAssumption, [Next]_vars PROVE TypeOK'
    OBVIOUS
  <1>a. /\ MaxReports \in Nat /\ MaxRestarts \in Nat /\ "none" \in Labels
        /\ Owner \in [Tests -> Users]
    BY DEF HistoryAssumption
  <1> USE <1>a DEF TypeOK, store, calls, ghosts
  <1>1. ASSUME NEW t \in Tests, NEW d \in BOOLEAN, Update(t, d) PROVE TypeOK'
    <2>1. memory' \in [Tests -> [report : 0 .. MaxReports, done : BOOLEAN, known : BOOLEAN]]
      BY <1>1, MemoryPreserved DEF Memory
    <2> QED BY <1>1, <2>1 DEF Update
  <1>2. ASSUME NEW t \in Tests, SaveReturns(t) PROVE TypeOK'
    <2>1. /\ row' \in [Tests -> [report : 0 .. MaxReports, label : Labels, token : Nat,
                                 finished : Nat]]
          /\ \A s \in Tests : row'[s].token = row[s].token /\ row'[s].finished <= saves'
          /\ saves' \in Nat
      <3>1. CASE UNCHANGED <<row, saves>>
        BY <3>1
      <3>2. CASE row' = [row EXCEPT ![t] = Upserted(@, memory[t])] /\ saves' = saves + 1
        <4> DEFINE new == Upserted(row[t], memory[t])
        <4>1. /\ new \in [report : 0 .. MaxReports, label : Labels, token : Nat,
                           finished : Nat]
              /\ new.token = row[t].token /\ new.finished = saves + 1
          <5>1. /\ row[t] \in [report : 0 .. MaxReports, label : Labels, token : Nat,
                               finished : Nat]
                /\ memory[t].report \in 0 .. MaxReports /\ saves + 1 \in Nat
            OBVIOUS
          <5> QED BY ONLY <5>1 DEF Upserted
        <4>2. row' = [row EXCEPT ![t] = new]
          BY <3>2
        <4> HIDE DEF new
        <4> QED BY <3>2, <4>1, <4>2
      <3> QED BY <1>2, <3>1, <3>2 DEF SaveReturns
    <2>2. at' \in [Calls -> {"unused", "look", "mint", "over"}]
      BY <1>2 DEF SaveReturns
    <2> QED BY <1>2, <2>1, <2>2 DEF SaveReturns
  <1>3. ASSUME NEW c \in Calls, Share(c) \/ ShareError(c) PROVE TypeOK'
    BY <1>3 DEF Share, ShareError
  <1>4. ASSUME NEW c \in Calls, Look(c) PROVE TypeOK'
    <2>1. links' \subseteq [token : Nat, test : Tests, user : Users]
      BY <1>4 DEF Look, HandOut
    <2>2. \A l \in links' : l.token \in 1 .. minted
      BY <1>4 DEF Look, HandOut, Existing
    <2> QED BY <1>4, <2>1, <2>2 DEF Look
  <1>5. ASSUME NEW c \in Calls, Mint(c) PROVE TypeOK'
    <2>1. /\ row' \in [Tests -> [report : 0 .. MaxReports, label : Labels, token : Nat,
                                 finished : Nat]]
          /\ \A s \in Tests : row'[s].token <= minted + 1 /\ row'[s].finished <= saves
      <3> DEFINE new == [row[about[c]] EXCEPT !.token = minted + 1]
      <3>1. /\ new \in [report : 0 .. MaxReports, label : Labels, token : Nat, finished : Nat]
            /\ new.token = minted + 1 /\ new.finished = row[about[c]].finished
        <4>1. /\ row[about[c]] \in [report : 0 .. MaxReports, label : Labels, token : Nat,
                                    finished : Nat]
              /\ minted + 1 \in Nat
          OBVIOUS
        <4> QED BY ONLY <4>1
      <3>2. row' = row \/ row' = [row EXCEPT ![about[c]] = new]
        BY <1>5 DEF Mint, Tokened
      <3>3. /\ row \in [Tests -> [report : 0 .. MaxReports, label : Labels, token : Nat,
                                 finished : Nat]]
            /\ \A s \in Tests : /\ row[s].token \in Nat /\ row[s].finished \in Nat
                               /\ row[s].token <= minted /\ row[s].finished <= saves
            /\ about[c] \in Tests /\ minted \in Nat /\ saves \in Nat
        OBVIOUS
      <3> HIDE DEF new
      <3>4. row' \in [Tests -> [report : 0 .. MaxReports, label : Labels, token : Nat,
                               finished : Nat]]
        BY ONLY <3>1, <3>2, <3>3
      <3>5. \A s \in Tests : row'[s].token <= minted + 1 /\ row'[s].finished <= saves
        BY ONLY <3>1, <3>2, <3>3
      <3> QED BY <3>4, <3>5
    <2>2. /\ links' \subseteq [token : Nat, test : Tests, user : Users]
          /\ \A l \in links' : l.token \in 1 .. (minted + 1)
      BY <1>5 DEF Mint, HandOut
    <2> QED BY <1>5, <2>1, <2>2 DEF Mint
  <1>6. ASSUME NEW t \in Tests, NEW u \in Users, NEW b \in Labels, SetLabel(t, u, b)
        PROVE  TypeOK'
    <2> DEFINE new == [row[t] EXCEPT !.label = b]
    <2>1. /\ new \in [report : 0 .. MaxReports, label : Labels, token : Nat, finished : Nat]
          /\ new.token = row[t].token /\ new.finished = row[t].finished
      <3>1. row[t] \in [report : 0 .. MaxReports, label : Labels, token : Nat, finished : Nat]
        OBVIOUS
      <3> QED BY ONLY <3>1, b \in Labels
    <2>2. row' = [row EXCEPT ![t] = new]
      BY <1>6 DEF SetLabel
    <2> HIDE DEF new
    <2> QED BY <1>6, <2>1, <2>2 DEF SetLabel
  <1>7. ASSUME NEW t \in Tests, NEW u \in Users, Delete(t, u) PROVE TypeOK'
    BY <1>7 DEF Delete, NoRow
  <1>8. CASE Restart
    BY <1>8 DEF Restart, Unknown
  <1>9. CASE UNCHANGED vars
    BY <1>9 DEF vars
  <1> QED BY <1>1, <1>2, <1>3, <1>4, <1>5, <1>6, <1>7, <1>8, <1>9 DEF Next

\* Rows, calls, tokens and times stay what they are, whatever happens.
THEOREM SpecTypeOK == Spec => []TypeOK
  <1>1. ASSUME Init PROVE TypeOK
    <2>1. /\ Registered \in [report : 0 .. MaxReports, done : BOOLEAN, known : BOOLEAN]
          /\ NoRow \in [report : 0 .. MaxReports, label : Labels, token : Nat,
                        finished : Nat]
          /\ NoRow.token = 0 /\ NoRow.finished = 0
      <3>1. Unknown \in [report : 0 .. MaxReports, done : BOOLEAN, known : BOOLEAN]
        BY HistoryAssumption DEF HistoryAssumption, Unknown
      <3>2. Registered \in [report : 0 .. MaxReports, done : BOOLEAN, known : BOOLEAN]
        BY <3>1 DEF Registered
      <3> QED BY <3>2, HistoryAssumption DEF HistoryAssumption, NoRow
    <2>2. restarts \in 0 .. MaxRestarts
      BY <1>1, HistoryAssumption DEF HistoryAssumption, Init
    <2>3. named \in [Tests -> Labels]
      BY <1>1, HistoryAssumption DEF HistoryAssumption, Init
    <2> QED BY <1>1, <2>1, <2>2, <2>3 DEF Init, TypeOK
  <1> QED BY <1>1, TypePreserved, HistoryAssumption, PTL DEF Spec

-----------------------------------------------------------------------------
\* A test whose last report was saved is as memory, if it has it, says it is.
SettledIsSaved ==
    \A t \in settled : /\ t \in Saved
                       /\ memory[t].known => memory[t].report = row[t].report /\ memory[t].done

\* Only finished tests are saved, one at a time.
SavingIsDone == \A t \in saving : memory[t].done /\ saving = {t}

\* What the owner is shown: inductive next to the types and the dates of rows.
Served == SettledIsSaved /\ SavingIsDone /\ DeletedStaysGone

\* No Save, link or failure touches the label the owner gave a test.
LabelsAreKept == \A t \in Tests : row[t].label = named[t]

LEMMA ServedPreserved ==
    ASSUME Served, TypeOK, RowsAreDated, HistoryAssumption, [Next]_vars
    PROVE  Served'
  <1> USE DEF Served, SettledIsSaved, SavingIsDone, DeletedStaysGone, TypeOK, Saved,
              store, calls, ghosts
  <1>1. ASSUME NEW t \in Tests, NEW d \in BOOLEAN, Update(t, d) PROVE Served'
    BY <1>1 DEF Update, Latest
  <1>2. ASSUME NEW t \in Tests, SaveReturns(t) PROVE Served'
    <2>1. CASE UNCHANGED <<row, settled, gone>>
      BY <1>2, <2>1 DEF SaveReturns
    <2>2. CASE /\ row' = [row EXCEPT ![t] = Upserted(@, memory[t])]
               /\ settled' = settled \cup {t} /\ gone' = gone \ {t}
      <3>1. /\ row'[t].report = memory[t].report /\ row'[t].finished = saves + 1
            /\ \A s \in Tests \ {t} : row'[s] = row[s]
        BY <2>2 DEF Upserted
      <3>2. row'[t] # NoRow
        BY <3>1 DEF NoRow
      <3> QED BY <1>2, <2>2, <3>1, <3>2 DEF SaveReturns
    <2> QED BY <1>2, <2>1, <2>2 DEF SaveReturns
  <1>3. ASSUME NEW c \in Calls, Share(c) \/ Look(c) \/ ShareError(c) PROVE Served'
    BY <1>3 DEF Share, Look, ShareError
  <1>4. ASSUME NEW c \in Calls, Mint(c) PROVE Served'
    <2>1. \A s \in Tests : /\ row'[s].report = row[s].report
                           /\ row'[s].finished = row[s].finished
                           /\ s \notin Saved => row'[s] = row[s]
      BY <1>4 DEF Mint, Tokened
    <2>2. Saved' = Saved
      BY <2>1 DEF RowsAreDated, NoRow
    <2> QED BY <1>4, <2>1, <2>2 DEF Mint
  <1>5. ASSUME NEW t \in Tests, NEW u \in Users, NEW b \in Labels, SetLabel(t, u, b)
        PROVE  Served'
    <2>1. \A s \in Tests : /\ row'[s].report = row[s].report
                           /\ row'[s].finished = row[s].finished
                           /\ s # t => row'[s] = row[s]
      BY <1>5 DEF SetLabel
    <2>2. Saved' = Saved
      BY <1>5, <2>1 DEF SetLabel, Visible, RowsAreDated, NoRow
    <2> QED BY <1>5, <2>1, <2>2 DEF SetLabel
  <1>6. ASSUME NEW t \in Tests, NEW u \in Users, Delete(t, u) PROVE Served'
    BY <1>6 DEF Delete
  <1>7. CASE Restart
    BY <1>7 DEF Restart, Unknown
  <1>8. CASE UNCHANGED vars
    BY <1>8 DEF vars
  <1> QED BY <1>1, <1>2, <1>3, <1>4, <1>5, <1>6, <1>7, <1>8 DEF Next

\* What is shown holds in every state, next to what it rests on.
THEOREM SpecServed == Spec => []Served
  <1>1. Init => Served
    BY DEF Init, Served, SettledIsSaved, SavingIsDone, DeletedStaysGone
  <1>2. IInv => RowsAreDated
    BY DEF IInv
  <1>3. Served /\ TypeOK /\ RowsAreDated /\ [Next]_vars => Served'
    BY ServedPreserved, HistoryAssumption
  <1> QED BY <1>1, <1>2, <1>3, SpecIInv, SpecTypeOK, PTL DEF Spec

LEMMA LabelsStay ==
    ASSUME LabelsAreKept, TypeOK, [Next]_vars PROVE LabelsAreKept'
  <1> USE DEF LabelsAreKept, TypeOK, store, calls, ghosts
  <1>1. ASSUME NEW t \in Tests, SaveReturns(t) PROVE LabelsAreKept'
    <2>1. \A s \in Tests : row'[s].label = row[s].label
      <3>1. row[t] \in [report : 0 .. MaxReports, label : Labels, token : Nat, finished : Nat]
        OBVIOUS
      <3>2. Upserted(row[t], memory[t]).label = row[t].label
        BY ONLY <3>1 DEF Upserted
      <3>3. row' = row \/ row' = [row EXCEPT ![t] = Upserted(@, memory[t])]
        BY <1>1 DEF SaveReturns
      <3> QED BY <3>2, <3>3
    <2> QED BY <1>1, <2>1 DEF SaveReturns
  <1>2. ASSUME NEW c \in Calls, Mint(c) PROVE LabelsAreKept'
    <2>1. \A s \in Tests : row'[s].label = row[s].label
      BY <1>2 DEF Mint, Tokened
    <2> QED BY <1>2, <2>1 DEF Mint
  <1>3. ASSUME NEW t \in Tests, NEW u \in Users, NEW b \in Labels, SetLabel(t, u, b)
        PROVE  LabelsAreKept'
    BY <1>3 DEF SetLabel
  <1>4. ASSUME NEW t \in Tests, NEW u \in Users, Delete(t, u) PROVE LabelsAreKept'
    BY <1>4 DEF Delete, NoRow
  <1>5. CASE UNCHANGED <<row, named>>
    BY <1>5
  <1> QED
    BY <1>1, <1>2, <1>3, <1>4, <1>5
    DEF Next, vars, Update, Share, Look, ShareError, Restart

\* After a restart GET /tests/{id} answers about a saved test what it answered
\* before, however often the test finished, and adds the label its owner gave it
\* last (handlers.go:399-425, history.go:154-178, teststore.go:271-275).
THEOREM SpecFinishedIsDurable == Spec => FinishedIsDurable
  <1>1. Init => LabelsAreKept
    BY DEF Init, LabelsAreKept, NoRow
  <1>2. LabelsAreKept /\ TypeOK /\ [Next]_vars => LabelsAreKept'
    BY LabelsStay
  <1>3. ASSUME Served, TypeOK, LabelsAreKept, [Next]_vars, restarts' # restarts,
               NEW t \in settled
        PROVE  Answer(t)' = [report |-> Answer(t).report, done |-> Answer(t).done,
                             label |-> named[t]]
    <2>1. Restart
      <3>1. restarts \in 0 .. MaxRestarts BY <1>3 DEF TypeOK
      <3> QED
        BY <1>3, <3>1
        DEF Next, vars, store, calls, ghosts, Update, SaveReturns, Share, Look, Mint,
            ShareError, SetLabel, Delete
    <2>2. /\ t \in Tests /\ t \in Saved /\ row' = row
          /\ memory'[t] = Unknown /\ row[t].label = named[t]
          /\ memory[t].known => memory[t].report = row[t].report /\ memory[t].done = TRUE
      BY <1>3, <2>1 DEF Restart, Served, SettledIsSaved, TypeOK, LabelsAreKept
    <2>3. Answer(t)' = [report |-> row[t].report, done |-> TRUE, label |-> named[t]]
      <3>1. memory'[t].known = FALSE /\ (t \in Saved') = TRUE
        BY <2>2 DEF Unknown, Saved
      <3> QED BY <2>2, <3>1 DEF Answer
    <2>4. Answer(t).report = row[t].report /\ Answer(t).done = TRUE
      <3>1. CASE memory[t].known
        BY <2>2, <3>1 DEF Answer
      <3>2. CASE ~memory[t].known
        <4>1. (t \in Saved) = TRUE
          BY <2>2
        <4> QED BY <3>2, <4>1 DEF Answer
      <3> QED BY <3>1, <3>2
    <2> QED BY <2>3, <2>4
  <1>4. Served /\ TypeOK /\ LabelsAreKept /\ [Next]_vars =>
          [restarts' # restarts =>
             \A t \in settled :
                 Answer(t)' = [report |-> Answer(t).report, done |-> Answer(t).done,
                               label |-> named[t]]]_vars
    BY <1>3
  <1> QED
    BY <1>1, <1>2, <1>4, SpecServed, SpecTypeOK, PTL DEF Spec, FinishedIsDurable

\* Only a Save brings a deleted test back (history.go:243).
THEOREM SpecDeletedStaysGone == Spec => []DeletedStaysGone
  <1>1. Served => DeletedStaysGone
    BY DEF Served
  <1> QED BY <1>1, SpecServed, PTL

-----------------------------------------------------------------------------
\* No row is later than the clock, so the list has nothing before a row that is
\* as late as that.
LatestLeads == \A t \in Saved : row[t].finished = saves => Listed(t)

LEMMA LatestIsListed == ASSUME TypeOK, HistoryAssumption PROVE LatestLeads
  <1> SUFFICES ASSUME NEW t \in Saved, row[t].finished = saves PROVE Listed(t)
    BY DEF LatestLeads
  <1> DEFINE newer == {s \in Saved : Owner[s] = Owner[t]
                                   /\ row[s].finished > row[t].finished}
  <1>1. \A s \in Saved : ~(row[s].finished > row[t].finished)
    BY DEF TypeOK, Saved
  <1>2. Cardinality(newer) = 0
    BY <1>1, FS_EmptySet
  <1>3. Listed(t) <=> Cardinality(newer) < ListLimit
    BY DEF Listed
  <1> HIDE DEF newer
  <1> QED BY <1>2, <1>3 DEF HistoryAssumption

\* A test that finished again leads its owner's list again (history.go:164-178,
\* 301-303).
THEOREM SpecLatestIsShown == Spec => LatestIsShown
  <1>1. ASSUME TypeOK, LatestLeads', Served, [Next]_vars, NEW t \in saving, saves' # saves
        PROVE  Listed(t)'
    <2>1. PICK s \in Tests : SaveReturns(s)
      BY <1>1
      DEF Next, vars, store, calls, ghosts, Update, Share, Look, Mint, ShareError, SetLabel,
          Delete, Restart
    <2>2. /\ row' = [row EXCEPT ![t] = Upserted(@, memory[t])] /\ saves' = saves + 1
          /\ t \in Tests
      BY <1>1, <2>1 DEF SaveReturns, TypeOK, Served, SavingIsDone
    <2>3. row'[t].finished = saves' /\ saves' # 0
      <3>1. row'[t] = Upserted(row[t], memory[t])
        BY <1>1, <2>2 DEF TypeOK
      <3>2. row[t] \in [report : 0 .. MaxReports, label : Labels, token : Nat, finished : Nat]
        BY <1>1, <2>2 DEF TypeOK
      <3>3. Upserted(row[t], memory[t]).finished = saves + 1
        BY ONLY <3>2 DEF Upserted
      <3> QED BY <1>1, <2>2, <3>1, <3>3 DEF TypeOK
    <2>4. t \in Saved'
      BY <2>2, <2>3 DEF Saved, NoRow
    <2> QED BY <1>1, <2>3, <2>4 DEF LatestLeads
  <1>2. TypeOK /\ LatestLeads' /\ Served /\ [Next]_vars =>
          [\A t \in saving : saves' # saves => Listed(t)']_vars
    BY <1>1
  <1>3. TypeOK => LatestLeads
    BY LatestIsListed, HistoryAssumption
  <1> QED BY <1>2, <1>3, SpecServed, SpecTypeOK, PTL DEF Spec, LatestIsShown
=============================================================================
