--------------------------- MODULE DomainsProofs ---------------------------
(***************************************************************************)
(* Theorems about Domains for any domains, users and requests, and any     *)
(* number of challenges and restarts.  The inductive invariant follows a   *)
(* proof from the challenge a request read to the row it is recorded in.   *)
(***************************************************************************)
EXTENDS Domains, TLAPS

\* A challenge that is outstanding was issued for its domain.
ChallengesAreIssued ==
    \A d \in DomainNames : challenges[d] # 0 => challenges[d] \in issuedFor[d]

\* What a domain publishes now, it has published.
PublishedIsSeen == \A d \in DomainNames : published[d] \subseteq seen[d]

\* A request works with a token issued for its domain.
TokensAreIssued ==
    \A v \in Verifies : token[v] # 0 => token[v] \in issuedFor[About[v]]

\* A request that was not made yet has none.
UnsentHasNone == \A v \in Verifies : at[v] = "unsent" => token[v] = 0

\* A request that goes on to save has seen its token published.
SaversSawProof ==
    \A v \in Verifies :
        at[v] \in {"save", "remember"} => token[v] # 0 /\ token[v] \in seen[About[v]]

\* A request remembers only what its row says.
RememberedIsSaved == \A v \in Verifies : at[v] = "remember" => Pair(v) \in rows

IInv ==
    /\ TypeOK
    /\ ChallengesAreIssued /\ PublishedIsSeen /\ TokensAreIssued /\ UnsentHasNone
    /\ SaversSawProof /\ RememberedIsSaved
    /\ AnsweredIsKept /\ VerifiedByProof

-----------------------------------------------------------------------------
\* Before any challenge is issued nobody is verified and nothing is owed.
THEOREM InitIInv == Init => IInv
<1> SUFFICES ASSUME Init PROVE IInv
  OBVIOUS
<1> USE DomainsAssumption
<1>1. TypeOK
  BY SMT DEF Init, TypeOK
<1>2. ChallengesAreIssued /\ PublishedIsSeen /\ TokensAreIssued /\ SaversSawProof
  BY SMT DEF Init, ChallengesAreIssued, PublishedIsSeen, TokensAreIssued, SaversSawProof
<1>3. UnsentHasNone /\ RememberedIsSaved /\ AnsweredIsKept /\ VerifiedByProof
  BY SMT DEF Init, UnsentHasNone, RememberedIsSaved, AnsweredIsKept, VerifiedByProof
<1> QED
  BY <1>1, <1>2, <1>3 DEF IInv

\* Every action keeps every variable in its type.
LEMMA TypePreserved == TypeOK /\ [Next]_vars => TypeOK'
<1> SUFFICES ASSUME TypeOK, [Next]_vars PROVE TypeOK'
  OBVIOUS
<1> USE DomainsAssumption DEF TypeOK, tokens, domain, GoTo, Pair
<1>1. ASSUME NEW d \in DomainNames, IssueChallenge(d) PROVE TypeOK'
  BY <1>1, SMT DEF IssueChallenge
<1>2. ASSUME NEW d \in DomainNames, Withdraw(d) PROVE TypeOK'
  BY <1>2, SMT DEF Withdraw
<1>3. ASSUME NEW d \in DomainNames, NEW k \in 1 .. minted, Publish(d, k) PROVE TypeOK'
  <2>1. k \in 1 .. MaxTokens
    BY SMT
  <2> QED
    BY <1>3, <2>1, SMT DEF Publish
<1>4. ASSUME NEW v \in Verifies, ReadChallenge(v) PROVE TypeOK'
  BY <1>4, SMT DEF ReadChallenge, Issued
<1>5. ASSUME NEW v \in Verifies, LookUp(v) PROVE TypeOK'
  BY <1>5, SMT DEF LookUp
<1>6. ASSUME NEW v \in Verifies, SaveVerified(v) PROVE TypeOK'
  <2>1. Kept(v) \subseteq DomainNames \X Users
    BY DEF Kept
  <2> QED
    BY <1>6, <2>1, SMT DEF SaveVerified
<1>7. ASSUME NEW v \in Verifies, Remember(v) PROVE TypeOK'
  BY <1>7, SMT DEF Remember
<1>8. CASE Restart
  BY <1>8, SMT DEF Restart, Loaded
<1>9. CASE UNCHANGED vars
  BY <1>9, SMT DEF vars
<1> QED
  BY <1>1, <1>2, <1>3, <1>4, <1>5, <1>6, <1>7, <1>8, <1>9 DEF Next

\* Challenges and what is published keep their histories.
LEMMA ChallengesPreserved ==
    ASSUME IInv, [Next]_vars PROVE ChallengesAreIssued' /\ PublishedIsSeen'
<1> USE DEF IInv, TypeOK, ChallengesAreIssued, PublishedIsSeen, tokens, domain
<1>1. ASSUME NEW d \in DomainNames, IssueChallenge(d)
      PROVE  ChallengesAreIssued' /\ PublishedIsSeen'
  BY <1>1, SMT DEF IssueChallenge
<1>2. ASSUME NEW d \in DomainNames, Withdraw(d)
      PROVE  ChallengesAreIssued' /\ PublishedIsSeen'
  BY <1>2, SMT DEF Withdraw
<1>3. ASSUME NEW d \in DomainNames, NEW k \in 1 .. minted, Publish(d, k)
      PROVE  ChallengesAreIssued' /\ PublishedIsSeen'
  BY <1>3, SMT DEF Publish
<1>4. ASSUME NEW v \in Verifies,
             ReadChallenge(v) \/ LookUp(v) \/ SaveVerified(v) \/ Remember(v)
      PROVE  ChallengesAreIssued' /\ PublishedIsSeen'
  BY <1>4, SMT DEF ReadChallenge, LookUp, SaveVerified, Remember
<1>5. CASE Restart
  BY <1>5, SMT DEF Restart
<1>6. CASE UNCHANGED vars
  BY <1>6, SMT DEF vars
<1> QED
  BY <1>1, <1>2, <1>3, <1>4, <1>5, <1>6 DEF Next

\* Tokens once issued or published for a domain remain so.
LEMMA HistoriesGrow ==
    ASSUME TypeOK, [Next]_vars, NEW d \in DomainNames
    PROVE  issuedFor[d] \subseteq issuedFor'[d] /\ seen[d] \subseteq seen'[d]
<1> USE DEF TypeOK, tokens, domain
<1>1. ASSUME NEW e \in DomainNames, IssueChallenge(e)
      PROVE  issuedFor[d] \subseteq issuedFor'[d] /\ seen[d] \subseteq seen'[d]
  BY <1>1, SMT DEF IssueChallenge
<1>2. ASSUME NEW e \in DomainNames, Withdraw(e)
      PROVE  issuedFor[d] \subseteq issuedFor'[d] /\ seen[d] \subseteq seen'[d]
  BY <1>2, SMT DEF Withdraw
<1>3. ASSUME NEW e \in DomainNames, NEW k \in 1 .. minted, Publish(e, k)
      PROVE  issuedFor[d] \subseteq issuedFor'[d] /\ seen[d] \subseteq seen'[d]
  BY <1>3, SMT DEF Publish
<1>4. ASSUME NEW v \in Verifies,
             ReadChallenge(v) \/ LookUp(v) \/ SaveVerified(v) \/ Remember(v)
      PROVE  issuedFor[d] \subseteq issuedFor'[d] /\ seen[d] \subseteq seen'[d]
  BY <1>4, SMT DEF ReadChallenge, LookUp, SaveVerified, Remember
<1>5. CASE Restart
  BY <1>5, SMT DEF Restart
<1>6. CASE UNCHANGED vars
  BY <1>6, SMT DEF vars
<1> QED
  BY <1>1, <1>2, <1>3, <1>4, <1>5, <1>6 DEF Next

\* A request keeps its token, which it read as the one issued for its domain,
\* and saves only after it has seen it.
LEMMA TokensPreserved ==
    ASSUME IInv, [Next]_vars PROVE TokensAreIssued' /\ SaversSawProof'
<1> DEFINE Good(u) == /\ token'[u] # 0 => token'[u] \in issuedFor'[About[u]]
                      /\ at'[u] \in {"save", "remember"} =>
                            token'[u] # 0 /\ token'[u] \in seen'[About[u]]
<1> SUFFICES ASSUME NEW u \in Verifies PROVE Good(u)
  BY DEF TokensAreIssued, SaversSawProof
<1>1. About[u] \in DomainNames
  BY DomainsAssumption
<1>2. /\ issuedFor[About[u]] \subseteq issuedFor'[About[u]]
      /\ seen[About[u]] \subseteq seen'[About[u]]
  BY <1>1, HistoriesGrow DEF IInv
<1>3. CASE token'[u] = token[u] /\ (at'[u] = at[u] \/ at'[u] \notin {"save", "remember"})
  BY <1>2, <1>3, SMT DEF IInv, TokensAreIssued, SaversSawProof
<1> USE DEF IInv, TypeOK, TokensAreIssued, SaversSawProof, tokens, domain, GoTo
<1>4. ASSUME NEW d \in DomainNames, IssueChallenge(d) PROVE Good(u)
  BY <1>3, <1>4 DEF IssueChallenge
<1>5. ASSUME NEW d \in DomainNames, Withdraw(d) PROVE Good(u)
  BY <1>3, <1>5 DEF Withdraw
<1>6. ASSUME NEW d \in DomainNames, NEW k \in 1 .. minted, Publish(d, k) PROVE Good(u)
  BY <1>3, <1>6 DEF Publish
<1>7. ASSUME NEW v \in Verifies, ReadChallenge(v) PROVE Good(u)
  <2>1. CASE u = v /\ Issued(v)
    BY <1>1, <1>7, <2>1, SMT DEF ReadChallenge, Issued, ChallengesAreIssued
  <2>2. CASE u # v \/ ~Issued(v)
    BY <1>3, <1>7, <2>2, SMT DEF ReadChallenge
  <2> QED
    BY <2>1, <2>2
<1>8. ASSUME NEW v \in Verifies, LookUp(v) PROVE Good(u)
  <2>1. CASE u = v /\ Matches(v)
    BY <1>1, <1>8, <2>1, SMT DEF LookUp, Matches, PublishedIsSeen
  <2>2. CASE u # v \/ ~Matches(v)
    BY <1>3, <1>8, <2>2, SMT DEF LookUp
  <2> QED
    BY <2>1, <2>2
<1>9. ASSUME NEW v \in Verifies, SaveVerified(v) PROVE Good(u)
  BY <1>2, <1>9, SMT DEF SaveVerified
<1>10. ASSUME NEW v \in Verifies, Remember(v) PROVE Good(u)
  BY <1>3, <1>10, SMT DEF Remember
<1>11. CASE Restart
  BY <1>3, <1>11, SMT DEF Restart
<1>12. CASE UNCHANGED vars
  BY <1>3, <1>12 DEF vars
<1> HIDE DEF Good
<1> QED
  BY <1>4, <1>5, <1>6, <1>7, <1>8, <1>9, <1>10, <1>11, <1>12 DEF Next

\* Memory follows the rows, and an answer follows memory.
LEMMA RowsPreserved ==
    ASSUME IInv, [Next]_vars PROVE RememberedIsSaved' /\ AnsweredIsKept'
<1> USE DEF IInv, TypeOK, RememberedIsSaved, AnsweredIsKept, tokens, domain, GoTo, Pair
<1>1. ASSUME NEW d \in DomainNames,
             IssueChallenge(d) \/ Withdraw(d) \/ (\E k \in 1 .. minted : Publish(d, k))
      PROVE  RememberedIsSaved' /\ AnsweredIsKept'
  BY <1>1 DEF IssueChallenge, Withdraw, Publish
<1>2. ASSUME NEW v \in Verifies, ReadChallenge(v) \/ LookUp(v)
      PROVE  RememberedIsSaved' /\ AnsweredIsKept'
  <2>1. rows' = rows /\ verified' = verified
    BY <1>2 DEF ReadChallenge, LookUp
  <2>2. at'[v] \notin {"remember", "verified"} /\ \A u \in Verifies \ {v} : at'[u] = at[u]
    BY <1>2, SMT DEF ReadChallenge, LookUp
  <2> QED
    BY <2>1, <2>2
<1>3. ASSUME NEW v \in Verifies, SaveVerified(v) PROVE RememberedIsSaved' /\ AnsweredIsKept'
  <2>1. rows \subseteq rows' /\ verified' = verified
    BY <1>3 DEF SaveVerified, Kept
  <2>2. at'[v] = "remember" => Pair(v) \in rows'
    BY <1>3, SMT DEF SaveVerified, Kept
  <2>3. at'[v] # "verified" /\ \A u \in Verifies \ {v} : at'[u] = at[u]
    BY <1>3, SMT DEF SaveVerified
  <2> QED
    BY <2>1, <2>2, <2>3
<1>4. ASSUME NEW v \in Verifies, Remember(v) PROVE RememberedIsSaved' /\ AnsweredIsKept'
  BY <1>4, SMT DEF Remember
<1>5. CASE Restart
  BY <1>5, SMT DEF Restart, Loaded
<1>6. CASE UNCHANGED vars
  BY <1>6 DEF vars
<1> QED
  BY <1>1, <1>2, <1>3, <1>4, <1>5, <1>6 DEF Next

\* A token once read is never exchanged for another one.
LEMMA TokensStay ==
    ASSUME IInv, [Next]_vars
    PROVE  UnsentHasNone' /\ \A v \in Verifies : token[v] # 0 => token'[v] = token[v]
BY SMT DEF Next, vars, tokens, domain, GoTo, IssueChallenge, Withdraw, Publish, ReadChallenge,
           LookUp, SaveVerified, Remember, Restart, IInv, TypeOK, UnsentHasNone

\* A row keeps the request that proves it, and a new one has its own.
LEMMA ProofsPreserved == ASSUME IInv, [Next]_vars PROVE VerifiedByProof'
<1> DEFINE Proves(v, pair) ==
      Pair(v) = pair /\ token[v] \in issuedFor[About[v]] \cap seen[About[v]]
<1>1. ASSUME NEW pair, NEW v \in Verifies, Proves(v, pair) PROVE Proves(v, pair)'
  <2>1. About[v] \in DomainNames
    BY DomainsAssumption
  <2>2. token[v] # 0
    BY <1>1, <2>1, SMT DEF IInv, TypeOK
  <2>3. token'[v] = token[v]
    BY <2>2, TokensStay
  <2> QED
    BY <1>1, <2>1, <2>3, HistoriesGrow DEF IInv, Pair
<1>2. ASSUME NEW pair \in rows PROVE \E v \in Verifies : Proves(v, pair)
  BY <1>2 DEF IInv, VerifiedByProof
<1>3. ASSUME NEW v \in Verifies, SaveVerified(v) PROVE Proves(v, Pair(v))
  BY <1>3, SMT DEF IInv, SaveVerified, SaversSawProof, TokensAreIssued
<1>4. rows' = rows \/ \E v \in Verifies : SaveVerified(v) /\ rows' \subseteq rows \cup {Pair(v)}
  BY DEF Next, vars, tokens, domain, IssueChallenge, Withdraw, Publish, ReadChallenge, LookUp,
         SaveVerified, Kept, Remember, Restart
<1>5. ASSUME NEW pair \in rows' PROVE \E v \in Verifies : Proves(v, pair)
  BY <1>2, <1>3, <1>4, <1>5
<1>6. ASSUME NEW pair \in rows' PROVE \E v \in Verifies : Proves(v, pair)'
  BY <1>1, <1>5, <1>6
<1> QED
  BY <1>6 DEF VerifiedByProof

\* Every step keeps the inductive invariant.
THEOREM IInvPreserved == IInv /\ [Next]_vars => IInv'
BY TypePreserved, ChallengesPreserved, TokensPreserved, TokensStay, RowsPreserved,
   ProofsPreserved DEF IInv

\* The inductive invariant holds in every reachable state.
THEOREM SpecIInv == Spec => []IInv
BY InitIInv, IInvPreserved, PTL DEF Spec

\* Requests, challenges, proofs and rows keep their types.
THEOREM SpecTypeOK == Spec => []TypeOK
<1>1. IInv => TypeOK
  BY DEF IInv
<1> QED
  BY <1>1, SpecIInv, PTL

(***************************************************************************)
(* A verification that was answered is known as long as the coordinator is *)
(* used, through any restarts, and memory never claims more than the rows  *)
(* (domainstore.go:82-101).                                                *)
(***************************************************************************)
THEOREM SpecAnsweredIsKept == Spec => []AnsweredIsKept
<1>1. IInv => AnsweredIsKept
  BY DEF IInv
<1> QED
  BY <1>1, SpecIInv, PTL

(***************************************************************************)
(* Nobody is recorded for a domain without a request of their own that saw *)
(* the domain publish a token issued for it, whatever replaced the         *)
(* challenge meanwhile (handlers.go:236-270).                              *)
(***************************************************************************)
THEOREM SpecVerifiedByProof == Spec => []VerifiedByProof
<1>1. IInv => VerifiedByProof
  BY DEF IInv
<1> QED
  BY <1>1, SpecIInv, PTL
=============================================================================
