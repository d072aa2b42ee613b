------------------------------ MODULE Domains ------------------------------
(***************************************************************************)
(* Proof of domain ownership (POST /domains, POST /domains/{domain}/verify,*)
(* coordinator/handlers.go:175-274, domainstore.go, verify.go): a challenge*)
(* that is kept in memory and may be overwritten at any time, a look at    *)
(* what the domain publishes, and a verification that is saved first.      *)
(***************************************************************************)
EXTENDS Naturals

CONSTANTS
    DomainNames, Users,
    Verifies,   \* requests to verify, each made once
    About,      \* About[v]: the domain of request v
    Asker,      \* Asker[v]: the user who makes request v
    MaxTokens,  \* bound: challenges issued
    MaxRestarts \* bound: restarts of the coordinator

ASSUME DomainsAssumption ==
    /\ About \in [Verifies -> DomainNames] /\ Asker \in [Verifies -> Users]
    /\ MaxTokens \in Nat /\ MaxRestarts \in Nat

VARIABLES
    minted,     \* tokens generated so far, and the latest of them
    issuedFor,  \* issuedFor[d]: every token issued for d
    challenges, \* challenges[d]: the outstanding token of d, 0 for none
    published,  \* published[d]: the tokens in d's TXT records or well-known file
    seen,       \* seen[d]: the tokens d has ever published
    at,         \* at[v]: the step of request v, or its outcome
    token,      \* token[v]: the challenge request v read
    verified,   \* the pairs <<domain, user>> in memory
    rows,       \* the same in table verified_domains
    restarts

tokens == <<minted, issuedFor>>
domain == <<published, seen>>
vars == <<tokens, challenges, domain, at, token, verified, rows, restarts>>

TypeOK ==
    /\ minted \in 0 .. MaxTokens
    /\ issuedFor \in [DomainNames -> SUBSET (1 .. MaxTokens)]
    /\ challenges \in [DomainNames -> 0 .. MaxTokens]
    /\ published \in [DomainNames -> SUBSET (1 .. MaxTokens)]
    /\ seen \in [DomainNames -> SUBSET (1 .. MaxTokens)]
    /\ at \in [Verifies -> {"unsent", "lookup", "save", "remember",
                            "refused", "unverified", "failed", "verified"}]
    /\ token \in [Verifies -> 0 .. MaxTokens]
    /\ verified \subseteq DomainNames \X Users /\ rows \subseteq DomainNames \X Users
    /\ restarts \in 0 .. MaxRestarts
    \* A request goes on with a token only.
    /\ \A v \in Verifies : at[v] \in {"lookup", "save", "remember"} => token[v] # 0

Init ==
    /\ minted = 0 /\ issuedFor = [d \in DomainNames |-> {}]
    /\ challenges = [d \in DomainNames |-> 0]
    /\ published = [d \in DomainNames |-> {}] /\ seen = published
    /\ at = [v \in Verifies |-> "unsent"] /\ token = [v \in Verifies |-> 0]
    /\ verified = {} /\ rows = {} /\ restarts = 0

GoTo(v, step) == at' = [at EXCEPT ![v] = step]
Pair(v) == <<About[v], Asker[v]>>

-----------------------------------------------------------------------------
\* POST /domains: a fresh token replaces the outstanding one.
IssueChallenge(d) ==
    /\ minted < MaxTokens
    /\ minted' = minted + 1
    /\ issuedFor' = [issuedFor EXCEPT ![d] = @ \cup {minted'}]
    /\ challenges' = [challenges EXCEPT ![d] = minted']
    /\ UNCHANGED <<domain, at, token, verified, rows, restarts>>

\* Whoever runs the domain publishes a token, right or wrong, or none.
Publish(d, k) ==
    /\ published' = [published EXCEPT ![d] = @ \cup {k}]
    /\ seen' = [seen EXCEPT ![d] = @ \cup {k}]
    /\ UNCHANGED <<tokens, challenges, at, token, verified, rows, restarts>>

Withdraw(d) ==
    /\ published' = [published EXCEPT ![d] = {}]
    /\ UNCHANGED <<tokens, challenges, seen, at, token, verified, rows, restarts>>

-----------------------------------------------------------------------------
Issued(v) == challenges[About[v]] # 0

ReadChallenge(v) ==
    /\ at[v] = "unsent"
    /\ \/ Issued(v) /\ GoTo(v, "lookup") /\ token' = [token EXCEPT ![v] = challenges[About[v]]]
       \/ ~Issued(v) /\ GoTo(v, "refused") /\ UNCHANGED token
    /\ UNCHANGED <<tokens, challenges, domain, verified, rows, restarts>>

\* Mutant of Matches: any token that is published will do.
MatchesAny(v) == published[About[v]] # {}

\* VerifyDomainTXT, VerifyDomainWellKnown.
Matches(v) == token[v] \in published[About[v]]

\* A lookup that fails reads like a record that is not there.
LookUp(v) ==
    /\ at[v] = "lookup"
    /\ \/ Matches(v) /\ GoTo(v, "save")
       \/ GoTo(v, "unverified")
    /\ UNCHANGED <<tokens, challenges, domain, token, verified, rows, restarts>>

\* Mutant of Kept: the verification is kept in memory only.
KeptInMemory(v) == rows

Kept(v) == rows \cup {Pair(v)}

\* MarkVerified: first the row, which an error may have written or not ...
SaveVerified(v) ==
    /\ at[v] = "save"
    /\ \/ GoTo(v, "remember") /\ rows' = Kept(v)
       \/ GoTo(v, "failed") /\ rows' \in {rows, Kept(v)}
    /\ UNCHANGED <<tokens, challenges, domain, token, verified, restarts>>

\* ... then memory, and the answer.
Remember(v) ==
    /\ at[v] = "remember"
    /\ GoTo(v, "verified")
    /\ verified' = verified \cup {Pair(v)}
    /\ UNCHANGED <<tokens, challenges, domain, token, rows, restarts>>

Loaded == rows

\* A restart forgets challenges and requests under way, and loads the rest.
Restart ==
    /\ restarts < MaxRestarts
    /\ restarts' = restarts + 1
    /\ challenges' = [d \in DomainNames |-> 0]
    /\ at' = [v \in Verifies |->
                IF at[v] \in {"lookup", "save", "remember"} THEN "failed" ELSE at[v]]
    /\ verified' = Loaded
    /\ UNCHANGED <<tokens, domain, token, rows>>

Next ==
    \/ \E d \in DomainNames : IssueChallenge(d) \/ Withdraw(d)
    \/ \E d \in DomainNames, k \in 1 .. minted : Publish(d, k)
    \/ \E v \in Verifies : ReadChallenge(v) \/ LookUp(v) \/ SaveVerified(v) \/ Remember(v)
    \/ Restart

Spec == Init /\ [][Next]_vars

-----------------------------------------------------------------------------
(***************************************************************************)
(* "A failure never leaves memory claiming a verification that won't       *)
(* survive a restart" (domainstore.go:83-85), and a verification that was  *)
(* answered is known as long as the coordinator is used.                   *)
(***************************************************************************)
AnsweredIsKept ==
    /\ verified \subseteq rows
    /\ \A v \in Verifies : at[v] = "verified" => Pair(v) \in verified

(***************************************************************************)
(* Nobody is recorded for a domain without a request of their own that saw *)
(* the domain publish a token issued for this very domain, although the    *)
(* challenge may have been replaced, or the record withdrawn, by the time  *)
(* the verification is saved (handlers.go:236-270).                        *)
(***************************************************************************)
VerifiedByProof ==
    \A pair \in rows : \E v \in Verifies :
        Pair(v) = pair /\ token[v] \in issuedFor[About[v]] \cap seen[About[v]]
=============================================================================
