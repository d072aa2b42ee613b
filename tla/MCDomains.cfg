SPECIFICATION Spec
CONSTANTS
  DomainNames = {"a.example", "b.example"}
  Users = {"ann", "bob"}
  Verifies = {1, 2, 3}
  About <- MCAbout
  Asker <- MCAsker
  MaxTokens = 2
  MaxRestarts = 1
INVARIANTS AnsweredIsKept VerifiedByProof
CHECK_DEADLOCK FALSE
