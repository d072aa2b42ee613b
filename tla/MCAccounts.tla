----------------------------- MODULE MCAccounts -----------------------------
(* Instances of Accounts for TLC. *)
EXTENDS Accounts, TLC

\* One user, two logins of which the second may come twice, and two settings.
MCUser == [c \in Callbacks |-> "ann"]
MCState == [c \in Callbacks |-> IF c = "c1" THEN "s1" ELSE "s2"]
MCNotified == [n \in Notices |-> "ann"]
MCPutter == [p \in Puts |-> "ann"]
MCUrl == [p \in Puts |-> IF p = "p1" THEN "slack" ELSE "discord"]
=============================================================================
