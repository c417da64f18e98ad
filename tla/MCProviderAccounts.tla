------------------------ MODULE MCProviderAccounts ------------------------
(* Instances of InstagramAuthorization and MetaOnboarding for TLC.  They   *)
(* share no state: a behaviour is one of the first or one of the second,   *)
(* and the other stays where it began.                                     *)
EXTENDS InstagramAuthorization, MetaOnboarding

VARIABLE part

all == <<igVars, moVars, part>>

\* Of two accounts it is the one that the store has first that may be unreadable: it
\* is the one that keeps a sweep from the other.  One disturbance meets it: the other
\* token ages, or the unreadable one is deleted, expires or is read again.
OnlyFirstUnreadable == \A a \in Accounts : Unreadable(a) => a = 1 /\ disturbed < Disturbances

\* What is stored at first: a token of the first account, that can be read, or that
\* cannot and is due.
MCInit ==
    /\ IgInit /\ MoInit
    /\ \A a \in Accounts : Stored(a) => cred[a].readable = (cred[a].age = "active")
    /\ OnlyFirstUnreadable /\ \A a \in Accounts : Stored(a) => a = 1
    /\ \/ part = "instagram" /\ graph.pin = [p \in Phones |-> NoPin]
       \/ part = "whatsapp" /\ cred = [a \in Accounts |-> NoCredential]

MCNext ==
    /\ UNCHANGED part
    /\ \/ part = "instagram" /\ IgNext /\ OnlyFirstUnreadable' /\ UNCHANGED moVars
       \/ part = "whatsapp" /\ MoNext /\ UNCHANGED igVars

MCSpec == MCInit /\ [][MCNext]_all /\ IgFairness

\* Every record of both has its form.
TypesOK == IgTypeOK /\ MoTypeOK
=============================================================================
