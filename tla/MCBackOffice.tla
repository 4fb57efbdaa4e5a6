---------------------------- MODULE MCBackOffice ----------------------------
(***************************************************************************)
(* Instances for TLC of kits with their campaigns, of the reports and of   *)
(* the accounts.  A behaviour is about one of the three, its part.         *)
(***************************************************************************)
EXTENDS KitSync, ReportJobs, Accounts, TLC

VARIABLE part

partVars == <<kitVars, jobVars, accountVars, part>>

MCCost == [p \in KitProducts |-> 1]
MCKindOf == <<"DISPATCHED", "DELIVERED">>
MCTribeOf == <<"t1", "t2">>

\* No account at all, while the behaviour is about another part.
NoAccounts ==
    /\ login = [u \in Logins |-> NoLogin] /\ tribe = [u \in Logins |-> NoTribe]
    /\ visit = [v \in Visits |-> NoVisit] /\ saved = [u \in Logins |-> {}]
    /\ sessions = {} /\ halved = {} /\ visitsDied = 0 /\ atOnce = 1

\* The replicas, new logins and usernames share the values of the campaigns,
\* the addresses and names those of the products.
Symmetry == Permutations(KitProducts) \cup Permutations(Campaigns)

Init ==
    /\ part \in {"kits", "jobs", "accounts"}
    /\ KitInit /\ JobsInit
    /\ part # "jobs" => schedule = (CHOOSE j \in Schedules : TRUE)
    /\ IF part = "accounts" THEN AccountsInit ELSE NoAccounts

Next ==
    /\ UNCHANGED part
    /\ \/ part = "kits" /\ KitNext /\ UNCHANGED <<jobVars, accountVars>>
       \/ part = "jobs" /\ JobsNext /\ UNCHANGED <<kitVars, accountVars>>
       \/ part = "accounts" /\ AccountsNext /\ UNCHANGED <<kitVars, jobVars>>

Spec == Init /\ [][Next]_partVars

-----------------------------------------------------------------------------
\* The variables of the three parts keep their types.
BackOfficeTypeOK == KitTypeOK /\ JobsTypeOK /\ AccountsTypeOK
=============================================================================
