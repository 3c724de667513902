------------------------------ MODULE MCStore ------------------------------
(* Three processes on one database, in the mixtures worth telling apart.  *)
EXTENDS Store, TLC

MCProcs == {"a", "b", "c"}
MCOldRuns == {"older"}
MCOldStarted == [r \in MCOldRuns |-> 1]
NoOldStarted == [r \in {} |-> 1]

Mix(a, b, c) == ("a" :> a) @@ ("b" :> b) @@ ("c" :> c)

\* Two runs; a run among pruning and reading, and among migrating and pruning.
MCWorkloads ==
    {Mix("run", "run", "nothing"), Mix("run", "prune", "view"),
     Mix("run", "migrate", "prune")}

OneRun == {Mix("migrate", "run", "nothing")}

\* The checkout as it was installed, and with its first migration edited.
AsInstalled == [m \in 1..3 |-> "original"]
MCCheckouts == {AsInstalled, [AsInstalled EXCEPT ![1] = "edited"]}
OneCheckout == {AsInstalled}

=============================================================================
