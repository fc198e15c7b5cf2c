----------------------------- MODULE MCRecovery -----------------------------
EXTENDS Recovery

Log(account, asset, block) == [account |-> account, asset |-> asset, block |-> block]

Nothing == [assets |-> 0, builds |-> 0, foreign |-> 0, ccip |-> 0, ens |-> 0, gets |-> 0,
            copies |-> 0, losses |-> 0, faults |-> 0]

TwoAccounts == {Log(1, 1, 1), Log(2, 1, 2), Log(1, 2, 1), Log(2, 1, 4)}

\* Gateways and proofs while epochs of ours and of others succeed each other.
Gateway ==
  [logs |-> TwoAccounts, head |-> 3, upgraded |-> TRUE,
   left |-> [Nothing EXCEPT !.assets = 1, !.builds = 2, !.foreign = 1, !.ccip = 1]]

\* An epoch without stored lists, and a second asset that gives an account a longer one.
Legacy ==
  [logs |-> TwoAccounts, head |-> 3, upgraded |-> FALSE,
   left |-> [Nothing EXCEPT !.assets = 2, !.builds = 1, !.ccip = 1, !.ens = 1]]

\* Filters: two concurrent requests and a committed one.
Filters ==
  [logs |-> TwoAccounts, head |-> 3, upgraded |-> TRUE,
   left |-> [Nothing EXCEPT !.assets = 1, !.builds = 1, !.gets = 3]]

\* Loss and restore, with attempts that stop half-way.
Loss ==
  [logs |-> TwoAccounts, head |-> 3, upgraded |-> TRUE,
   left |-> [Nothing EXCEPT !.assets = 2, !.builds = 1, !.copies = 1, !.losses = 1, !.faults = 1]]

MCScenarios == {Gateway, Legacy, Filters, Loss}
MCFilters == {Filters}

\* A build and the backfill it runs beside.
MCRace == {[Loss EXCEPT !.left = [Nothing EXCEPT !.assets = 1, !.builds = 1]]}
=============================================================================
