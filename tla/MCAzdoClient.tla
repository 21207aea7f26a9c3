---------------------------- MODULE MCAzdoClient ----------------------------
(***************************************************************************)
(* Values for the constants of AzdoClient.  A tick is half a second.       *)
(***************************************************************************)
EXTENDS AzdoClient

\* No usable header, a negative wait, and one longer than the deadline.
RetryAfters == {0, -1, 120}

\* What Reconcile, and deleteExternalAzDOResources for one agent, call with one client.
AllPlans ==
  {<<"GetQueueLength", "GetQueueLength">>, <<"GetPoolIDByName", "GetAgentsInPool">>,
   <<"DisableAgent", "DeleteAgent">>}

\* Waits of half as much again as 1, 2 and 4 s: 3, 9 and 21 ticks before the attempts
\* that follow.
LongestWaits == [n \in 0 .. MaxRetries |-> 3 * (2^n - 1)]

\* With these numbers the theorem on TimeToReport applies: 20 + 2 * 9 + 21 < 60.
ASSUME DelaysAssumption == WaitsFit(LongestWaits, 2)
=============================================================================
