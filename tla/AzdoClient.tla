----------------------------- MODULE AzdoClient -----------------------------
(***************************************************************************)
(* The Azure DevOps client of one reconcile: its methods, the requests     *)
(* they send, doRequestWithBackoff around most of them, the cache of pool  *)
(* ids, and the deadline that all calls of a reconcile share.              *)
(*                                                                         *)
(*  - now: the time since the reconcile began, in ticks.                   *)
(*  - plan: the methods still to be called; a reconcile stops at the first *)
(*    that fails.  results: how the others ended.                          *)
(*  - req, pc, attempt, until: the current request and where it stands:    *)
(*    "ready" (none is under way), "send" (to be sent), "wait" (for an     *)
(*    answer, until the time-out) or "sleep" (until the next attempt).     *)
(*  - reply: the answer that has arrived for the current attempt.          *)
(*  - flight: the attempts that the server has not dealt with yet.  A      *)
(*    change that the client has given up stays there; a read is dropped.  *)
(*  - gone, poolID: the server: whether the agent of the last changing     *)
(*    call is deleted (for DisableAgent: disabled), and the id that the    *)
(*    pool's name stands for.  cached: the id the client has remembered.   *)
(*  - waited, asked: history, for TimeToReport: how long the reconcile has *)
(*    taken before the client was made, and the client has waited for      *)
(*    answers (counted up to a time-out and a tick); and whether the       *)
(*    server has asked for a wait of its own.                              *)
(***************************************************************************)
EXTENDS Integers, Sequences

CONSTANTS
  Deadline,        \* of the reconcile (30 s)
  RequestTimeout,  \* of the http.Client (10 s)
  BaseDelay,       \* defaultRetryBaseDelay (1 s)
  MaxRetries,      \* defaultMaxRetries (3)
  RetryAfter,      \* the waits that a 429 answer may ask for
  Starts,          \* bound: when, in its reconcile, the client may be made
  Plans,           \* the sequences of methods that a reconcile calls
  PoolIDs          \* bound: the ids that the pool's name may come to stand for

NoID == 0

Methods == {"GetPoolIDByName", "GetQueueLength", "GetAgentsInPool", "DisableAgent", "DeleteAgent"}
Requests == {"pool", "jobs", "agents", "disable", "delete"}

\* The answers that a method tells apart: success (204 to DeleteAgent too), 429, and
\* for all others 500.
Codes == {200, 429, 500}

\* The requests, and the methods, that change something on the server.
Changes == {"disable", "delete"}
Changing(method) == method \in {"DisableAgent", "DeleteAgent"}

ASSUME TimesAssumption ==
  /\ Deadline \in Nat /\ RequestTimeout \in Nat /\ BaseDelay \in Nat
  /\ MaxRetries \in Nat \ {0} /\ RetryAfter \subseteq Int
  /\ Starts \subseteq 0 .. Deadline
\* GetPoolIDByName is modelled without its cache, and so comes only first; and the
\* cleanup and the handler of pods list the agents before they change any.
ASSUME PlansAssumption ==
  \A p \in Plans :
    /\ p \in Seq(Methods)
    /\ \A i \in 2 .. Len(p) : p[i] # "GetPoolIDByName"
    /\ \A i \in 1 .. Len(p) - 1 : Changing(p[i]) => Changing(p[i + 1])
ASSUME PoolsAssumption == PoolIDs \subseteq Nat \ {NoID}

VARIABLES now, plan, results, req, pc, attempt, until, reply, flight, gone, poolID,
          cached, waited, asked

call == <<plan, results, req, attempt>>
server == <<gone, poolID>>
history == <<waited, asked>>
vars == <<now, call, pc, until, reply, flight, server, cached, history>>

NoReply == [code |-> 0, pool |-> NoID, after |-> 0]

\* The client is made after ValidateSecrets and updateStatus(Processing), which the
\* deadline covers too.
Init ==
  /\ now \in Starts /\ plan \in Plans /\ results = <<>>
  /\ req = "pool" /\ pc = "ready" /\ attempt = 0 /\ until = 0
  /\ reply = NoReply /\ flight = {}
  /\ gone = FALSE /\ poolID \in PoolIDs /\ cached = NoID
  /\ waited = now /\ asked = FALSE

-----------------------------------------------------------------------------
(* The methods. *)

\* DisableAgent and GetAgentsInPool send one request of their own; the others go
\* through doRequestWithBackoff.
WithBackoff(r) == r \in {"pool", "jobs", "delete"}

\* A request for every kind of call; GetQueueLength may skip the pool's.
RequestOf(method) ==
  CASE method \in {"GetPoolIDByName", "GetQueueLength"} -> "pool"
    [] method = "GetAgentsInPool" -> "agents"
    [] method = "DisableAgent" -> "disable"
    [] method = "DeleteAgent" -> "delete"

\* Mutant: the id of the pool is never remembered.
AlwaysLooksUp(method) == RequestOf(method)

\* The id of the pool is looked up unless it is remembered.  (It is remembered for
\* five minutes, and the client lives for one reconcile.)
FirstRequest(method) ==
  IF method = "GetQueueLength" /\ cached # NoID THEN "jobs" ELSE RequestOf(method)

\* A changing call has a new agent, or a new thing to do to the last one.  (Attempts of
\* the calls before, which have succeeded, make no difference any more.)
Call ==
  /\ pc = "ready" /\ plan # <<>>
  /\ req' = FirstRequest(Head(plan)) /\ pc' = "send" /\ attempt' = 0 /\ flight' = {}
  /\ gone' = IF req' \in Changes THEN FALSE ELSE gone
  /\ UNCHANGED <<now, plan, results, until, reply, poolID, cached, history>>

\* The method returns; after an error the reconcile calls no other one.
Return(result) ==
  /\ results' = Append(results, [method |-> Head(plan), result |-> result, pool |-> reply.pool])
  /\ plan' = IF result = "ok" THEN Tail(plan) ELSE <<>>
  /\ pc' = "ready" /\ attempt' = 0 /\ until' = 0 /\ reply' = NoReply
  /\ UNCHANGED req

\* GetQueueLength has the id of its pool and asks for the jobs.
AskForJobs ==
  /\ req' = "jobs" /\ pc' = "send" /\ attempt' = 0 /\ reply' = NoReply
  /\ UNCHANGED <<plan, results, until>>

-----------------------------------------------------------------------------
(* doRequestWithBackoff. *)

\* Mutant: a wait that the context does not end.
WithoutDeadline(t) == t

\* The deadline of the context ends every wait.
WithinDeadline(t) == IF t < Deadline THEN t ELSE Deadline

\* An attempt is sent.  The limiter, which the loop waits for once, holds a request up
\* for less than a tick.  When the deadline has passed it fails; so does client.Do, and
\* then the wait before the next attempt is over at once.
Send ==
  /\ pc = "send"
  /\ IF now < Deadline
     THEN /\ pc' = "wait" /\ until' = WithinDeadline(now + RequestTimeout)
          /\ flight' = (IF req \in Changes THEN flight ELSE {}) \cup {attempt}
          /\ UNCHANGED <<call, reply>>
     ELSE Return("error") /\ UNCHANGED flight
  /\ UNCHANGED <<now, server, cached, history>>

\* The wait before the next attempt, with a jitter of less than half of it.
Backoff(n) == BaseDelay * 2^n
Backoffs(n) == Backoff(n) .. Backoff(n) + Backoff(n) \div 2

Sleep(time) ==
  /\ pc' = "sleep" /\ until' = WithinDeadline(now + time) /\ reply' = NoReply
  /\ UNCHANGED call

\* client.Do returns an error: the connection broke, or time is up.
DoFails ==
  /\ pc = "wait"
  /\ IF WithBackoff(req) THEN \E t \in Backoffs(attempt) : Sleep(t) ELSE Return("error")
  /\ UNCHANGED <<now, flight, server, cached, history>>

\* What a 429 answer makes the client wait: no header, an unreadable one and 0
\* mean the default; after a negative one the next attempt is made at once.
TooManyRequests ==
  /\ pc = "wait" /\ reply.code = 429 /\ WithBackoff(req)
  /\ \E t \in IF reply.after = 0 THEN Backoffs(attempt)
              ELSE {IF reply.after < 0 THEN 0 ELSE reply.after} : Sleep(t)
  /\ asked' = IF reply.after > 0 THEN TRUE ELSE asked
  /\ UNCHANGED <<now, flight, server, cached, waited>>

\* Any other answer ends the request r.
Answered(r) ==
  /\ pc = "wait" /\ req = r /\ reply # NoReply /\ (reply.code = 429 => ~WithBackoff(r))
  /\ UNCHANGED <<now, flight, server, history>>

ReceivePool ==
  /\ Answered("pool")
  /\ IF reply.code = 200
     THEN /\ cached' = reply.pool
          /\ IF Head(plan) = "GetQueueLength" THEN AskForJobs ELSE Return("ok")
     ELSE Return("error") /\ UNCHANGED cached

\* The method returns, with success after 200.
Judge(r) == Answered(r) /\ Return(IF reply.code = 200 THEN "ok" ELSE "error") /\ UNCHANGED cached

ReceiveJobs == Judge("jobs")

\* GetAgentsInPool decodes a body that it has closed.
ReceiveAgents == Answered("agents") /\ Return("error") /\ UNCHANGED cached

ReceiveDisabled == Judge("disable")

\* 204 is success too, and 404, for an agent that is gone, an error.
ReceiveDeleted == Judge("delete")

Receive ==
  ReceivePool \/ ReceiveJobs \/ ReceiveAgents \/ ReceiveDisabled \/ ReceiveDeleted

\* Mutant: the error of the last attempt is lost, and with it that of 429 answers.
WakeForgetsError ==
  /\ pc = "sleep" /\ now >= until
  /\ IF now < Deadline /\ attempt + 1 < MaxRetries
     THEN /\ pc' = "send" /\ attempt' = attempt + 1
          /\ UNCHANGED <<plan, results, req, until, reply>>
     ELSE Return(IF now < Deadline THEN "ok" ELSE "error")
  /\ UNCHANGED <<now, flight, server, cached, history>>

\* Mutant: the attempts are not counted.
WakeUncounted ==
  /\ pc = "sleep" /\ now >= until
  /\ IF now < Deadline
     THEN /\ pc' = "send"
          /\ UNCHANGED <<call, until, reply>>
     ELSE Return("error")
  /\ UNCHANGED <<now, flight, server, cached, history>>

\* Mutant: one attempt too many.
WakeOnceMore ==
  /\ pc = "sleep" /\ now >= until
  /\ IF now < Deadline /\ attempt < MaxRetries
     THEN /\ pc' = "send" /\ attempt' = attempt + 1
          /\ UNCHANGED <<plan, results, req, until, reply>>
     ELSE Return("error")
  /\ UNCHANGED <<now, flight, server, cached, history>>

\* The wait is over.  The loop sleeps after the last attempt too; then it returns
\* the last error, or a 429 answer with a closed body that every caller rejects.
Wake ==
  /\ pc = "sleep" /\ now >= until
  /\ IF now < Deadline /\ attempt + 1 < MaxRetries
     THEN /\ pc' = "send" /\ attempt' = attempt + 1
          /\ UNCHANGED <<plan, results, req, until, reply>>
     ELSE Return("error")
  /\ UNCHANGED <<now, flight, server, cached, history>>

\* The manager shuts down: the context is cancelled, before time is up.
Cancelled ==
  /\ pc = "send" \/ (pc \in {"wait", "sleep"} /\ now < until)
  /\ Return("error")
  /\ UNCHANGED <<now, flight, server, cached, history>>

-----------------------------------------------------------------------------
(* The server, and time. *)

\* The server deals with an attempt, and the answer arrives unless it is lost or
\* nobody waits for it any more.  (Jobs are asked for by the remembered id.)
Serve(n, code) ==
  /\ n \in flight /\ flight' = flight \ {n}
  /\ (code = 200 /\ req = "delete") => ~gone
  /\ gone' \in IF req \notin Changes \/ code = 429 THEN {gone}
               ELSE IF code = 200 THEN {TRUE} ELSE {gone, TRUE}
  /\ \E after \in IF code = 429 THEN RetryAfter ELSE {0} :
       reply' \in {reply} \cup
         IF n = attempt /\ pc = "wait" /\ reply = NoReply
         THEN {[code |-> code, pool |-> IF req = "jobs" THEN cached ELSE poolID, after |-> after]}
         ELSE {}
  /\ UNCHANGED <<now, call, pc, until, poolID, cached, history>>

\* Somebody deletes the pool and creates another one of that name.
ReplacePool ==
  /\ \E id \in PoolIDs : id > poolID /\ poolID' = id
  /\ UNCHANGED <<now, call, pc, until, reply, flight, gone, cached, history>>

\* Time passes while the client waits, and not beyond what it waits for.
Tick ==
  /\ pc \in {"wait", "sleep"} /\ now < until
  /\ now' = now + 1
  /\ waited' = IF pc = "wait" /\ waited <= RequestTimeout THEN waited + 1 ELSE waited
  /\ UNCHANGED <<call, pc, until, reply, flight, server, cached, asked>>

-----------------------------------------------------------------------------

Client == Call \/ Send \/ DoFails \/ TooManyRequests \/ Receive \/ Wake

Next ==
  \/ Client \/ Cancelled
  \/ \E n \in flight, code \in Codes : Serve(n, code)
  \/ ReplacePool
  \/ Tick

Spec == Init /\ [][Next]_vars

\* The client goes on and time passes.  (DoFails is always possible in a wait, so that
\* fairness of Client says no more than that the time-out of client.Do works.)
FairSpec == Spec /\ WF_vars(Client) /\ WF_vars(Tick)

-----------------------------------------------------------------------------

Last(s) == s[Len(s)]
Results == [method : Methods, result : {"ok", "error"}, pool : PoolIDs \cup {NoID}]

\* The variables have their types: no request has more than MaxRetries attempts, and no
\* wait is planned beyond the deadline.
TypeOK ==
  /\ now \in 0 .. Deadline /\ waited \in 0 .. now /\ until \in Int /\ until <= Deadline
  /\ plan \in Seq(Methods) /\ results \in Seq(Results)
  /\ req \in Requests /\ pc \in {"ready", "send", "wait", "sleep"}
  /\ attempt \in 0 .. MaxRetries - 1
  /\ reply \in [code : Codes \cup {0}, pool : PoolIDs \cup {NoID}, after : RetryAfter \cup {0}]
  /\ flight \subseteq 0 .. MaxRetries - 1
  /\ gone \in BOOLEAN /\ poolID \in PoolIDs /\ cached \in PoolIDs \cup {NoID}
  /\ asked \in BOOLEAN

\* The two queue lengths of a reconcile, which reports the first and decides with the
\* second, come from one pool, whatever the pool's name has come to stand for between
\* the two calls of GetQueueLength.
OnePool ==
  \A i, j \in 1 .. Len(results) :
    (\A k \in {i, j} : results[k].method = "GetQueueLength" /\ results[k].result = "ok")
      => results[i].pool = results[j].pool

\* A queue length that cannot be had leaves Reconcile time to write the status "Failed"
\* within its deadline, if what it did before and all the answers together take no
\* longer than one time-out and the server asks for no wait of its own.  The attempts,
\* the waits between them and after the last one, and that time-out only just add up.
TimeToReport ==
  (/\ pc = "ready" /\ results # <<>>
   /\ Last(results).method = "GetQueueLength" /\ Last(results).result = "error"
   /\ waited <= RequestTimeout /\ ~asked)
    => now < Deadline

\* The arithmetic of TimeToReport: when W[n] is at least what the waits before attempt
\* n can add up to, and no plan has more than L methods, then one time-out, the waits
\* of a request that succeeds after all for each of L requests, and those of one that
\* fails, end before the deadline.
WaitsFit(W, L) ==
  /\ W \in [0 .. MaxRetries -> Nat]
  /\ \A n \in 0 .. MaxRetries - 1 : \A t \in Backoffs(n) : t \in Nat /\ W[n] + t <= W[n + 1]
  /\ \A m, n \in 0 .. MaxRetries : m <= n => W[m] <= W[n]
  /\ \A p \in Plans : Len(p) <= L
  /\ RequestTimeout + L * W[MaxRetries - 1] + W[MaxRetries] < Deadline

\* Where a method stands: before its first request, at the pool's id, or at its last
\* request; and where an attempt stands.
Place == IF pc = "ready" THEN 1 ELSE IF req = "pool" THEN 2 ELSE 3
AttemptStage == IF pc = "sleep" THEN 3 ELSE IF pc = "wait" THEN 2 ELSE 1

\* A step forward: with the plan, with the method, with the request, or with the attempt.
Onward ==
  \/ Len(plan') < Len(plan)
  \/ /\ plan' = plan
     /\ \/ Place < Place'
        \/ Place = Place' /\ attempt < attempt'
        \/ Place = Place' /\ attempt = attempt' /\ AttemptStage < AttemptStage'

\* The client does not run in circles: whatever the server answers (a 429 that asks for
\* no wait, too), whenever an answer is lost and the context cancelled, every step of it
\* is one forward, and nobody else moves it.  With the bound on the attempts in TypeOK,
\* a reconcile sends finitely many requests, however far off its deadline is.
CallsAdvance ==
  [][Onward \/ (~Client /\ ~Cancelled /\ UNCHANGED <<call, pc>>)]_vars

\* The DisableAgent and DeleteAgent of a plan as calls of a remote service: each one
\* succeeds only if it has taken effect, through any of its attempts, and it ends.
stageBar ==
  IF pc # "ready" THEN IF req \in Changes THEN "open" ELSE "idle"
  ELSE IF results # <<>> /\ Changing(Last(results).method) THEN Last(results).result
  ELSE "idle"

R == INSTANCE RemoteCall WITH stage <- stageBar, effect <- gone

ImplementsRemoteCall == R!Spec
=============================================================================
