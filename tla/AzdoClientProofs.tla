--------------------------- MODULE AzdoClientProofs ---------------------------
(***************************************************************************)
(* The client of one reconcile, for every set of plans, deadline and       *)
(* number of attempts: its types, that it asks one pool, that its calls    *)
(* are those of RemoteCall, and that a failure is known before the         *)
(* deadline.                                                               *)
(***************************************************************************)
EXTENDS AzdoClient, SequenceTheorems, TLAPS

\* The requests that belong to a method.
RequestsOf(method) ==
  CASE method = "GetPoolIDByName" -> {"pool"}
    [] method = "GetQueueLength" -> {"pool", "jobs"}
    [] method = "GetAgentsInPool" -> {"agents"}
    [] method = "DisableAgent" -> {"disable"}
    [] method = "DeleteAgent" -> {"delete"}

\* While a method runs, its request is one of its own; the jobs are asked for with
\* the remembered id and the answer is about that pool, and the id is asked for only
\* if none is remembered; a change that was answered with success has been made.
Calling ==
  pc # "ready" =>
    /\ plan # <<>> /\ req \in RequestsOf(Head(plan))
    /\ req = "jobs" => cached # NoID /\ (reply # NoReply => reply.pool = cached)
    /\ req = "pool" => cached = NoID
    /\ reply # NoReply => reply.pool # NoID
    /\ req \in Changes /\ reply.code = 200 => gone

\* Between two methods there is no answer, nothing is remembered before the first,
\* and the last request was one of the last method.
Resting ==
  pc = "ready" =>
    /\ reply = NoReply
    /\ results = <<>> => cached = NoID /\ req = "pool"
    /\ req \in Changes => results # <<>> /\ Changing(Last(results).method)

\* What is left of the plan: after a changing call only others, and these only if it
\* has succeeded.
PlanLeft ==
  /\ \A i \in 2 .. Len(plan) : plan[i] # "GetPoolIDByName"
  /\ results # <<>> /\ plan # <<>> => plan[1] # "GetPoolIDByName"
  /\ \A i \in 1 .. Len(plan) - 1 : Changing(plan[i]) => Changing(plan[i + 1])
  /\ plan # <<>> /\ results # <<>> /\ Changing(Last(results).method) =>
       Last(results).result = "ok" /\ Changing(plan[1])

\* Every queue length so far is one of the remembered pool.
PoolKept ==
  \A i \in 1 .. Len(results) :
    results[i].method = "GetQueueLength" /\ results[i].result = "ok"
      => results[i].pool = cached /\ cached # NoID

Inv == TypeOK /\ Calling /\ Resting /\ PlanLeft /\ PoolKept

\* The answer that stands for none.
LEMMA NoReplyType ==
  /\ NoReply \in [code : Codes \cup {0}, pool : PoolIDs \cup {NoID}, after : RetryAfter \cup {0}]
  /\ NoReply.code = 0
BY DEF NoReply

\* The head and the tail of a plan.
LEMMA PlanParts ==
  ASSUME NEW p \in Seq(Methods), p # <<>>
  PROVE  /\ Head(p) = p[1] /\ Head(p) \in Methods /\ Len(p) \in Nat /\ Len(p) >= 1
         /\ Tail(p) \in Seq(Methods) /\ Len(Tail(p)) = Len(p) - 1
         /\ \A i \in 1 .. Len(p) - 1 : Tail(p)[i] = p[i + 1]
         /\ Len(p) = 1 => Tail(p) = <<>>
<1>1. Len(p) \in Nat /\ Len(p) >= 1 /\ \A i \in 1 .. Len(p) : p[i] \in Methods
  BY EmptySeq, LenProperties, ElementOfSeq
<1>2. /\ Head(p) \in Methods /\ Tail(p) \in Seq(Methods) /\ Len(Tail(p)) = Len(p) - 1
      /\ \A i \in 1 .. Len(Tail(p)) : Tail(p)[i] = p[i + 1]
  BY HeadTailProperties
<1>3. Head(p) = p[1]
  OBVIOUS
<1>4. Len(p) = 1 => Tail(p) = <<>>
  <2> DEFINE t == Tail(p)
  <2>1. \A s \in Seq(Methods) : s # <<>> => Len(s) \in Nat \ {0}
    BY EmptySeq
  <2>2. t \in Seq(Methods) /\ Len(t) = Len(p) - 1
    BY <1>2
  <2> HIDE DEF t
  <2>3. Len(p) = 1 => t = <<>>
    BY <1>1, <2>1, <2>2
  <2>. QED BY <2>3 DEF t
<1>. QED BY <1>1, <1>2, <1>3, <1>4

\* The requests of a method are requests, and changes exactly if it is changing.
LEMMA RequestFacts ==
  ASSUME NEW m \in Methods
  PROVE  /\ \A r \in RequestsOf(m) : r \in Requests /\ (r \in Changes <=> Changing(m))
         /\ FirstRequest(m) \in RequestsOf(m)
         /\ FirstRequest(m) = "jobs" => m = "GetQueueLength" /\ cached # NoID
         /\ FirstRequest(m) = "pool" => m = "GetPoolIDByName" \/ cached = NoID
BY DEF Methods, RequestsOf, Requests, Changes, Changing, FirstRequest, RequestOf

\* The initial states.
LEMMA InitInv == Init => Inv
<1> SUFFICES ASSUME Init PROVE Inv
  OBVIOUS
<1>1. /\ plan \in Seq(Methods) /\ \A i \in 2 .. Len(plan) : plan[i] # "GetPoolIDByName"
      /\ \A i \in 1 .. Len(plan) - 1 : Changing(plan[i]) => Changing(plan[i + 1])
  BY PlansAssumption DEF Init
<1>2. TypeOK
  <2>1. now \in 0 .. Deadline /\ waited \in 0 .. now /\ until \in Int /\ until <= Deadline
        /\ attempt \in 0 .. MaxRetries - 1
    BY TimesAssumption DEF Init
  <2>2. results \in Seq(Results) /\ req \in Requests /\ flight \subseteq 0 .. MaxRetries - 1
    BY EmptySeq DEF Init, Requests
  <2>. QED BY <1>1, <2>1, <2>2, PoolsAssumption, NoReplyType DEF Init, TypeOK
<1>3. Calling /\ Resting /\ PoolKept
  BY DEF Init, Calling, Resting, PoolKept, Changes
<1>4. PlanLeft
  BY <1>1 DEF Init, PlanLeft
<1>. QED BY <1>2, <1>3, <1>4 DEF Inv

-----------------------------------------------------------------------------
(* The end of a method. *)

\* What Return does to the results and the plan.
LEMMA ReturnParts ==
  ASSUME TypeOK, plan # <<>>, NEW result \in {"ok", "error"}, Return(result)
  PROVE  LET new == [method |-> Head(plan), result |-> result, pool |-> reply.pool]
         IN  /\ new \in Results /\ results' \in Seq(Results) /\ results' # <<>>
             /\ Len(results) \in Nat /\ Len(results') = Len(results) + 1
             /\ \A i \in 1 .. Len(results) : results'[i] = results[i]
             /\ results'[Len(results')] = new
             /\ plan' = Tail(plan) \/ plan' = <<>>
             /\ plan' # <<>> => result = "ok"
             /\ plan' \in Seq(Methods)
<1> DEFINE new == [method |-> Head(plan), result |-> result, pool |-> reply.pool]
<1>1. new \in Results
  BY PlanParts DEF TypeOK, Results
<1>2. results \in Seq(Results) /\ Len(results) \in Nat
  BY LenProperties DEF TypeOK
<1>3. results' = Append(results, new)
  BY DEF Return
<1>4. (plan' = Tail(plan) \/ plan' = <<>>) /\ (plan' # <<>> => result = "ok")
  BY DEF Return
<1>5. plan' \in Seq(Methods)
  BY <1>4, PlanParts, EmptySeq DEF TypeOK
<1> HIDE DEF new
<1>6. /\ results' \in Seq(Results) /\ results' # <<>> /\ Len(results') = Len(results) + 1
      /\ \A i \in 1 .. Len(results) : results'[i] = results[i]
      /\ results'[Len(results) + 1] = new
  BY <1>1, <1>2, <1>3, AppendProperties
<1>. QED BY <1>1, <1>2, <1>4, <1>5, <1>6 DEF new

\* A method returns: a queue length only with the answer to a request for jobs; the id
\* is remembered by another method only.
LEMMA ReturnInv ==
  ASSUME Inv, pc # "ready", NEW result \in {"ok", "error"}, Return(result),
         result = "ok" /\ Head(plan) = "GetQueueLength" => req = "jobs" /\ reply # NoReply,
         cached' = cached \/ (req = "pool" /\ cached' = reply.pool
                               /\ ~(result = "ok" /\ Head(plan) = "GetQueueLength")),
         flight' = flight, UNCHANGED <<now, server, history>>
  PROVE  Inv'
<1>1. /\ TypeOK /\ plan # <<>> /\ plan \in Seq(Methods) /\ req \in RequestsOf(Head(plan))
      /\ req = "jobs" => cached # NoID /\ (reply # NoReply => reply.pool = cached)
      /\ req = "pool" => cached = NoID
  BY DEF Inv, Calling, TypeOK
<1> DEFINE new == [method |-> Head(plan), result |-> result, pool |-> reply.pool]
<1>2. /\ new \in Results /\ results' \in Seq(Results) /\ results' # <<>>
      /\ Len(results) \in Nat /\ Len(results') = Len(results) + 1
      /\ \A i \in 1 .. Len(results) : results'[i] = results[i]
      /\ results'[Len(results')] = new
      /\ plan' = Tail(plan) \/ plan' = <<>>
      /\ plan' # <<>> => result = "ok"
      /\ plan' \in Seq(Methods)
  BY <1>1, ReturnParts
<1>3. new.method = Head(plan) /\ new.result = result /\ new.pool = reply.pool
  OBVIOUS
<1> HIDE DEF new
<1>4. pc' = "ready" /\ reply' = NoReply /\ req' = req /\ attempt' = 0 /\ until' = 0
  BY DEF Return
<1>5. cached' \in PoolIDs \cup {NoID}
  BY <1>1 DEF TypeOK
<1>6. TypeOK'
  <2>1. attempt' \in 0 .. MaxRetries - 1 /\ until' \in Int /\ until' <= Deadline
    BY <1>4, TimesAssumption
  <2>. QED BY <1>1, <1>2, <1>4, <1>5, <2>1, NoReplyType DEF TypeOK, server, history
<1>7. Calling'
  BY <1>4 DEF Calling
<1>8. Resting'
  <2>1. req \in Changes => Changing(Head(plan))
    BY <1>1, RequestFacts, PlanParts
  <2>. QED BY <1>2, <1>3, <1>4, <2>1 DEF Resting, Last
<1>9. PlanLeft'
  <2>1. /\ \A i \in 1 .. Len(plan) - 1 : Tail(plan)[i] = plan[i + 1]
        /\ Head(plan) = plan[1] /\ Len(plan) \in Nat /\ Len(Tail(plan)) = Len(plan) - 1
        /\ Len(plan) >= 1 /\ (Len(plan) = 1 => Tail(plan) = <<>>)
    BY <1>1, PlanParts
  <2>2. /\ \A i \in 2 .. Len(plan) : plan[i] # "GetPoolIDByName"
        /\ \A i \in 1 .. Len(plan) - 1 : Changing(plan[i]) => Changing(plan[i + 1])
    BY DEF Inv, PlanLeft
  <2>3. CASE plan' = <<>>
    BY <2>3, EmptySeq DEF PlanLeft
  <2>4. CASE plan' = Tail(plan) /\ Len(plan) > 1
    <3>1. \A i \in 1 .. Len(plan') : plan'[i] # "GetPoolIDByName"
      BY <2>1, <2>2, <2>4
    <3>2. \A i \in 1 .. Len(plan') - 1 : Changing(plan'[i]) => Changing(plan'[i + 1])
      BY <2>1, <2>2, <2>4
    <3>3. Changing(Head(plan)) => Changing(plan'[1])
      BY <2>1, <2>2, <2>4
    <3>4. Len(plan') >= 1 /\ Len(plan') \in Nat
      BY <2>1, <2>4
    <3>. QED BY <1>2, <1>3, <3>1, <3>2, <3>3, <3>4 DEF PlanLeft, Last
  <2>. QED BY <1>2, <2>1, <2>3, <2>4
<1>10. PoolKept'
  <2>1. \A i \in 1 .. Len(results) :
          results'[i].method = "GetQueueLength" /\ results'[i].result = "ok"
            => results'[i].pool = cached' /\ cached' # NoID
    BY <1>1, <1>2 DEF Inv, PoolKept
  <2>2. new.method = "GetQueueLength" /\ new.result = "ok" => new.pool = cached' /\ cached' # NoID
    BY <1>1, <1>3
  <2>. QED BY <1>2, <2>1, <2>2 DEF PoolKept
<1>. QED BY <1>6, <1>7, <1>8, <1>9, <1>10 DEF Inv

-----------------------------------------------------------------------------
(* The steps. *)

\* A step within a method, which answers it at most truthfully.
LEMMA WithinMethod ==
  ASSUME Inv, TypeOK', pc # "ready", pc' # "ready", UNCHANGED <<plan, results, req, cached>>,
         req = "jobs" /\ reply' # NoReply => reply'.pool = cached,
         reply' # NoReply => reply'.pool # NoID,
         req \in Changes /\ reply'.code = 200 => gone'
  PROVE  Inv'
<1>1. Calling' /\ Resting' /\ PlanLeft' /\ PoolKept'
  BY DEF Inv, Calling, Resting, PlanLeft, PoolKept, Last
<1>. QED BY <1>1 DEF Inv

\* A wait ends at the deadline.
LEMMA WithinDeadlineType ==
  ASSUME NEW t \in Int
  PROVE  WithinDeadline(t) \in Int /\ WithinDeadline(t) <= Deadline
BY TimesAssumption DEF WithinDeadline

\* A call begins.
LEMMA CallInv == Inv /\ Call => Inv'
<1> SUFFICES ASSUME Inv, Call PROVE Inv'
  OBVIOUS
<1>1. TypeOK /\ pc = "ready" /\ plan # <<>> /\ plan \in Seq(Methods) /\ reply = NoReply
  BY DEF Inv, Call, Resting, TypeOK
<1>2. /\ Head(plan) = plan[1] /\ Head(plan) \in Methods
      /\ req' = FirstRequest(Head(plan)) /\ req' \in RequestsOf(Head(plan)) /\ req' \in Requests
      /\ req' = "jobs" => cached # NoID
      /\ req' = "pool" => Head(plan) = "GetPoolIDByName" \/ cached = NoID
  BY <1>1, PlanParts, RequestFacts DEF Call
<1>3. req' = "pool" => cached = NoID
  BY <1>1, <1>2 DEF Inv, PlanLeft, Resting
<1>4. /\ pc' = "send" /\ attempt' = 0 /\ flight' = {} /\ reply' = NoReply /\ plan' = plan
      /\ results' = results /\ cached' = cached /\ gone' \in {FALSE, gone}
      /\ UNCHANGED <<now, until, poolID, history>>
  BY <1>1 DEF Call
<1>5. TypeOK'
  <2>1. attempt' \in 0 .. MaxRetries - 1
    BY <1>4, TimesAssumption
  <2>. QED BY <1>1, <1>2, <1>4, <2>1 DEF TypeOK, history
<1>6. Calling'
  BY <1>1, <1>2, <1>3, <1>4, NoReplyType DEF Calling
<1>7. Resting' /\ PlanLeft' /\ PoolKept'
  BY <1>4 DEF Inv, Resting, PlanLeft, PoolKept, Last
<1>. QED BY <1>5, <1>6, <1>7 DEF Inv

\* An attempt is sent.
LEMMA SendInv == Inv /\ Send => Inv'
<1> SUFFICES ASSUME Inv, Send PROVE Inv'
  OBVIOUS
<1>1. TypeOK /\ pc = "send" /\ pc # "ready" /\ UNCHANGED <<now, server, cached, history>>
  BY DEF Inv, Send
<1>2. CASE now < Deadline
  <2>1. /\ pc' = "wait" /\ until' = WithinDeadline(now + RequestTimeout) /\ UNCHANGED <<call, reply>>
        /\ flight' = (IF req \in Changes THEN flight ELSE {}) \cup {attempt}
    BY <1>2 DEF Send
  <2>2. until' \in Int /\ until' <= Deadline
    BY <1>1, <2>1, WithinDeadlineType, TimesAssumption DEF TypeOK
  <2>3. TypeOK'
    BY <1>1, <2>1, <2>2 DEF TypeOK, call, server, history
  <2>. QED BY <1>1, <2>1, <2>3, WithinMethod DEF call, server, Inv, Calling
<1>3. CASE ~(now < Deadline)
  BY <1>1, <1>3, ReturnInv DEF Send
<1>. QED BY <1>2, <1>3

\* The wait before the next attempt.
LEMMA SleepInv ==
  ASSUME Inv, pc = "wait", NEW t \in Int, Sleep(t), asked' \in BOOLEAN,
         UNCHANGED <<now, flight, server, cached, waited>>
  PROVE  Inv'
<1>1. TypeOK /\ pc' = "sleep" /\ until' = WithinDeadline(now + t) /\ reply' = NoReply /\ UNCHANGED call
  BY DEF Inv, Sleep
<1>2. until' \in Int /\ until' <= Deadline
  BY <1>1, WithinDeadlineType DEF TypeOK
<1>3. TypeOK'
  BY <1>1, <1>2, NoReplyType DEF TypeOK, call, server
<1>. QED BY <1>1, <1>3, NoReplyType, WithinMethod DEF call

\* The wait that an answer asks for is a number.
LEMMA AfterType ==
  ASSUME TypeOK
  PROVE  reply.after \in Int
<1>1. reply \in [code : Codes \cup {0}, pool : PoolIDs \cup {NoID}, after : RetryAfter \cup {0}]
  BY DEF TypeOK
<1>2. reply.after \in RetryAfter \cup {0}
  BY <1>1
<1>3. RetryAfter \subseteq Int
  BY TimesAssumption
<1>4. CASE reply.after = 0
  BY <1>4
<1>5. CASE reply.after # 0
  <2>1. reply.after \in RetryAfter
    BY <1>2, <1>5, Zenon
  <2>. QED BY <1>3, <2>1, Zenon
<1>. QED BY <1>4, <1>5, Zenon

\* client.Do fails, or the server asks to wait.
LEMMA DoFailsInv == Inv /\ DoFails => Inv'
<1> SUFFICES ASSUME Inv, DoFails PROVE Inv'
  OBVIOUS
<1>1. pc = "wait" /\ UNCHANGED <<now, flight, server, cached, history>> /\ asked \in BOOLEAN
  BY DEF Inv, TypeOK, DoFails
<1>2. CASE WithBackoff(req)
  <2>1. PICK t \in Backoffs(attempt) : Sleep(t)
    BY <1>2 DEF DoFails
  <2>2. t \in Int
    BY DEF Backoffs
  <2>. QED BY <1>1, <2>1, <2>2, SleepInv DEF history
<1>3. CASE ~WithBackoff(req)
  BY <1>1, <1>3, ReturnInv DEF DoFails
<1>. QED BY <1>2, <1>3

LEMMA TooManyRequestsInv == Inv /\ TooManyRequests => Inv'
<1> SUFFICES ASSUME Inv, TooManyRequests PROVE Inv'
  OBVIOUS
<1>1. /\ pc = "wait" /\ UNCHANGED <<now, flight, server, cached, waited>>
      /\ asked' \in BOOLEAN /\ reply.after \in Int
  <2>1. pc = "wait" /\ UNCHANGED <<now, flight, server, cached, waited>>
    BY DEF TooManyRequests
  <2>2. asked' \in BOOLEAN
    <3>1. asked' = IF reply.after > 0 THEN TRUE ELSE asked
      BY DEF TooManyRequests
    <3>2. asked \in BOOLEAN
      BY DEF Inv, TypeOK
    <3>3. CASE reply.after > 0
      BY <3>1, <3>3, Zenon
    <3>4. CASE ~(reply.after > 0)
      <4>1. asked' = asked
        BY <3>1, <3>4, Zenon
      <4>. QED BY <3>2, <4>1, Zenon
    <3>. QED BY <3>3, <3>4, Zenon
  <2>3. reply.after \in Int
    BY AfterType DEF Inv
  <2>. QED BY <2>1, <2>2, <2>3
<1>2. PICK t \in IF reply.after = 0 THEN Backoffs(attempt)
                 ELSE {IF reply.after < 0 THEN 0 ELSE reply.after} : Sleep(t)
  BY DEF TooManyRequests
<1>3. t \in Int
  BY <1>1, <1>2 DEF Backoffs
<1>. QED BY <1>1, <1>2, <1>3, SleepInv

\* An answer arrives at the client: the id of the pool is remembered, and the other
\* methods return.
LEMMA ReceivePoolInv == Inv /\ ReceivePool => Inv'
<1> SUFFICES ASSUME Inv, ReceivePool PROVE Inv'
  OBVIOUS
<1>1. /\ TypeOK /\ pc = "wait" /\ pc # "ready" /\ req = "pool" /\ reply # NoReply
      /\ UNCHANGED <<now, flight, server, history>>
      /\ plan # <<>> /\ req \in RequestsOf(Head(plan)) /\ cached = NoID /\ reply.pool # NoID
  BY DEF Inv, Calling, ReceivePool, Answered
<1>2. CASE reply.code = 200 /\ Head(plan) = "GetQueueLength"
  <2>1. cached' = reply.pool /\ AskForJobs
    BY <1>2 DEF ReceivePool
  <2>2. /\ req' = "jobs" /\ pc' = "send" /\ attempt' = 0 /\ reply' = NoReply
        /\ plan' = plan /\ results' = results /\ until' = until
    BY <2>1 DEF AskForJobs
  <2>3. cached' \in PoolIDs \cup {NoID} /\ cached' # NoID
    BY <1>1, <2>1 DEF TypeOK
  <2>4. TypeOK'
    <3>1. attempt' \in 0 .. MaxRetries - 1 /\ req' \in Requests
      BY <2>2, TimesAssumption DEF Requests
    <3>. QED BY <1>1, <2>2, <2>3, <3>1, NoReplyType DEF TypeOK, server, history
  <2>5. Calling'
    BY <1>1, <1>2, <2>2, <2>3 DEF Calling, RequestsOf, Changes
  <2>6. Resting' /\ PlanLeft'
    BY <2>2 DEF Inv, Resting, PlanLeft, Last
  <2>7. PoolKept'
    BY <1>1, <2>2 DEF Inv, PoolKept
  <2>. QED BY <2>4, <2>5, <2>6, <2>7 DEF Inv
<1>3. CASE reply.code = 200 /\ Head(plan) # "GetQueueLength"
  BY <1>1, <1>3, ReturnInv DEF ReceivePool
<1>4. CASE reply.code # 200
  BY <1>1, <1>4, ReturnInv DEF ReceivePool
<1>. QED BY <1>2, <1>3, <1>4

LEMMA ReceiveInv == Inv /\ Receive => Inv'
<1> SUFFICES ASSUME Inv, Receive PROVE Inv'
  OBVIOUS
<1>1. ASSUME NEW r \in {"jobs", "disable", "delete"}, Judge(r) PROVE Inv'
  <2>1. /\ pc # "ready" /\ req = r /\ reply # NoReply /\ req \in RequestsOf(Head(plan))
        /\ UNCHANGED <<now, flight, server, cached, history>>
    BY <1>1 DEF Judge, Answered, Inv, Calling
  <2>2. Head(plan) = "GetQueueLength" => req = "jobs"
    BY <2>1 DEF RequestsOf
  <2>3. \E x \in {"ok", "error"} : Return(x)
    BY <1>1 DEF Judge
  <2>. QED BY <2>1, <2>2, <2>3, ReturnInv
<1>2. CASE ReceiveAgents
  <2>1. pc # "ready" /\ Return("error") /\ UNCHANGED <<now, flight, server, cached, history>>
    BY <1>2 DEF ReceiveAgents, Answered
  <2>. QED BY <2>1, ReturnInv
<1>. QED
  BY <1>1, <1>2, ReceivePoolInv DEF Receive, ReceiveJobs, ReceiveDisabled, ReceiveDeleted

\* The next attempt, or the end of all attempts.
LEMMA WakeInv == Inv /\ Wake => Inv'
<1> SUFFICES ASSUME Inv, Wake PROVE Inv'
  OBVIOUS
<1>1. TypeOK /\ pc = "sleep" /\ pc # "ready" /\ UNCHANGED <<now, flight, server, cached, history>>
  BY DEF Inv, Wake
<1>2. CASE now < Deadline /\ attempt + 1 < MaxRetries
  <2>1. pc' = "send" /\ attempt' = attempt + 1 /\ UNCHANGED <<plan, results, req, until, reply>>
    BY <1>2 DEF Wake
  <2>2. attempt' \in 0 .. MaxRetries - 1
    BY <1>1, <1>2, <2>1, TimesAssumption DEF TypeOK
  <2>3. TypeOK'
    BY <1>1, <2>1, <2>2 DEF TypeOK, server, history
  <2>. QED BY <1>1, <2>1, <2>3, WithinMethod DEF Inv, Calling, server
<1>3. CASE ~(now < Deadline /\ attempt + 1 < MaxRetries)
  BY <1>1, <1>3, ReturnInv DEF Wake
<1>. QED BY <1>2, <1>3

\* The server deals with an attempt.
LEMMA ServeInv ==
  ASSUME Inv, NEW n \in flight, NEW code \in Codes, Serve(n, code)
  PROVE  Inv'
<1>1. /\ TypeOK /\ flight' = flight \ {n}
      /\ UNCHANGED <<now, call, pc, until, poolID, cached, history>>
      /\ gone' \in IF req \notin Changes \/ code = 429 THEN {gone}
                   ELSE IF code = 200 THEN {TRUE} ELSE {gone, TRUE}
  BY DEF Inv, Serve
<1>2. gone' \in BOOLEAN /\ (gone => gone')
  BY <1>1, Zenon DEF TypeOK
<1>3. PICK after \in IF code = 429 THEN RetryAfter ELSE {0} :
        reply' \in {reply} \cup
          IF n = attempt /\ pc = "wait" /\ reply = NoReply
          THEN {[code |-> code, pool |-> IF req = "jobs" THEN cached ELSE poolID, after |-> after]}
          ELSE {}
  BY Zenon DEF Serve
<1> DEFINE new == [code |-> code, pool |-> IF req = "jobs" THEN cached ELSE poolID, after |-> after]
<1>4. /\ new.code = code /\ new.pool = IF req = "jobs" THEN cached ELSE poolID
      /\ new \in [code : Codes \cup {0}, pool : PoolIDs \cup {NoID}, after : RetryAfter \cup {0}]
  BY <1>1, <1>3 DEF TypeOK
<1>5. reply' = reply \/ (pc = "wait" /\ reply' = new)
  BY <1>3
<1> HIDE DEF new
<1>6. TypeOK'
  BY <1>1, <1>2, <1>4, <1>5 DEF TypeOK, call, history
<1>7. CASE pc = "ready"
  BY <1>1, <1>5, <1>6, <1>7
  DEF Inv, Calling, Resting, PlanLeft, PoolKept, Last, call
<1>8. CASE pc # "ready"
  <2>1. /\ req = "jobs" => cached # NoID /\ (reply # NoReply => reply.pool = cached)
        /\ reply # NoReply => reply.pool # NoID
        /\ req \in Changes /\ reply.code = 200 => gone
    BY <1>8 DEF Inv, Calling
  <2>2. poolID # NoID
    BY <1>1, PoolsAssumption DEF TypeOK
  <2>3. req \in Changes /\ reply'.code = 200 => gone'
    <3>1. CASE reply' = reply
      BY <1>2, <2>1, <3>1
    <3>2. CASE reply' = new
      BY <1>1, <1>4, <3>2
    <3>. QED BY <1>5, <3>1, <3>2
  <2>4. /\ req = "jobs" /\ reply' # NoReply => reply'.pool = cached
        /\ reply' # NoReply => reply'.pool # NoID
    BY <1>4, <1>5, <2>1, <2>2
  <2>. QED BY <1>1, <1>6, <1>8, <2>3, <2>4, WithinMethod DEF call
<1>. QED BY <1>7, <1>8

\* Every step keeps the invariant.
LEMMA NextInv == Inv /\ [Next]_vars => Inv'
<1> SUFFICES ASSUME Inv, [Next]_vars PROVE Inv'
  OBVIOUS
<1>1. CASE Client
  BY <1>1, CallInv, SendInv, DoFailsInv, TooManyRequestsInv, ReceiveInv, WakeInv DEF Client
<1>2. CASE Cancelled
  <2>1. pc # "ready" /\ Return("error") /\ UNCHANGED <<now, flight, server, cached, history>>
    BY <1>2 DEF Cancelled
  <2>. QED BY <2>1, ReturnInv
<1>3. ASSUME NEW n \in flight, NEW code \in Codes, Serve(n, code) PROVE Inv'
  BY <1>3, ServeInv
<1>4. CASE ReplacePool
  BY <1>4, PoolsAssumption
  DEF ReplacePool, Inv, TypeOK, Calling, Resting, PlanLeft, PoolKept, Last, call, history
<1>5. CASE Tick
  <2>1. TypeOK /\ now < until /\ now' = now + 1 /\ waited' \in {waited, waited + 1}
        /\ UNCHANGED <<call, pc, until, reply, flight, server, cached, asked>>
    BY <1>5 DEF Inv, Tick
  <2>2. now' \in 0 .. Deadline /\ waited' \in 0 .. now'
    BY <2>1, TimesAssumption DEF TypeOK
  <2>3. TypeOK'
    BY <2>1, <2>2 DEF TypeOK, call, server
  <2>. QED BY <2>1, <2>3 DEF Inv, Calling, Resting, PlanLeft, PoolKept, Last, call, server
<1>6. CASE UNCHANGED vars
  BY <1>6
  DEF vars, Inv, TypeOK, Calling, Resting, PlanLeft, PoolKept, Last, call, server, history
<1>. QED BY <1>1, <1>2, <1>3, <1>4, <1>5, <1>6 DEF Next

\* The invariant always holds.
LEMMA AlwaysInv == Spec => []Inv
BY InitInv, NextInv, PTL DEF Spec

(***************************************************************************)
(* The variables always have their types: no request is attempted more     *)
(* than MaxRetries times, and no wait is planned beyond the deadline.      *)
(***************************************************************************)
THEOREM ClientTypeCorrect == Spec => []TypeOK
<1>1. Inv => TypeOK
  BY DEF Inv
<1>. QED BY <1>1, AlwaysInv, PTL

(***************************************************************************)
(* The queue lengths that a reconcile decides with and reports are those   *)
(* of one pool, whatever becomes of the pool's name between the calls: the *)
(* id is looked up once, by the first of them.                             *)
(***************************************************************************)
THEOREM QueueLengthsOfOnePool == Spec => []OnePool
<1>1. Inv => OnePool
  BY DEF Inv, PoolKept, OnePool
<1>. QED BY <1>1, AlwaysInv, PTL

-----------------------------------------------------------------------------
(* The client does not run in circles. *)

\* A method that returns shortens the plan.
LEMMA ReturnOnward ==
  ASSUME TypeOK, plan # <<>>, NEW result \in {"ok", "error"}, Return(result)
  PROVE  Onward
<1>1. plan' = Tail(plan) \/ plan' = <<>>
  BY DEF Return
<1>2. Len(plan) \in Nat /\ Len(plan) >= 1 /\ Len(Tail(plan)) = Len(plan) - 1
  BY PlanParts DEF TypeOK
<1>3. Len(<<>>) = 0
  OBVIOUS
<1>4. Len(plan') < Len(plan)
  BY <1>1, <1>2, <1>3
<1>. QED BY <1>4 DEF Onward

\* Every step of the client is one forward.
LEMMA ClientOnward == Inv /\ (Client \/ Cancelled) => Onward
<1> SUFFICES ASSUME Inv, Client \/ Cancelled PROVE Onward
  OBVIOUS
<1>1. TypeOK /\ (pc # "ready" => plan # <<>>)
  BY DEF Inv, Calling
<1>2. ASSUME NEW result \in {"ok", "error"}, pc # "ready", Return(result) PROVE Onward
  BY <1>1, <1>2, ReturnOnward
<1>3. ASSUME plan' = plan, req' = req, attempt' = attempt, pc # "ready", pc' # "ready",
             AttemptStage < AttemptStage'
      PROVE  Onward
  BY <1>3 DEF Onward, Place
<1>4. CASE Call
  <2>1. plan' = plan /\ pc = "ready" /\ pc' = "send"
    BY <1>4 DEF Call
  <2>2. Place < Place'
    BY <2>1 DEF Place
  <2>. QED BY <2>1, <2>2 DEF Onward
<1>5. CASE Send
  <2>1. pc = "send"
    BY <1>5 DEF Send
  <2>2. CASE now < Deadline
    <3>1. pc' = "wait" /\ UNCHANGED call
      BY <1>5, <2>2 DEF Send
    <3>. QED BY <1>3, <2>1, <3>1 DEF AttemptStage, call
  <2>3. CASE ~(now < Deadline)
    BY <1>2, <1>5, <2>1, <2>3 DEF Send
  <2>. QED BY <2>2, <2>3
<1>6. ASSUME NEW t, pc = "wait", Sleep(t) PROVE Onward
  <2>1. pc' = "sleep" /\ UNCHANGED call
    BY <1>6 DEF Sleep
  <2>. QED BY <1>3, <1>6, <2>1 DEF AttemptStage, call
<1>7. CASE DoFails
  <2>1. pc = "wait" /\ (Return("error") \/ \E t : Sleep(t))
    BY <1>7, Zenon DEF DoFails
  <2>. QED BY <1>2, <1>6, <2>1
<1>8. CASE TooManyRequests
  <2>1. pc = "wait" /\ \E t : Sleep(t)
    BY <1>8, Zenon DEF TooManyRequests
  <2>. QED BY <1>6, <2>1
<1>9. CASE ReceivePool
  <2>1. pc = "wait" /\ req = "pool" /\ (AskForJobs \/ \E r \in {"ok", "error"} : Return(r))
    BY <1>9, Zenon DEF ReceivePool, Answered
  <2>2. ASSUME AskForJobs PROVE Onward
    <3>1. plan' = plan /\ req' = "jobs" /\ pc' = "send"
      BY <2>2 DEF AskForJobs
    <3>2. Place < Place'
      BY <2>1, <3>1 DEF Place
    <3>. QED BY <3>1, <3>2 DEF Onward
  <2>. QED BY <1>2, <2>1, <2>2
<1>10. CASE ReceiveJobs \/ ReceiveAgents \/ ReceiveDisabled \/ ReceiveDeleted
  <2>1. pc = "wait" /\ \E r \in {"ok", "error"} : Return(r)
    BY <1>10, Zenon
    DEF ReceiveJobs, ReceiveAgents, ReceiveDisabled, ReceiveDeleted, Judge, Answered
  <2>. QED BY <1>2, <2>1
<1>11. CASE Wake
  <2>1. pc = "sleep"
    BY <1>11 DEF Wake
  <2>2. CASE now < Deadline /\ attempt + 1 < MaxRetries
    <3>1. pc' = "send" /\ attempt' = attempt + 1 /\ plan' = plan /\ req' = req
      BY <1>11, <2>2 DEF Wake
    <3>2. attempt < attempt'
      BY <1>1, <3>1, TimesAssumption DEF TypeOK
    <3>3. Place = Place'
      BY <2>1, <3>1 DEF Place
    <3>. QED BY <3>1, <3>2, <3>3 DEF Onward
  <2>3. CASE ~(now < Deadline /\ attempt + 1 < MaxRetries)
    BY <1>2, <1>11, <2>1, <2>3 DEF Wake
  <2>. QED BY <2>2, <2>3
<1>12. CASE Cancelled
  BY <1>2, <1>12 DEF Cancelled
<1>. QED
  BY <1>4, <1>5, <1>7, <1>8, <1>9, <1>10, <1>11, <1>12 DEF Client, Receive

(***************************************************************************)
(* Every step of the client takes its reconcile forward, in the plan, the  *)
(* method, the request or the attempt, and neither the server nor time     *)
(* takes it back: the number of requests is bounded by the plan and by     *)
(* MaxRetries alone, whatever the waits are that 429 answers ask for.      *)
(***************************************************************************)
THEOREM ClientAdvances == Spec => CallsAdvance
<1> DEFINE A == Onward \/ (~Client /\ ~Cancelled /\ UNCHANGED <<call, pc>>)
<1>1. ASSUME NEW n \in flight, NEW code \in Codes, Serve(n, code)
      PROVE  UNCHANGED <<call, pc>>
  BY <1>1, Zenon DEF Serve
<1>2. ReplacePool \/ Tick => UNCHANGED <<call, pc>>
  BY DEF ReplacePool, Tick
<1>3. Inv /\ Next => A
  BY <1>1, <1>2, ClientOnward DEF Next
<1>4. Inv /\ [Next]_vars => [A]_vars
  BY <1>3
<1>. QED BY <1>4, AlwaysInv, PTL DEF Spec, CallsAdvance

-----------------------------------------------------------------------------
(* There is time to report a failure. *)

\* A method has failed.
Failed == results # <<>> /\ Last(results).result = "error"

\* The requests that have succeeded are at most as many as the methods that have
\* returned, and the one that asked for the id of the pool.
Done == Len(results) + IF cached = NoID THEN 0 ELSE 1

\* What the answers and the waits of these requests have taken at most, when W
\* bounds the waits before each attempt.
Spent(W) == waited + Done * W[MaxRetries - 1]

\* Unless the answers take too long or the server asks for a wait, a request has spent
\* no more than the waits before its attempts beyond what earlier ones have, and its
\* next wait ends in time.
Timely(W) ==
  (waited <= RequestTimeout /\ ~asked) =>
    /\ pc = "ready" => IF Failed THEN now < Deadline ELSE now <= Spent(W)
    /\ pc \in {"send", "wait"} => now <= Spent(W) + W[attempt]
    /\ pc = "sleep" => /\ now <= Spent(W) + W[attempt + 1]
                       /\ until <= Spent(W) + W[attempt + 1]

TimeInv(W, L) ==
  /\ Failed => plan = <<>>
  /\ plan # <<>> => Len(results) + Len(plan) <= L
  /\ Timely(W)

\* The product of natural numbers is one, and it grows with each of them: facts to
\* cite where the provers should see a product as a number.
LEMMA ProductNat ==
  ASSUME NEW d \in Nat, NEW s \in Nat
  PROVE  d * s \in Nat
OBVIOUS

LEMMA ProductNext ==
  ASSUME NEW d \in Nat, NEW s \in Nat
  PROVE  (d + 1) * s = d * s + s
OBVIOUS

LEMMA ProductMonotone ==
  ASSUME NEW d \in Nat, NEW e \in Nat, NEW s \in Nat, d <= e
  PROVE  d * s <= e * s
<1> DEFINE more == e - d
<1>1. more \in Nat /\ e = d + more
  OBVIOUS
<1> HIDE DEF more
<1>2. more * s \in Nat /\ d * s \in Nat
  BY <1>1, ProductNat, Zenon
<1>3. (d + more) * s = d * s + more * s
  BY <1>1
<1>. QED BY <1>1, <1>2, <1>3

\* The numbers of TimeInv.
LEMMA TimeTypes ==
  ASSUME TypeOK, NEW W, NEW L \in Nat, WaitsFit(W, L)
  PROVE  /\ now \in Nat /\ waited \in Nat /\ until \in Int /\ attempt \in 0 .. MaxRetries - 1
         /\ Len(results) \in Nat /\ Len(plan) \in Nat /\ Done \in Nat /\ Done <= Len(results) + 1
         /\ W[attempt] \in Nat /\ W[attempt + 1] \in Nat /\ W[MaxRetries - 1] \in Nat
         /\ W[MaxRetries] \in Nat /\ Spent(W) \in Nat
         /\ W[attempt] <= W[MaxRetries - 1] /\ W[attempt] <= W[attempt + 1]
         /\ W[attempt + 1] <= W[MaxRetries]
<1>1. /\ now \in Nat /\ waited \in Nat /\ until \in Int /\ attempt \in 0 .. MaxRetries - 1
      /\ MaxRetries \in Nat \ {0}
  BY TimesAssumption DEF TypeOK
<1>2. Len(results) \in Nat /\ Len(plan) \in Nat /\ Done \in Nat /\ Done <= Len(results) + 1
  BY LenProperties DEF TypeOK, Done
<1>3. /\ attempt \in 0 .. MaxRetries /\ attempt + 1 \in 0 .. MaxRetries
      /\ MaxRetries - 1 \in 0 .. MaxRetries /\ MaxRetries \in 0 .. MaxRetries
      /\ attempt <= MaxRetries - 1 /\ attempt <= attempt + 1 /\ attempt + 1 <= MaxRetries
  BY <1>1
<1>4. /\ W[attempt] \in Nat /\ W[attempt + 1] \in Nat /\ W[MaxRetries - 1] \in Nat
      /\ W[MaxRetries] \in Nat
  BY <1>3 DEF WaitsFit
<1>5. /\ W[attempt] <= W[MaxRetries - 1] /\ W[attempt] <= W[attempt + 1]
      /\ W[attempt + 1] <= W[MaxRetries]
  BY <1>3, Zenon DEF WaitsFit
<1>6. Spent(W) \in Nat
  <2> DEFINE product == Done * W[MaxRetries - 1]
  <2>1. product \in Nat
    BY <1>2, <1>4, ProductNat, Zenon
  <2>2. Spent(W) = waited + product
    BY DEF Spent
  <2> HIDE DEF product
  <2>. QED BY <1>1, <2>1, <2>2
<1>. QED BY <1>1, <1>2, <1>4, <1>5, <1>6

\* Whenever a request is under way, there is time.
LEMMA InTime ==
  ASSUME Inv, NEW W, NEW L \in Nat, WaitsFit(W, L), TimeInv(W, L),
         pc # "ready", waited <= RequestTimeout, ~asked
  PROVE  now < Deadline
<1>1. TypeOK /\ plan # <<>> /\ plan \in Seq(Methods) /\ pc \in {"send", "wait", "sleep"}
  BY DEF Inv, Calling, TypeOK
<1>2. Len(plan) >= 1 /\ Len(results) + Len(plan) <= L
  BY <1>1, PlanParts DEF TimeInv
<1>3. Done \in Nat /\ Done <= L
  BY <1>1, <1>2, TimeTypes
<1>4. Done * W[MaxRetries - 1] <= L * W[MaxRetries - 1] /\ L * W[MaxRetries - 1] \in Nat
      /\ Done * W[MaxRetries - 1] \in Nat
  <2>1. W[MaxRetries - 1] \in Nat
    BY <1>1, TimeTypes
  <2>. QED BY <1>3, <2>1, ProductNat, ProductMonotone, Zenon
<1>5. now <= Spent(W) + W[MaxRetries]
  <2>1. now <= Spent(W) + W[attempt] \/ now <= Spent(W) + W[attempt + 1]
    BY <1>1 DEF TimeInv, Timely
  <2>2. /\ W[attempt] \in Nat /\ W[attempt + 1] \in Nat /\ W[MaxRetries] \in Nat
        /\ W[attempt] <= W[attempt + 1] /\ W[attempt + 1] <= W[MaxRetries]
        /\ now \in Nat /\ Spent(W) \in Nat
    BY <1>1, TimeTypes
  <2>. QED BY <2>1, <2>2
<1>6. RequestTimeout + L * W[MaxRetries - 1] + W[MaxRetries] < Deadline
      /\ RequestTimeout \in Nat /\ Deadline \in Nat
  BY TimesAssumption DEF WaitsFit
<1> DEFINE product == Done * W[MaxRetries - 1]
           most == L * W[MaxRetries - 1]
<1>7. Spent(W) = waited + product
  BY DEF Spent
<1>8. product \in Nat /\ most \in Nat /\ product <= most
  BY <1>4
<1>9. RequestTimeout + most + W[MaxRetries] < Deadline
  BY <1>6
<1> HIDE DEF product, most
<1>10. /\ now \in Nat /\ waited \in Nat /\ W[MaxRetries] \in Nat
       /\ RequestTimeout \in Nat /\ Deadline \in Nat
  BY <1>1, <1>6, TimeTypes
<1>11. now <= waited + product + W[MaxRetries]
  BY <1>5, <1>7
<1>. QED BY <1>8, <1>9, <1>10, <1>11

\* A method returns.
LEMMA ReturnInTime ==
  ASSUME Inv, Inv', NEW W, NEW L \in Nat, WaitsFit(W, L), TimeInv(W, L),
         pc # "ready", NEW result \in {"ok", "error"}, Return(result),
         result = "ok" => pc = "wait", cached' = cached \/ cached' # NoID,
         UNCHANGED <<now, history>>
  PROVE  TimeInv(W, L)'
<1>1. TypeOK /\ TypeOK' /\ plan # <<>> /\ plan \in Seq(Methods)
  BY DEF Inv, Calling, TypeOK
<1> DEFINE new == [method |-> Head(plan), result |-> result, pool |-> reply.pool]
<1>2. /\ results' # <<>> /\ Last(results') = new /\ Len(results') = Len(results) + 1
      /\ pc' = "ready" /\ now' = now /\ waited' = waited /\ asked' = asked
      /\ plan' = IF result = "ok" THEN Tail(plan) ELSE <<>>
  BY <1>1, ReturnParts DEF Last, Return, history
<1>3. new.result = result
  OBVIOUS
<1> HIDE DEF new
<1>4. Failed' <=> result = "error"
  BY <1>2, <1>3 DEF Failed
<1>5. /\ now \in Nat /\ waited \in Nat /\ Len(results) \in Nat /\ Len(plan) \in Nat
      /\ Done \in Nat /\ W[attempt] \in Nat /\ W[MaxRetries - 1] \in Nat
      /\ W[attempt] <= W[MaxRetries - 1] /\ Spent(W) \in Nat
  BY <1>1, TimeTypes
<1>6. plan' # <<>> => Len(results') + Len(plan') <= L
  <2>1. Len(results) + Len(plan) <= L
    BY <1>1 DEF TimeInv
  <2>2. plan' # <<>> => Len(plan') = Len(plan) - 1
    BY <1>1, <1>2, PlanParts
  <2>3. Len(results') = Len(results) + 1
    BY <1>2
  <2>. QED BY <1>5, <2>1, <2>2, <2>3
<1>7. ASSUME waited <= RequestTimeout, ~asked
      PROVE  IF result = "error" THEN now < Deadline ELSE now <= Spent(W)'
  <2>1. CASE result = "error"
    BY <1>7, <2>1, InTime
  <2>2. CASE result = "ok"
    <3>1. now <= Spent(W) + W[attempt]
      BY <1>7, <2>2 DEF TimeInv, Timely
    <3>2. Done' \in Nat /\ Done' >= Done + 1
      <4>1. Len(results') = Len(results) + 1
        BY <1>2
      <4> DEFINE looked == IF cached = NoID THEN 0 ELSE 1
      <4>2. looked \in 0 .. 1 /\ looked' \in 0 .. 1 /\ looked <= looked'
        OBVIOUS
      <4>3. Done = Len(results) + looked /\ Done' = Len(results') + looked'
        BY DEF Done
      <4> HIDE DEF looked
      <4>. QED BY <1>5, <4>1, <4>2, <4>3
    <3> DEFINE s == W[MaxRetries - 1]
    <3>3. Done * s \in Nat /\ Done' * s \in Nat /\ Done * s + s <= Done' * s
      <4>1. Done + 1 \in Nat /\ (Done + 1) * s = Done * s + s /\ Done * s \in Nat
        <5>1. Done + 1 \in Nat
          BY <1>5
        <5>. QED BY <1>5, <5>1, ProductNat, ProductNext, Zenon
      <4>2. (Done + 1) * s <= Done' * s /\ Done' * s \in Nat
        BY <1>5, <3>2, <4>1, ProductNat, ProductMonotone, Zenon
      <4>. QED BY <4>1, <4>2
    <3>4. Spent(W) = waited + Done * s /\ Spent(W)' = waited + Done' * s
      BY <1>2 DEF Spent
    <3> DEFINE before == Done * s
               after == Done' * s
    <3>5. before \in Nat /\ after \in Nat /\ s \in Nat /\ before + s <= after
      BY <1>5, <3>3
    <3>6. Spent(W) = waited + before /\ Spent(W)' = waited + after /\ W[attempt] <= s
      BY <1>5, <3>4
    <3> HIDE DEF before, after, s
    <3>7. now <= Spent(W)'
      BY <1>5, <3>1, <3>5, <3>6
    <3>. QED BY <2>2, <3>7
  <2>. QED BY <2>1, <2>2
<1>8. Timely(W)'
  BY <1>2, <1>4, <1>7 DEF Timely
<1>9. Failed' => plan' = <<>>
  BY <1>2, <1>4
<1>. QED BY <1>6, <1>8, <1>9 DEF TimeInv

\* A step within a method that takes no time: nothing is said of the plan.
LEMMA WithinTime ==
  ASSUME NEW W, NEW L, TimeInv(W, L), UNCHANGED <<plan, results>>, Timely(W)'
  PROVE  TimeInv(W, L)'
BY DEF TimeInv, Failed, Last

\* The wait before the next attempt.
LEMMA SleepInTime ==
  ASSUME Inv, NEW W, NEW L \in Nat, WaitsFit(W, L), TimeInv(W, L), pc = "wait",
         NEW t \in Int, ~asked' => t \in Backoffs(attempt) \/ t = 0, Sleep(t),
         UNCHANGED <<now, cached, waited>>, asked => asked'
  PROVE  TimeInv(W, L)'
<1>1. TypeOK /\ pc' = "sleep" /\ until' = WithinDeadline(now + t) /\ UNCHANGED call
  BY DEF Inv, Sleep
<1>2. /\ now \in Nat /\ attempt \in 0 .. MaxRetries - 1
      /\ W[attempt] \in Nat /\ W[attempt + 1] \in Nat /\ W[attempt] <= W[attempt + 1]
      /\ Spent(W) \in Nat
  BY <1>1, TimeTypes
<1>3. Spent(W)' = Spent(W) /\ attempt' = attempt /\ now' = now
  BY <1>1 DEF Spent, Done, call
<1>4. ASSUME waited <= RequestTimeout, ~asked'
      PROVE  now <= Spent(W) + W[attempt + 1] /\ until' <= Spent(W) + W[attempt + 1]
  <2>1. now <= Spent(W) + W[attempt]
    BY <1>4 DEF TimeInv, Timely
  <2>2. W[attempt] + t <= W[attempt + 1]
    BY <1>2, <1>4 DEF WaitsFit
  <2>3. until' <= now + t
    BY <1>1, <1>2, TimesAssumption DEF WithinDeadline
  <2>4. until' \in Int
    BY <1>1, <1>2, WithinDeadlineType
  <2>. QED BY <1>2, <2>1, <2>2, <2>3, <2>4
<1>5. Timely(W)'
  BY <1>1, <1>3, <1>4 DEF Timely
<1>. QED BY <1>1, <1>5, WithinTime DEF call

\* The steps of the client.
LEMMA ClientInTime ==
  ASSUME Inv, Inv', NEW W, NEW L \in Nat, WaitsFit(W, L), TimeInv(W, L), Client \/ Cancelled
  PROVE  TimeInv(W, L)'
<1>0. TypeOK /\ TypeOK'
  BY DEF Inv
<1>1. ASSUME NEW result \in {"ok", "error"}, Return(result), pc # "ready",
             result = "ok" => pc = "wait", cached' = cached \/ cached' # NoID,
             UNCHANGED <<now, history>>
      PROVE  TimeInv(W, L)'
  BY <1>1, ReturnInTime
<1>2. CASE Call
  <2>1. /\ pc = "ready" /\ pc' = "send" /\ attempt' = 0 /\ plan # <<>>
        /\ UNCHANGED <<now, plan, results, cached, history>>
    BY <1>2 DEF Call
  <2>2. ~Failed
    BY <2>1 DEF TimeInv
  <2>3. Spent(W)' = Spent(W)
    BY <2>1 DEF Spent, Done, history
  <2>4. Spent(W) \in Nat /\ W[attempt'] \in Nat /\ now \in Nat
    <3>1. 0 \in 0 .. MaxRetries
      BY TimesAssumption
    <3>. QED BY <1>0, <2>1, <3>1, TimeTypes DEF WaitsFit
  <2>5. Timely(W)'
    BY <2>1, <2>2, <2>3, <2>4 DEF TimeInv, Timely, history
  <2>. QED BY <2>1, <2>5, WithinTime
<1>3. CASE Send
  <2>1. pc = "send" /\ UNCHANGED <<now, server, cached, history>>
    BY <1>3 DEF Send
  <2>2. CASE now < Deadline
    <3>1. pc' = "wait" /\ UNCHANGED <<plan, results, attempt>>
      BY <1>3, <2>2 DEF Send, call
    <3>2. Timely(W)'
      BY <2>1, <3>1 DEF TimeInv, Timely, Spent, Done, history
    <3>. QED BY <3>1, <3>2, WithinTime
  <2>3. CASE ~(now < Deadline)
    BY <1>1, <1>3, <2>1, <2>3 DEF Send
  <2>. QED BY <2>2, <2>3
<1>4. CASE DoFails
  <2>1. pc = "wait" /\ UNCHANGED <<now, cached, history>>
    BY <1>4 DEF DoFails
  <2>2. CASE WithBackoff(req)
    <3>1. PICK t \in Backoffs(attempt) : Sleep(t)
      BY <1>4, <2>2 DEF DoFails
    <3>2. t \in Int
      BY DEF Backoffs
    <3>. QED BY <2>1, <3>1, <3>2, SleepInTime DEF history
  <2>3. CASE ~WithBackoff(req)
    BY <1>1, <1>4, <2>1, <2>3 DEF DoFails
  <2>. QED BY <2>2, <2>3
<1>5. CASE TooManyRequests
  <2>1. /\ pc = "wait" /\ UNCHANGED <<now, cached, waited>>
        /\ asked' = IF reply.after > 0 THEN TRUE ELSE asked
    BY <1>5 DEF TooManyRequests
  <2>2. asked => asked'
    BY <2>1, Zenon
  <2>3. ~asked' => ~(reply.after > 0)
    BY <2>1, Zenon
  <2>4. PICK t \in IF reply.after = 0 THEN Backoffs(attempt)
                   ELSE {IF reply.after < 0 THEN 0 ELSE reply.after} : Sleep(t)
    BY <1>5 DEF TooManyRequests
  <2>5. reply.after \in Int
    BY <1>0, AfterType
  <2>6. t \in Int /\ (~asked' => t \in Backoffs(attempt) \/ t = 0)
    BY <2>3, <2>4, <2>5 DEF Backoffs
  <2>. QED BY <2>1, <2>2, <2>4, <2>6, SleepInTime
<1>6. CASE ReceivePool
  <2>1. /\ pc = "wait" /\ pc # "ready" /\ req = "pool" /\ reply # NoReply
        /\ UNCHANGED <<now, history>> /\ cached = NoID /\ reply.pool # NoID
    BY <1>6 DEF Inv, Calling, ReceivePool, Answered
  <2>2. CASE reply.code = 200 /\ Head(plan) = "GetQueueLength"
    <3>1. /\ cached' # NoID /\ pc' = "send" /\ attempt' = 0 /\ UNCHANGED <<plan, results>>
      BY <1>6, <2>1, <2>2 DEF ReceivePool, AskForJobs
    <3> DEFINE s == W[MaxRetries - 1]
    <3>2. /\ now \in Nat /\ waited \in Nat /\ Done \in Nat /\ s \in Nat
          /\ W[attempt] \in Nat /\ W[attempt] <= s
      BY <1>0, TimeTypes
    <3>3. Done' = Done + 1
      BY <1>0, <2>1, <3>1, TimeTypes DEF Done
    <3>4. Done * s \in Nat /\ Done' * s = Done * s + s
      BY <3>2, <3>3, ProductNat, ProductNext, Zenon
    <3>5. Spent(W) = waited + Done * s /\ Spent(W)' = waited + Done' * s
      BY <2>1 DEF Spent, history
    <3>6. W[attempt'] \in Nat
      <4>1. 0 \in 0 .. MaxRetries
        BY TimesAssumption
      <4>. QED BY <3>1, <4>1 DEF WaitsFit
    <3> DEFINE before == Done * s
    <3>7. before \in Nat /\ Spent(W) = waited + before /\ Spent(W)' = waited + (before + s)
      BY <3>4, <3>5
    <3> HIDE DEF before, s
    <3>8. ASSUME waited <= RequestTimeout, ~asked PROVE now <= Spent(W)' + W[attempt']
      <4>1. now <= Spent(W) + W[attempt]
        BY <2>1, <3>8 DEF TimeInv, Timely
      <4>. QED BY <3>2, <3>6, <3>7, <4>1
    <3>9. Timely(W)'
      BY <2>1, <3>1, <3>8 DEF Timely, history
    <3>. QED BY <3>1, <3>9, WithinTime
  <2>3. CASE reply.code = 200 /\ Head(plan) # "GetQueueLength"
    BY <1>1, <1>6, <2>1, <2>3 DEF ReceivePool
  <2>4. CASE reply.code # 200
    BY <1>1, <1>6, <2>1, <2>4 DEF ReceivePool
  <2>. QED BY <2>2, <2>3, <2>4
<1>7. CASE ReceiveJobs \/ ReceiveAgents \/ ReceiveDisabled \/ ReceiveDeleted
  <2>1. PICK result \in {"ok", "error"} : Return(result)
    BY <1>7 DEF ReceiveJobs, ReceiveAgents, ReceiveDisabled, ReceiveDeleted, Judge
  <2>2. pc = "wait" /\ UNCHANGED <<now, cached, history>>
    BY <1>7
    DEF ReceiveJobs, ReceiveAgents, ReceiveDisabled, ReceiveDeleted, Judge, Answered
  <2>. QED BY <1>1, <2>1, <2>2
<1>8. CASE Wake
  <2>1. pc = "sleep" /\ UNCHANGED <<now, cached, history>>
    BY <1>8 DEF Wake
  <2>2. CASE now < Deadline /\ attempt + 1 < MaxRetries
    <3>1. pc' = "send" /\ attempt' = attempt + 1 /\ UNCHANGED <<plan, results>>
      BY <1>8, <2>2 DEF Wake
    <3>2. Timely(W)'
      BY <2>1, <3>1 DEF TimeInv, Timely, Spent, Done, history
    <3>. QED BY <3>1, <3>2, WithinTime
  <2>3. CASE ~(now < Deadline /\ attempt + 1 < MaxRetries)
    <3>1. Return("error")
      <4>1. ~(now < Deadline) => Return("error")
        BY <1>8, <2>3 DEF Wake
      <4>. QED BY <1>8, <2>3, <4>1, InTime DEF Wake
    <3>. QED BY <1>1, <2>1, <3>1
  <2>. QED BY <2>2, <2>3
<1>9. CASE Cancelled
  <2>1. pc # "ready" /\ Return("error") /\ UNCHANGED <<now, cached, history>>
    BY <1>9 DEF Cancelled
  <2>. QED BY <1>1, <2>1
<1>. QED
  BY <1>2, <1>3, <1>4, <1>5, <1>6, <1>7, <1>8, <1>9 DEF Client, Receive

\* Time passes.
LEMMA TickInTime ==
  ASSUME Inv, NEW W, NEW L \in Nat, WaitsFit(W, L), TimeInv(W, L), Tick
  PROVE  TimeInv(W, L)'
<1>1. /\ TypeOK /\ pc \in {"wait", "sleep"} /\ now < until /\ now' = now + 1
      /\ waited' = IF pc = "wait" /\ waited <= RequestTimeout THEN waited + 1 ELSE waited
      /\ UNCHANGED <<plan, results, attempt, pc, until, cached, asked>>
  BY DEF Inv, Tick, call
<1> DEFINE product == Done * W[MaxRetries - 1]
<1>2. /\ now \in Nat /\ waited \in Nat /\ until \in Int /\ RequestTimeout \in Nat
      /\ W[attempt] \in Nat /\ W[attempt + 1] \in Nat /\ product \in Nat
  <2>1. Done \in Nat /\ W[MaxRetries - 1] \in Nat
    BY <1>1, TimeTypes
  <2>2. product \in Nat
    BY <2>1, ProductNat, Zenon
  <2>. QED BY <1>1, <2>2, TimeTypes, TimesAssumption
<1>3. Spent(W) = waited + product /\ Spent(W)' = waited' + product
  BY <1>1 DEF Spent, Done
<1> HIDE DEF product
<1>4. CASE pc = "wait"
  <2>1. ASSUME waited' <= RequestTimeout, ~asked PROVE now' <= Spent(W)' + W[attempt]
    <3>1. waited <= RequestTimeout /\ waited' = waited + 1
      BY <1>1, <1>2, <1>4, <2>1
    <3>2. now <= Spent(W) + W[attempt]
      BY <1>4, <2>1, <3>1 DEF TimeInv, Timely
    <3>. QED BY <1>1, <1>2, <1>3, <3>1, <3>2
  <2>2. Timely(W)'
    BY <1>1, <1>4, <2>1 DEF Timely
  <2>. QED BY <1>1, <2>2, WithinTime
<1>5. CASE pc = "sleep"
  <2>1. waited' = waited
    BY <1>1, <1>5
  <2>2. ASSUME waited <= RequestTimeout, ~asked
        PROVE  now' <= Spent(W)' + W[attempt + 1] /\ until <= Spent(W)' + W[attempt + 1]
    <3>1. until <= Spent(W) + W[attempt + 1]
      BY <1>5, <2>2 DEF TimeInv, Timely
    <3>. QED BY <1>1, <1>2, <1>3, <2>1, <3>1
  <2>3. Timely(W)'
    BY <1>1, <1>5, <2>1, <2>2 DEF Timely
  <2>. QED BY <1>1, <2>3, WithinTime
<1>. QED BY <1>1, <1>4, <1>5

\* Every step.
LEMMA NextInTime ==
  ASSUME NEW W, NEW L \in Nat, WaitsFit(W, L)
  PROVE  Inv /\ TimeInv(W, L) /\ [Next]_vars => TimeInv(W, L)'
<1> SUFFICES ASSUME Inv, TimeInv(W, L), [Next]_vars PROVE TimeInv(W, L)'
  OBVIOUS
<1>1. Inv'
  BY NextInv
<1>2. ASSUME UNCHANGED <<now, plan, results, attempt, pc, until, cached, history>>
      PROVE  TimeInv(W, L)'
  BY <1>2 DEF TimeInv, Timely, Failed, Last, Spent, Done, history
<1>3. ASSUME NEW n \in flight, NEW code \in Codes, Serve(n, code) PROVE TimeInv(W, L)'
  BY <1>2, <1>3 DEF Serve, call
<1>4. CASE ReplacePool \/ UNCHANGED vars
  BY <1>2, <1>4 DEF ReplacePool, vars, call
<1>. QED BY <1>1, <1>3, <1>4, ClientInTime, TickInTime DEF Next

(***************************************************************************)
(* A queue length that cannot be had leaves time to report that.  Given    *)
(* that what came before the client and the answers take no more than one  *)
(* time-out together and that the server asks for no wait, the time spent  *)
(* is at most theirs, that of the waits of each request that has succeeded *)
(* and of the waits of the current one: for every back-off, number of      *)
(* attempts and plans for which these end before the deadline, as they do  *)
(* with the client's own numbers.                                          *)
(***************************************************************************)
THEOREM FailuresInTime ==
  ASSUME NEW W, NEW L \in Nat, WaitsFit(W, L)
  PROVE  Spec => []TimeToReport
<1>1. Init => TimeInv(W, L)
  <2> SUFFICES ASSUME Init PROVE TimeInv(W, L)
    OBVIOUS
  <2>1. /\ plan \in Plans /\ results = <<>> /\ pc = "ready" /\ now = waited
        /\ cached = NoID
    BY DEF Init
  <2>2. TypeOK
    BY InitInv DEF Inv
  <2>3. Len(plan) <= L /\ Len(plan) \in Nat /\ Len(results) = 0
    BY <2>1, <2>2, TimeTypes DEF WaitsFit
  <2>4. now <= Spent(W)
    <3> DEFINE product == Done * W[MaxRetries - 1]
    <3>1. Done \in Nat /\ W[MaxRetries - 1] \in Nat /\ now \in Nat
      BY <2>2, TimeTypes
    <3>2. product \in Nat
      BY <3>1, ProductNat, Zenon
    <3>3. Spent(W) = waited + product
      BY DEF Spent
    <3> HIDE DEF product
    <3>. QED BY <2>1, <3>1, <3>2, <3>3
  <2>. QED BY <2>1, <2>3, <2>4 DEF TimeInv, Timely, Failed
<1>2. Inv /\ TimeInv(W, L) /\ [Next]_vars => TimeInv(W, L)'
  BY NextInTime
<1>3. TimeInv(W, L) => TimeToReport
  BY DEF TimeInv, Timely, TimeToReport, Failed
<1>. QED BY <1>1, <1>2, <1>3, AlwaysInv, PTL DEF Spec

-----------------------------------------------------------------------------
(* The calls that change something are those of RemoteCall. *)

Mapped == R!Next \/ UNCHANGED R!vars

\* A method returns.
LEMMA ReturnMapped ==
  ASSUME Inv, pc # "ready", NEW result \in {"ok", "error"}, Return(result),
         gone' = gone, result = "ok" /\ req \in Changes => gone
  PROVE  Mapped
<1>1. TypeOK /\ plan # <<>> /\ plan \in Seq(Methods) /\ req \in RequestsOf(Head(plan))
  BY DEF Inv, Calling, TypeOK
<1>2. req \in Changes <=> Changing(Head(plan))
  BY <1>1, PlanParts, RequestFacts
<1> DEFINE new == [method |-> Head(plan), result |-> result, pool |-> reply.pool]
<1>3. results' # <<>> /\ Last(results') = new
  BY <1>1, ReturnParts DEF Last
<1>4. stageBar' = IF req \in Changes THEN result ELSE "idle"
  <2>1. new.method = Head(plan) /\ new.result = result
    OBVIOUS
  <2> HIDE DEF new
  <2>2. pc' = "ready"
    BY DEF Return
  <2>. QED BY <1>2, <1>3, <2>1, <2>2 DEF stageBar
<1>5. stageBar = IF req \in Changes THEN "open" ELSE "idle"
  BY DEF stageBar
<1>6. CASE req \in Changes /\ result = "ok"
  BY <1>4, <1>5, <1>6 DEF Mapped, R!Next, R!Succeed
<1>7. CASE req \in Changes /\ result = "error"
  BY <1>4, <1>5, <1>7 DEF Mapped, R!Next, R!Fail
<1>8. CASE req \notin Changes
  BY <1>4, <1>5, <1>8 DEF Mapped, R!vars
<1>. QED BY <1>6, <1>7, <1>8

\* Within a method only the server is seen.
LEMMA WithinMapped ==
  ASSUME pc # "ready", pc' # "ready", req' \in Changes <=> req \in Changes, gone' = gone
  PROVE  Mapped
BY DEF Mapped, R!vars, stageBar

\* A method is called.
LEMMA CallMapped ==
  ASSUME Inv, Call
  PROVE  Mapped
<1>1. /\ pc = "ready" /\ pc' = "send" /\ plan # <<>> /\ plan \in Seq(Methods)
      /\ req' = FirstRequest(Head(plan)) /\ gone' = IF req' \in Changes THEN FALSE ELSE gone
  BY DEF Call, Inv, TypeOK
<1>2. req' \in Changes <=> Changing(plan[1])
  BY <1>1, PlanParts, RequestFacts
<1>3. stageBar' = IF req' \in Changes THEN "open" ELSE "idle"
  BY <1>1 DEF stageBar
<1>4. stageBar \in {"idle", "ok"} /\ (stageBar = "ok" => req' \in Changes)
  BY <1>1, <1>2 DEF Inv, PlanLeft, stageBar
<1>5. CASE req' \in Changes
  BY <1>1, <1>3, <1>4, <1>5 DEF Mapped, R!Next, R!Begin
<1>6. CASE req' \notin Changes
  BY <1>1, <1>3, <1>4, <1>6 DEF Mapped, R!vars
<1>. QED BY <1>5, <1>6

\* The server deals with an attempt, of the current method or of one that has been
\* given up.
LEMMA ServeMapped ==
  ASSUME Inv, NEW n \in flight, NEW code \in Codes, Serve(n, code)
  PROVE  Mapped
<1>1. /\ UNCHANGED <<call, pc>>
      /\ gone' \in IF req \notin Changes \/ code = 429 THEN {gone}
                   ELSE IF code = 200 THEN {TRUE} ELSE {gone, TRUE}
  BY DEF Serve
<1>2. stageBar' = stageBar
  BY <1>1 DEF stageBar, call, Last
<1>3. gone' = gone \/ (gone' = TRUE /\ req \in Changes)
  BY <1>1, Zenon
<1>4. req \in Changes => stageBar # "idle"
  <2>1. CASE pc # "ready"
    BY <2>1 DEF stageBar
  <2>2. ASSUME pc = "ready", req \in Changes PROVE stageBar # "idle"
    <3>1. results # <<>> /\ Changing(Last(results).method) /\ results \in Seq(Results)
      BY <2>2 DEF Inv, Resting, TypeOK
    <3>2. Last(results) \in Results
      BY <3>1, EmptySeq, ElementOfSeq DEF Last
    <3>. QED BY <2>2, <3>1, <3>2 DEF stageBar, Results
  <2>. QED BY <2>1, <2>2
<1>5. CASE gone' = gone
  BY <1>2, <1>5 DEF Mapped, R!vars
<1>6. CASE gone' = TRUE /\ req \in Changes
  BY <1>2, <1>4, <1>6 DEF Mapped, R!Next, R!TakeEffect
<1>. QED BY <1>3, <1>5, <1>6

\* Every step is one of RemoteCall or none.
LEMMA NextMapped ==
  ASSUME Inv, [Next]_vars
  PROVE  Mapped
<1>1. ASSUME NEW result \in {"ok", "error"}, Return(result), pc # "ready", UNCHANGED server,
             result = "ok" => (req \in Changes => gone)
      PROVE  Mapped
  BY <1>1, ReturnMapped DEF server
<1>2. CASE Call
  BY <1>2, CallMapped
<1>3. CASE Send
  BY <1>1, <1>3, WithinMapped DEF Send, call, server
<1>4. ASSUME NEW t, Sleep(t), pc = "wait", UNCHANGED server PROVE Mapped
  BY <1>4, WithinMapped DEF Sleep, call, server
<1>5. CASE DoFails
  BY <1>1, <1>4, <1>5 DEF DoFails
<1>6. CASE TooManyRequests
  BY <1>4, <1>6 DEF TooManyRequests
<1>7. CASE ReceivePool
  <2>1. req = "pool" /\ req \notin Changes /\ pc = "wait" /\ UNCHANGED server
    BY <1>7 DEF ReceivePool, Answered, Changes
  <2>2. AskForJobs => Mapped
    BY <2>1, WithinMapped DEF AskForJobs, Changes, server
  <2>. QED BY <1>1, <1>7, <2>1, <2>2 DEF ReceivePool
<1>8. ASSUME NEW r \in {"jobs", "agents", "disable", "delete"}, Answered(r),
             Return(IF r # "agents" /\ reply.code = 200 THEN "ok" ELSE "error")
      PROVE  Mapped
  <2>1. pc = "wait" /\ req = r /\ UNCHANGED server
    BY <1>8 DEF Answered
  <2>2. reply.code = 200 /\ req \in Changes => gone
    BY <2>1 DEF Inv, Calling
  <2>. QED BY <1>1, <1>8, <2>1, <2>2
<1>9. CASE Receive
  BY <1>7, <1>8, <1>9
  DEF Receive, ReceiveJobs, ReceiveAgents, ReceiveDisabled, ReceiveDeleted, Judge
<1>10. CASE Wake
  BY <1>1, <1>10, WithinMapped DEF Wake, server
<1>11. CASE Cancelled
  BY <1>1, <1>11 DEF Cancelled
<1>12. ASSUME NEW n \in flight, NEW code \in Codes, Serve(n, code) PROVE Mapped
  BY <1>12, ServeMapped
<1>13. CASE ReplacePool \/ Tick \/ UNCHANGED vars
  BY <1>13 DEF ReplacePool, Tick, vars, call, server, Mapped, R!vars, stageBar, Last
<1>. QED
  BY <1>2, <1>3, <1>5, <1>6, <1>9, <1>10, <1>11, <1>12, <1>13 DEF Next, Client

(***************************************************************************)
(* The methods of a plan that change something in Azure DevOps are calls   *)
(* of RemoteCall, through all their attempts and whatever becomes of       *)
(* these: each one reports success only if it has taken effect, and after  *)
(* an error, when it may still take effect, no other is begun.  (That it   *)
(* ends is a matter of fairness, and of the run.)                          *)
(***************************************************************************)
THEOREM ClientImplementsRemoteCall == Spec => R!Init /\ [][R!Next]_(R!vars)
<1>1. Init => R!Init
  BY DEF Init, R!Init, stageBar
<1>2. Inv /\ [Next]_vars => [R!Next]_(R!vars)
  BY NextMapped DEF Mapped
<1>. QED BY <1>1, <1>2, AlwaysInv, PTL DEF Spec
=============================================================================
