-------------------------- MODULE CloudBackendsProofs --------------------------
(***************************************************************************)
(* Proofs about RemoteJobs and CloudBackends, for any number of retries and of  *)
(* polls, any pulses and devices: what a call knows of the jobs it created, what *)
(* its answer says of them, and what the status and the result its client reads  *)
(* say of both.  The whole call is a call of RemoteJobs, so what is proved of    *)
(* RemoteJobs holds of it.  What its circuits do to the qubits follows gate by   *)
(* gate from the rotations of PulseCircuits.                                  *)
(***************************************************************************)
EXTENDS CloudBackends, FoldLemmas, TLAPS

\* The loop is bounded by the provider's retries; nothing was sent beyond the current
\* attempt, which is sent when the call awaits its reply.
AttemptsInOrder ==
  /\ attempt <= Retries
  /\ at = "called" => attempt = 0
  /\ at \in {"called", "submit"} => post[attempt] = "none"
  /\ \A b \in Attempts : b > attempt => post[b] = "none"

\* A job exists only for a POST that was served; a reply is read once it is there.
Served ==
  /\ \A a \in Attempts : post[a] \in {"none", "sent"} => job[a] = "none" /\ a \notin read
  /\ \A a \in Attempts : post[a] = "accepted" => job[a] # "none"

\* Of an earlier attempt the client has read at most that it may be repeated; reading
\* the current one's acceptance or refusal ends the loop.
ReadInOrder ==
  /\ \A a \in read : a < attempt => post[a] \in {"busy", "error"}
  /\ attempt \in read => at \in {"poll", "done"}

\* The client polls the job of its current attempt, and has a poll left.
PollsItsJob ==
  /\ at # "done" => polls < MaxPolls
  /\ at = "poll" => jobId = attempt
  /\ jobId # NoJob => /\ jobId = attempt /\ jobId \in read /\ post[jobId] = "accepted"
                      /\ at \in {"poll", "done"}

IInv ==
  /\ TypeOK /\ AttemptsInOrder /\ Served /\ ReadInOrder /\ PollsItsJob
  /\ answer # "none" <=> at = "done"
  /\ AnswersForItsJob

LEMMA InitInv == Init => IInv
BY MaxRetriesAssumption, MaxPollsAssumption
   DEF Init, IInv, TypeOK, AttemptsInOrder, Served, ReadInOrder, PollsItsJob, AnswersForItsJob,
       Attempts, Retries, Providers, NoJob, Replies, Ends

\* What a step that ends or repeats an attempt leaves behind.
LEMMA RetryFacts ==
  ASSUME IInv, Retry \/ (Return("http") /\ UNCHANGED attempt), UNCHANGED provider
  PROVE  \/ /\ attempt' = attempt + 1 /\ attempt' \in Attempts /\ attempt' <= Retries'
            /\ at' = "submit" /\ answer' = answer
         \/ attempt' = attempt /\ at' = "done" /\ answer' = "http"
BY MaxRetriesAssumption DEF IInv, TypeOK, AttemptsInOrder, Retry, Return, Retries, Attempts

\* An attempt that is repeated or given up.
LEMMA RepeatInv ==
  ASSUME IInv, at = "reply", Retry \/ (Return("http") /\ UNCHANGED attempt),
         UNCHANGED <<provider, polls, jobId, post, job>>,
         \/ read' = read
         \/ read' = read \cup {attempt} /\ post[attempt] \in {"busy", "error"}
  PROVE  IInv'
<1>1. \/ /\ attempt' = attempt + 1 /\ attempt' \in Attempts /\ attempt' <= Retries'
         /\ at' = "submit" /\ answer' = answer
      \/ attempt' = attempt /\ at' = "done" /\ answer' = "http"
  BY RetryFacts
<1>2. jobId = NoJob /\ answer = "none" /\ attempt \in Nat /\ attempt \notin read
  BY DEF IInv, PollsItsJob, ReadInOrder, TypeOK, Attempts
<1>3. TypeOK'
  BY <1>1 DEF IInv, TypeOK, Ends
<1>4. AttemptsInOrder'
  BY <1>1, <1>2 DEF IInv, TypeOK, AttemptsInOrder, Retries, Attempts
<1>5. Served'
  BY <1>1, <1>2 DEF IInv, Served
<1>6. ReadInOrder'
  <2>1. CASE attempt' = attempt /\ at' = "done"
    BY <1>2, <2>1 DEF IInv, TypeOK, ReadInOrder, Attempts
  <2>2. CASE attempt' = attempt + 1 /\ attempt' \in Attempts
    <3>1. attempt' \notin read'
      BY <1>2, <2>2 DEF IInv, AttemptsInOrder, Served
    <3>2. ASSUME NEW a \in read', a < attempt'
          PROVE  post[a] \in {"busy", "error"}
      <4>1. a \in read \/ a = attempt
        BY <3>2
      <4>2. a \in Attempts
        BY <4>1 DEF IInv, TypeOK
      <4>3. a < attempt \/ a = attempt
        BY <1>2, <2>2, <3>2, <4>2 DEF Attempts
      <4> QED BY <1>2, <3>2, <4>1, <4>3 DEF IInv, ReadInOrder
    <3> QED BY <3>1, <3>2 DEF ReadInOrder
  <2> QED BY <1>1, <2>1, <2>2
<1>7. PollsItsJob'
  BY <1>1, <1>2 DEF IInv, PollsItsJob, NoJob
<1>8. (answer # "none" <=> at = "done")' /\ AnswersForItsJob'
  BY <1>1, <1>2 DEF IInv, AnswersForItsJob
<1> QED BY <1>3, <1>4, <1>5, <1>6, <1>7, <1>8 DEF IInv

LEMMA ReplyInv ==
  ASSUME IInv, ReplyArrives
  PROVE  IInv'
<1>1. at = "reply" /\ post[attempt] \in Replies /\ read' = read \cup {attempt}
      /\ UNCHANGED <<provider, polls, post, job>>
  BY DEF ReplyArrives
<1>2. jobId = NoJob /\ answer = "none" /\ attempt \in Attempts
  BY <1>1 DEF IInv, TypeOK, PollsItsJob
<1>3. CASE post[attempt] \in {"busy", "error"} /\ Retry /\ UNCHANGED jobId
  BY <1>1, <1>3, RepeatInv
<1>4. CASE /\ post[attempt] \in {"accepted", "refused"} /\ UNCHANGED attempt
           /\ \/ post[attempt] = "accepted" /\ jobId' = attempt /\ at' = "poll" /\ answer' = answer
              \/ jobId' = jobId /\ at' = "done" /\ answer' \in {"http", "refused"}
  <2>1. TypeOK'
    BY <1>1, <1>2, <1>4 DEF IInv, TypeOK, Ends
  <2>2. AttemptsInOrder'
    BY <1>1, <1>4 DEF IInv, AttemptsInOrder, Retries
  <2>3. Served'
    BY <1>1, <1>4 DEF IInv, Served, Replies
  <2>4. ReadInOrder'
    BY <1>1, <1>2, <1>4 DEF IInv, TypeOK, ReadInOrder, Attempts
  <2>5. PollsItsJob'
    BY <1>1, <1>2, <1>4 DEF IInv, PollsItsJob
  <2>6. (answer # "none" <=> at = "done")' /\ AnswersForItsJob'
    BY <1>1, <1>2, <1>4 DEF IInv, AnswersForItsJob
  <2> QED BY <2>1, <2>2, <2>3, <2>4, <2>5, <2>6 DEF IInv
<1> QED BY <1>1, <1>3, <1>4 DEF ReplyArrives, Return

LEMMA PollInv ==
  ASSUME IInv, Poll
  PROVE  IInv'
<1>1. at = "poll" /\ jobId = attempt /\ jobId # NoJob /\ job[jobId] # "none" /\ answer = "none"
      /\ UNCHANGED <<provider, attempt, jobId, read, post, job>>
  BY DEF IInv, TypeOK, PollsItsJob, Served, Poll, Attempts, NoJob
<1>2. \/ at' = "poll" /\ answer' = "none"
      \/ at' = "done" /\ answer' \in Ends
  BY <1>1 DEF Poll, Unfinished, Return, Stay, Ends
<1>3. TypeOK'
  <2>1. polls' \in 0..MaxPolls
    BY <1>1, MaxPollsAssumption DEF IInv, TypeOK, PollsItsJob, Poll, Unfinished
  <2> QED BY <1>1, <1>2, <2>1 DEF IInv, TypeOK
<1>4. AttemptsInOrder' /\ Served' /\ ReadInOrder'
  BY <1>1, <1>2 DEF IInv, AttemptsInOrder, Served, ReadInOrder, Retries, Attempts
<1>7. PollsItsJob'
  <2>1. at' # "done" => polls' < MaxPolls
    BY <1>1 DEF IInv, PollsItsJob, Poll, Unfinished, Return, Stay
  <2> QED BY <1>1, <1>2, <2>1 DEF IInv, PollsItsJob
<1>5. (answer # "none" <=> at = "done")'
  BY <1>2 DEF Ends
<1>6. AnswersForItsJob'
  BY <1>1, MaxPollsAssumption DEF IInv, TypeOK, AnswersForItsJob, Poll, Unfinished, Return, Stay
<1> QED BY <1>3, <1>4, <1>5, <1>6, <1>7 DEF IInv

\* The other steps of the call.
LEMMA CallInv ==
  ASSUME IInv, ExecutePulse \/ SendPost \/ NoReply \/ Dropped
  PROVE  IInv'
<1>1. CASE ExecutePulse
  BY <1>1 DEF ExecutePulse, Return, IInv, TypeOK, AttemptsInOrder, Served, ReadInOrder,
              PollsItsJob, AnswersForItsJob, Retries, Ends
<1>2. CASE SendPost
  <2>1. TypeOK'
    BY <1>2 DEF SendPost, IInv, TypeOK
  <2>2. AttemptsInOrder'
    BY <1>2 DEF SendPost, IInv, TypeOK, AttemptsInOrder, Retries, Attempts
  <2>3. Served'
    BY <1>2 DEF SendPost, IInv, TypeOK, AttemptsInOrder, Served
  <2>4. ReadInOrder' /\ PollsItsJob' /\ (answer # "none" <=> at = "done")' /\ AnswersForItsJob'
    BY <1>2 DEF SendPost, IInv, TypeOK, AttemptsInOrder, Served, ReadInOrder, PollsItsJob, AnswersForItsJob, Attempts
  <2> QED BY <2>1, <2>2, <2>3, <2>4 DEF IInv
<1>3. CASE NoReply
  BY <1>3, RepeatInv DEF NoReply
<1>4. CASE Dropped
  BY <1>4 DEF Dropped, Return, IInv, TypeOK, AttemptsInOrder, Served, ReadInOrder,
              PollsItsJob, AnswersForItsJob, Retries, Ends
<1> QED BY <1>1, <1>2, <1>3, <1>4

\* The service's steps: a POST is served once, and only unfinished jobs end.
LEMMA ServiceInv ==
  ASSUME IInv, Service
  PROVE  IInv'
<1>1. UNCHANGED client
  BY DEF Service, Serve, JobEnds
<1>2. PICK a \in Attempts :
        \/ \E reply \in Replies : Serve(a, reply)
        \/ \E how \in {"ready", "failed"} : JobEnds(a, how)
  BY DEF Service
<1>3. CASE \E reply \in Replies : Serve(a, reply)
  <2>1. PICK reply \in Replies : Serve(a, reply)
    BY <1>3
  <2>2. post[a] = "sent" /\ job[a] = "none" /\ a \notin read
    BY <2>1 DEF Serve, IInv, Served
  <2>3. /\ post' = [post EXCEPT ![a] = reply]
        /\ job' = job \/ job' = [job EXCEPT ![a] = "queued"]
        /\ reply = "accepted" => job' = [job EXCEPT ![a] = "queued"]
    BY <2>1 DEF Serve
  <2>4. TypeOK'
    BY <1>1, <2>3 DEF client, IInv, TypeOK
  <2>5. AttemptsInOrder'
    BY <1>1, <2>2, <2>3 DEF client, IInv, TypeOK, AttemptsInOrder, Retries
  <2>6. Served'
    BY <1>1, <2>2, <2>3 DEF client, IInv, TypeOK, Served, Replies
  <2>7. ReadInOrder' /\ PollsItsJob'
    BY <1>1, <2>2, <2>3 DEF client, IInv, TypeOK, ReadInOrder, PollsItsJob
  <2>8. (answer # "none" <=> at = "done")' /\ AnswersForItsJob'
    BY <1>1, <2>2, <2>3 DEF client, IInv, TypeOK, PollsItsJob, AnswersForItsJob
  <2> QED BY <2>4, <2>5, <2>6, <2>7, <2>8 DEF IInv
<1>4. CASE \E how \in {"ready", "failed"} : JobEnds(a, how)
  <2>1. PICK how \in {"ready", "failed"} : JobEnds(a, how)
    BY <1>4
  <2>2. job[a] = "queued" /\ job' = [job EXCEPT ![a] = how] /\ post' = post
    BY <2>1 DEF JobEnds
  <2>3. TypeOK' /\ AttemptsInOrder' /\ ReadInOrder' /\ PollsItsJob'
    BY <1>1, <2>2 DEF client, IInv, TypeOK, AttemptsInOrder, ReadInOrder, PollsItsJob, Retries
  <2>4. Served'
    BY <1>1, <2>2 DEF client, IInv, TypeOK, Served
  <2>5. (answer # "none" <=> at = "done")' /\ AnswersForItsJob'
    BY <1>1, <2>2 DEF client, IInv, TypeOK, PollsItsJob, AnswersForItsJob
  <2> QED BY <2>3, <2>4, <2>5 DEF IInv
<1> QED BY <1>2, <1>3, <1>4

\* Any step of the call or of the service.
LEMMA StepInv == IInv /\ [Next]_vars => IInv'
<1> SUFFICES ASSUME IInv, [Next]_vars PROVE IInv'
  OBVIOUS
<1>1. CASE Call
  BY <1>1, CallInv, ReplyInv, PollInv DEF Call
<1>2. CASE Dropped
  BY <1>2, CallInv
<1>3. CASE Service
  BY <1>3, ServiceInv
<1>4. CASE UNCHANGED vars
  BY <1>4 DEF vars, client, IInv, TypeOK, AttemptsInOrder, Served, ReadInOrder,
              PollsItsJob, AnswersForItsJob, Retries
<1> QED BY <1>1, <1>2, <1>3, <1>4 DEF Next

\* IInv is an inductive invariant of the call and the service.
THEOREM Invariance == Spec => []IInv
BY InitInv, StepInv, PTL DEF Spec

-----------------------------------------------------------------------------
(* What the invariant says of the properties                                *)

LEMMA InvSettled == IInv => SettledOnce
<1> SUFFICES ASSUME IInv, NEW a \in read, post[a] \in {"accepted", "refused"}
             PROVE  attempt = a /\ \A b \in Attempts : b > a => post[b] = "none" /\ job[b] = "none"
  BY DEF SettledOnce
<1>1. a \in Attempts /\ attempt \in Attempts
  BY DEF IInv, TypeOK
<1>2. ~(a < attempt) /\ ~(a > attempt)
  BY <1>1 DEF IInv, ReadInOrder, AttemptsInOrder
<1>3. attempt = a
  BY <1>1, <1>2 DEF Attempts
<1> QED BY <1>1, <1>3 DEF IInv, AttemptsInOrder, Served

LEMMA InvLeftBehind == IInv => LeftBehindKnowingly
<1> SUFFICES ASSUME IInv, answer \in {"ok", "no_result"}, NEW a \in Attempts, job[a] = "queued"
             PROVE  a < jobId /\ (a \notin read \/ post[a] \in {"busy", "error"})
  BY DEF LeftBehindKnowingly
<1>1. jobId = attempt /\ job[jobId] = "ready"
  BY DEF IInv, AnswersForItsJob, PollsItsJob
<1>2. a # attempt /\ ~(a > attempt)
  BY <1>1 DEF IInv, AttemptsInOrder, Served
<1>3. a < attempt
  BY <1>2 DEF IInv, TypeOK, Attempts
<1> QED BY <1>1, <1>3 DEF IInv, ReadInOrder

LEMMA InvOneJob == IInv => OneJobWithoutRetries
<1> SUFFICES ASSUME IInv, provider # "iqm", NEW a \in Attempts, job[a] # "none"
             PROVE  a = 0
  BY DEF OneJobWithoutRetries
<1>1. attempt <= 0 /\ attempt \in Attempts
  BY DEF IInv, TypeOK, AttemptsInOrder, Retries
<1>2. ~(a > attempt)
  BY DEF IInv, AttemptsInOrder, Served
<1> QED BY <1>1, <1>2, MaxRetriesAssumption DEF Attempts

-----------------------------------------------------------------------------
(* Theorems about the call and its jobs                                     *)

\* Every reachable state has its type: in particular attempts and polls stay in bounds.
THEOREM TypeCorrect == Spec => []TypeOK
<1>1. IInv => TypeOK
  BY DEF IInv
<1> QED BY <1>1, Invariance, PTL

\* After a reply that settles the call's submission no other is sent, so that a second
\* job is created only without the first one's acceptance being known (iqm/client.rs).
THEOREM Settled == Spec => []SettledOnce
BY InvSettled, Invariance, PTL

\* A result or a failure is returned only for the call's own job, when it has ended so.
THEOREM AnswerForJob == Spec => []AnswersForItsJob
<1>1. IInv => AnswersForItsJob
  BY DEF IInv
<1> QED BY <1>1, Invariance, PTL

\* Behind a returned result only such duplicates keep running as the client could not
\* know of.
THEOREM LeftBehind == Spec => []LeftBehindKnowingly
BY InvLeftBehind, Invariance, PTL

\* Without retries one call creates at most one job.
THEOREM OneJob == Spec => []OneJobWithoutRetries
BY InvOneJob, Invariance, PTL

-----------------------------------------------------------------------------
(* The whole call                                                           *)

\* Whoever asked is known, and the pulse since the call began.
Asked ==
  /\ caller \in Callers
  /\ pulse = <<>> <=> at = "called"
  /\ pulse # <<>> => \E p \in Pulses : pulse = <<p>>

\* The client reads a status when the call has returned and somebody is there to read it,
\* and it is one that the way the call ended can become.
StatusOf ==
  /\ status # "none" <=> at = "done" /\ answer # "dropped"
  /\ status = "ok" <=> answer = "ok"
  /\ status \in {"invalid_argument", "deadline_exceeded"} => caller = "grpc"
  /\ caller = "grpc" => (status = "invalid_argument" <=> answer = "invalid_request")
  /\ status = "deadline_exceeded" => answer = "timeout"

\* A POST has been made by the time a call awaits its reply, and by its end unless the
\* request was refused at once or the call dropped; never before, and not for a refused one.
PostMade ==
  /\ at \in {"reply", "poll"} => post[attempt] # "none"
  /\ at = "done" /\ answer \notin {"invalid_request", "dropped"} => \E a \in Attempts : post[a] # "none"
  /\ answer = "invalid_request" => \A a \in Attempts : post[a] = "none"

\* Time can only have run out for a job that was polled.
TimedOut == answer = "timeout" => polls > 0 /\ jobId # NoJob

\* A result is made of what the service returned for as many shots as were asked for.
ResultOf ==
  result # <<>> =>
    \E p \in Pulses : \E out \in Outputs(p.shots) :
      pulse = <<p>> /\ result = <<[device |-> out, result |-> MeasurementResult(out, p.shots)]>>

CloudInv == IInv /\ Asked /\ StatusOf /\ PostMade /\ TimedOut /\ ResultOf

LEMMA CloudInitInv == CloudInit => CloudInv
<1> SUFFICES ASSUME CloudInit PROVE CloudInv
  OBVIOUS
<1>1. Init /\ pulse = <<>> /\ result = <<>> /\ status = "none" /\ caller \in Callers
  BY DEF CloudInit
<1>2. Asked /\ StatusOf /\ PostMade /\ TimedOut /\ ResultOf
  BY <1>1 DEF Init, Asked, StatusOf, PostMade, TimedOut, ResultOf
<1> QED BY <1>1, <1>2, InitInv DEF CloudInv

\* The statuses an error becomes, on either server.
LEMMA StatusFacts ==
  ASSUME NEW who \in Callers, NEW error \in BackendErrors
  PROVE  /\ StatusFor(who, error) \notin {"none", "ok"}
         /\ StatusFor(who, error) = "invalid_argument" <=> who = "grpc" /\ error = "InvalidRequest"
         /\ StatusFor(who, error) = "deadline_exceeded" <=> who = "grpc" /\ error = "Timeout"
<1>1. CASE who = "rest"
  BY <1>1 DEF StatusFor, RestStatus
<1>2. CASE who = "grpc"
  BY <1>2 DEF StatusFor, GrpcStatus, BackendErrors
<1> QED BY <1>1, <1>2 DEF Callers

\* The errors behind the ways a call ends: a fault of the request only when it was
\* refused before anything was sent, a deadline only when time ran out.
LEMMA ErrorFacts ==
  ASSUME NEW how \in Ends, how # "ok", NEW error \in Errors(how)
  PROVE  /\ error \in BackendErrors
         /\ error = "InvalidRequest" <=> how = "invalid_request"
         /\ error = "Timeout" <=> how = "timeout"
BY DEF Errors, Ends, BackendErrors

\* Answered gives a client the status that belongs to the end of its call.
LEMMA AnsweredStatus ==
  ASSUME CloudInv, at # "done", Answered, UNCHANGED caller,
         at' = "done" => answer' \in Ends, at' # "done" => answer' = "none"
  PROVE  StatusOf'
<1>1. status = "none" /\ caller \in Callers
  BY DEF CloudInv, StatusOf, Asked
<1>2. CASE at' # "done" \/ answer' = "dropped"
  BY <1>1, <1>2 DEF Answered, StatusOf
<1>3. CASE at' = "done" /\ answer' = "ok"
  BY <1>1, <1>3 DEF Answered, StatusOf
<1>4. CASE at' = "done" /\ answer' \notin {"ok", "dropped"}
  <2>1. PICK error \in Errors(answer') : status' = StatusFor(caller, error)
    BY <1>4 DEF Answered
  <2>2. /\ error \in BackendErrors
        /\ error = "InvalidRequest" <=> answer' = "invalid_request"
        /\ error = "Timeout" <=> answer' = "timeout"
    BY <1>4, <2>1, ErrorFacts
  <2>3. /\ status' \notin {"none", "ok"}
        /\ status' = "invalid_argument" <=> caller = "grpc" /\ error = "InvalidRequest"
        /\ status' = "deadline_exceeded" <=> caller = "grpc" /\ error = "Timeout"
    BY <1>1, <2>1, <2>2, StatusFacts
  <2> QED BY <1>4, <2>2, <2>3 DEF StatusOf
<1> QED BY <1>2, <1>3, <1>4

\* What a call's own step does to the way it ends.
LEMMA CallEnds ==
  ASSUME IInv, Call
  PROVE  /\ at # "done" /\ UNCHANGED provider
         /\ at' = "done" => answer' \in Ends
         /\ at' # "done" => answer' = "none"
<1>1. IInv'
  BY StepInv DEF Next
<1>2. (at' = "done" => answer' \in Ends) /\ (at' # "done" => answer' = "none")
  BY <1>1 DEF IInv, TypeOK
<1> QED BY <1>2 DEF Call, ExecutePulse, SendPost, ReplyArrives, NoReply, Poll

\* The request is checked: a refusal before anything was sent, or the first attempt.
LEMMA BeginInv ==
  ASSUME CloudInv, NEW p \in Pulses, Begin(p)
  PROVE  CloudInv'
<1>1. /\ ExecutePulse /\ pulse' = <<p>> /\ Answered /\ UNCHANGED <<caller, result>>
  BY DEF Begin
<1>2. IInv'
  BY <1>1, StepInv DEF CloudInv, Next, Call
<1>3. /\ at = "called" /\ at' \in {"submit", "done"} /\ UNCHANGED <<provider, attempt, polls, jobId, post, job>>
      /\ at' = "done" => answer' = "invalid_request"
  BY <1>1 DEF ExecutePulse, Return
<1>4. Asked'
  BY <1>1, <1>3 DEF CloudInv, Asked
<1>5. StatusOf'
  BY <1>1, AnsweredStatus, CallEnds DEF CloudInv, Call
<1>6. PostMade'
  <2>1. \A a \in Attempts : post[a] = "none"
    BY <1>3, MaxRetriesAssumption DEF CloudInv, IInv, AttemptsInOrder, Attempts
  <2>2. at' # "done" => answer' = "none"
    BY <1>1, CallEnds DEF CloudInv, Call
  <2> QED BY <1>3, <2>1, <2>2 DEF PostMade
<1>7. TimedOut'
  BY <1>1, <1>3, CallEnds DEF CloudInv, TimedOut, Call
<1>8. ResultOf'
  <2>1. result = <<>>
    BY <1>3 DEF CloudInv, Asked, ResultOf
  <2> QED BY <1>1, <2>1 DEF ResultOf
<1> QED BY <1>2, <1>4, <1>5, <1>6, <1>7, <1>8 DEF CloudInv

\* Submissions and their replies: the pulse stays, and no result is made.
LEMMA UnderwayInv ==
  ASSUME CloudInv, Underway
  PROVE  CloudInv'
<1>1. SendPost \/ ReplyArrives \/ NoReply
  BY DEF Underway
<1>2. Answered /\ UNCHANGED <<caller, pulse, circuit, result>>
  BY DEF Underway
<1>3. IInv' /\ Call
  BY <1>1, StepInv DEF CloudInv, Next, Call
<1>4. /\ at \in {"submit", "reply"} /\ at' # "called" /\ UNCHANGED <<provider, polls>>
      /\ answer' \in {"none", "refused", "http"}
  BY <1>1, <1>3, CallEnds DEF CloudInv, SendPost, ReplyArrives, NoReply, Retry, Return
<1>5. Asked'
  BY <1>2, <1>4 DEF CloudInv, Asked
<1>6. StatusOf'
  BY <1>2, <1>3, AnsweredStatus, CallEnds DEF CloudInv
<1>7. PostMade'
  <2>1. CASE SendPost
    BY <2>1, <1>3, <1>4, CallEnds DEF CloudInv, IInv, TypeOK, SendPost, PostMade
  <2>2. CASE ReplyArrives \/ NoReply
    <3>1. at = "reply" /\ post' = post /\ post[attempt] # "none" /\ attempt \in Attempts
      BY <2>2 DEF CloudInv, PostMade, ReplyArrives, NoReply, IInv, TypeOK
    <3>2. at' = "poll" => attempt' = attempt
      BY <2>2 DEF ReplyArrives, NoReply, Retry, Return
    <3>3. at' # "reply"
      BY <2>2 DEF ReplyArrives, NoReply, Retry, Return
    <3> QED BY <1>4, <3>1, <3>2, <3>3 DEF PostMade
  <2> QED BY <1>1, <2>1, <2>2
<1>8. TimedOut'
  BY <1>4 DEF TimedOut
<1>9. ResultOf'
  BY <1>2, <1>4 DEF CloudInv, ResultOf, Outputs, MeasurementResult, Quality
<1> QED BY <1>3, <1>5, <1>6, <1>7, <1>8, <1>9 DEF CloudInv

\* A poll, and the result made of a finished job.
LEMMA PollJobInv ==
  ASSUME CloudInv, PollJob
  PROVE  CloudInv'
<1>1. Poll /\ Answered /\ UNCHANGED <<caller, pulse, circuit>>
  BY DEF PollJob
<1>2. IInv' /\ Call
  BY <1>1, StepInv DEF CloudInv, Next, Call
<1>3. /\ at = "poll" /\ at' \in {"poll", "done"} /\ UNCHANGED <<provider, attempt, jobId, post>>
      /\ answer' # "invalid_request"
  BY <1>1, <1>2 DEF Poll, Unfinished, Return, Stay, CloudInv, IInv
<1>4. Asked'
  BY <1>1, <1>3 DEF CloudInv, Asked
<1>5. StatusOf'
  BY <1>1, <1>2, AnsweredStatus, CallEnds DEF CloudInv
<1>6. PostMade'
  BY <1>3 DEF CloudInv, IInv, TypeOK, PostMade
<1>7. TimedOut'
  <2>1. jobId # NoJob
    BY <1>3 DEF CloudInv, IInv, TypeOK, PollsItsJob, Attempts, NoJob
  <2>2. answer' = "timeout" => polls' > 0
    BY <1>1, <1>3 DEF CloudInv, IInv, TypeOK, Poll, Unfinished, Return, Stay
  <2> QED BY <1>3, <2>1, <2>2 DEF TimedOut
<1>8. ResultOf'
  <2>1. PICK p \in Pulses : pulse = <<p>>
    BY <1>3 DEF CloudInv, Asked
  <2>2. CASE answer' \in {"ok", "no_result"}
    <3>1. PICK out \in Outputs(p.shots) :
            result' = IF answer' = "ok"
                        THEN <<[device |-> out, result |-> MeasurementResult(out, p.shots)]>>
                        ELSE <<>>
      BY <2>1, <2>2 DEF PollJob
    <3>2. MeasurementResult(out, p.shots)' = MeasurementResult(out, p.shots)
      BY <1>3 DEF MeasurementResult, Quality
    <3> QED BY <1>1, <2>1, <3>1, <3>2 DEF ResultOf
  <2>3. CASE answer' \notin {"ok", "no_result"}
    BY <1>1, <1>3, <2>3 DEF PollJob, CloudInv, ResultOf, MeasurementResult, Quality
  <2> QED BY <2>2, <2>3
<1> QED BY <1>2, <1>4, <1>5, <1>6, <1>7, <1>8 DEF CloudInv

\* The caller goes away, or the service does something: nothing of the call's own moves.
LEMMA OutsideInv ==
  ASSUME CloudInv, Dropped \/ Service, UNCHANGED own
  PROVE  CloudInv'
<1>1. IInv'
  BY StepInv DEF CloudInv, Next
<1>2. UNCHANGED <<caller, pulse, circuit, result, status>>
  BY DEF own
<1>3. CASE Dropped
  <2>1. /\ at \notin {"called", "done"} /\ at' = "done" /\ answer' = "dropped"
        /\ UNCHANGED <<provider, attempt, polls, jobId, post>>
    BY <1>3 DEF Dropped, Return
  <2>2. answer = "none" /\ status = "none"
    BY <2>1 DEF CloudInv, IInv, StatusOf
  <2>3. Asked' /\ StatusOf' /\ PostMade' /\ TimedOut'
    BY <1>2, <2>1, <2>2 DEF CloudInv, Asked, StatusOf, PostMade, TimedOut
  <2>4. ResultOf'
    BY <1>2, <2>1 DEF CloudInv, ResultOf, MeasurementResult, Quality
  <2> QED BY <1>1, <2>3, <2>4 DEF CloudInv
<1>4. CASE Service
  <2>1. UNCHANGED client
    BY <1>4 DEF Service, Serve, JobEnds
  <2>2. \A a \in Attempts : post'[a] = "none" <=> post[a] = "none"
    BY <1>4 DEF Service, Serve, JobEnds, CloudInv, IInv, TypeOK, Replies
  <2>3. Asked' /\ StatusOf' /\ TimedOut'
    BY <1>2, <2>1 DEF client, CloudInv, Asked, StatusOf, TimedOut
  <2>4. PostMade'
    BY <2>1, <2>2 DEF client, CloudInv, IInv, TypeOK, PostMade
  <2>5. ResultOf'
    BY <1>2, <2>1 DEF client, CloudInv, ResultOf, MeasurementResult, Quality
  <2> QED BY <1>1, <2>3, <2>4, <2>5 DEF CloudInv
<1> QED BY <1>3, <1>4

LEMMA CloudStepInv == CloudInv /\ [CloudNext]_cloudVars => CloudInv'
<1> SUFFICES ASSUME CloudInv, [CloudNext]_cloudVars PROVE CloudInv'
  OBVIOUS
<1>1. CASE \E p \in Pulses : Begin(p)
  BY <1>1, BeginInv
<1>2. CASE PollJob
  BY <1>2, PollJobInv
<1>3. CASE Underway
  BY <1>3, UnderwayInv
<1>4. CASE (Dropped \/ Service) /\ UNCHANGED own
  BY <1>4, OutsideInv
<1>5. CASE UNCHANGED cloudVars
  <2>1. UNCHANGED vars /\ UNCHANGED own
    BY <1>5 DEF cloudVars
  <2>2. IInv'
    BY <2>1, StepInv DEF CloudInv
  <2>3. Asked' /\ StatusOf' /\ PostMade' /\ TimedOut'
    BY <2>1 DEF vars, client, own, CloudInv, Asked, StatusOf, PostMade, TimedOut
  <2>4. ResultOf'
    BY <2>1 DEF vars, client, own, CloudInv, ResultOf, MeasurementResult, Quality
  <2> QED BY <2>2, <2>3, <2>4 DEF CloudInv
<1> QED BY <1>1, <1>2, <1>3, <1>4, <1>5 DEF CloudNext, CloudCall

-----------------------------------------------------------------------------
(* Theorems about the whole call                                            *)

\* The inductive invariant of the whole call: which pulse it is about, what the status
\* says of its end, by when a POST was made, what a result is made of.
THEOREM CloudInvariance == CloudSpec => []CloudInv
BY CloudInitInv, CloudStepInv, PTL DEF CloudSpec

\* The whole call is a call of RemoteJobs: with compilation, results and statuses around
\* it, a job is submitted, polled and left as RemoteJobs has it (the backends'
\* execute_pulse over their clients).
THEOREM CallsAreJobs == CloudSpec => Init /\ [][Next]_vars
<1>1. CloudInit => Init
  BY DEF CloudInit
<1>2. [CloudNext]_cloudVars => [Next]_vars
  BY DEF CloudNext, CloudCall, Begin, PollJob, Underway, Next, Call, cloudVars
<1> QED BY <1>1, <1>2, PTL DEF CloudSpec

\* A gRPC client is told that its request was at fault exactly when nothing was
\* submitted, and that time ran out only for a job it had; a result is called one
\* (error.rs From<Error>, the error paths of the backends and their clients).
THEOREM StatusHonest == CloudSpec => []StatusTellsWhetherRan
<1>1. CloudInv => StatusTellsWhetherRan
  <2> SUFFICES ASSUME CloudInv, status # "none" PROVE StatusTellsWhetherRan
    BY DEF StatusTellsWhetherRan
  <2>1. at = "done" /\ answer # "dropped"
    BY DEF CloudInv, StatusOf
  <2>2. answer = "invalid_request" <=> \A a \in Attempts : post[a] = "none"
    BY <2>1 DEF CloudInv, PostMade
  <2> QED BY <2>1, <2>2 DEF CloudInv, StatusOf, TimedOut, StatusTellsWhetherRan
<1> QED BY <1>1, CloudInvariance, PTL

\* Shots the device did not deliver show in every result, and on IQM full success means
\* every shot (iqm/mod.rs determine_quality, ibm/mod.rs and braket/mod.rs execute_pulse).
THEOREM ShortfallsShow == CloudSpec => []ShortfallShown
<1>1. CloudInv => ShortfallShown
  <2> SUFFICES ASSUME CloudInv, result # <<>> PROVE ShortfallShown
    BY DEF ShortfallShown
  <2>1. PICK p \in Pulses : \E out \in Outputs(p.shots) :
          pulse = <<p>> /\ result = <<[device |-> out, result |-> MeasurementResult(out, p.shots)]>>
    BY DEF CloudInv, ResultOf
  <2>2. PICK out \in Outputs(p.shots) :
          pulse = <<p>> /\ result = <<[device |-> out, result |-> MeasurementResult(out, p.shots)]>>
    BY <2>1
  <2>3. p.shots \in Nat /\ out.measured \in 0..p.shots /\ provider \in Providers
    BY CloudAssumption DEF PulseType, Outputs, CloudInv, IInv, TypeOK
  <2> DEFINE r == MeasurementResult(out, p.shots)
  <2>4. pulse[1] = p /\ result[1].device = out /\ result[1].result = r
    BY <2>2
  <2>5. CASE provider = "iqm"
    <3>1. r = [counted |-> out.measured, total |-> out.measured, successful |-> out.measured,
               quality |-> Quality(out, p.shots)]
      BY <2>5 DEF MeasurementResult
    <3>2. r.quality = "FullSuccess" => out.measured = p.shots /\ ~out.warned
      BY <2>3, <3>1 DEF Quality
    <3> QED BY <2>3, <2>4, <2>5, <3>1, <3>2 DEF ShortfallShown
  <2>6. CASE provider = "ibm"
    <3>1. r = [counted |-> out.measured, total |-> p.shots, successful |-> out.measured,
               quality |-> "FullSuccess"]
      BY <2>6 DEF MeasurementResult
    <3> QED BY <2>3, <2>4, <2>6, <3>1 DEF ShortfallShown
  <2>7. CASE provider = "braket"
    <3>1. r = [counted |-> IF out.data THEN out.measured ELSE 0, total |-> p.shots,
               successful |-> IF out.reported THEN out.measured ELSE p.shots, quality |-> "FullSuccess"]
      BY <2>7 DEF MeasurementResult
    <3> QED BY <2>3, <2>4, <2>7, <3>1 DEF ShortfallShown
  <2> QED BY <2>3, <2>5, <2>6, <2>7 DEF Providers
<1> QED BY <1>1, CloudInvariance, PTL

\* What was proved of the call and its jobs holds of the whole call.
THEOREM CloudSettled == CloudSpec => []SettledOnce
<1>1. CloudInv => SettledOnce
  BY InvSettled DEF CloudInv
<1> QED BY <1>1, CloudInvariance, PTL

\* AnswerForJob for the whole call: a result and its status are those of its own job.
THEOREM CloudAnswerForJob == CloudSpec => []AnswersForItsJob
<1>1. CloudInv => AnswersForItsJob
  BY DEF CloudInv, IInv
<1> QED BY <1>1, CloudInvariance, PTL

\* LeftBehind for the whole call.
THEOREM CloudLeftBehind == CloudSpec => []LeftBehindKnowingly
<1>1. CloudInv => LeftBehindKnowingly
  BY InvLeftBehind DEF CloudInv
<1> QED BY <1>1, CloudInvariance, PTL

-----------------------------------------------------------------------------
(* Circuits                                                                  *)

Vectors == Int \X Int \X Int
Gates == [name : {"rz", "rx", "sx", "prx", "cz", "measure"}, qubit : Int, angle : Int, phase : Int]

\* What a gate does to a qubit, and a circuit from a vector on.
Step(gate, q, v) == IF gate.qubit = q THEN Applied(gate, v) ELSE v
After(v, c, q) == FoldLeft(LAMBDA u, gate : IF gate.qubit = q THEN Applied(gate, u) ELSE u, v, c)

LEMMA RotationsTyped ==
  ASSUME NEW v \in Vectors, NEW n \in Int
  PROVE  RotatedZ(v, n) \in Vectors /\ RotatedX(v, n) \in Vectors
<1>1. v[1] \in Int /\ v[2] \in Int /\ v[3] \in Int /\ -v[1] \in Int /\ -v[2] \in Int /\ -v[3] \in Int
  BY DEF Vectors
<1>2. n % 4 \in 0..3
  OBVIOUS
<1>3. n % 4 = 0 \/ n % 4 = 1 \/ n % 4 = 2 \/ n % 4 = 3
  BY <1>2
<1> QED
  BY <1>1, <1>3 DEF RotatedZ, RotatedX, Vectors

\* Two rotations about one axis are the rotation by their sum.
LEMMA RotationsAdd ==
  ASSUME NEW v \in Vectors, NEW m \in Int, NEW n \in Int
  PROVE  /\ RotatedZ(RotatedZ(v, m), n) = RotatedZ(v, m + n)
         /\ RotatedX(RotatedX(v, m), n) = RotatedX(v, m + n)
<1>1. PICK a \in Int, b \in Int, c \in Int : v = <<a, b, c>>
  BY DEF Vectors
<1>2. m % 4 = 0 \/ m % 4 = 1 \/ m % 4 = 2 \/ m % 4 = 3
  OBVIOUS
<1>3. n % 4 = 0 \/ n % 4 = 1 \/ n % 4 = 2 \/ n % 4 = 3
  OBVIOUS
<1>4. (m + n) % 4 = ((m % 4) + (n % 4)) % 4
  OBVIOUS
<1>5. \A i, j \in 0..3 : (i + j) % 4 = IF i + j < 4 THEN i + j ELSE i + j - 4
  OBVIOUS
<1>6. /\ - - a = a /\ - - b = b /\ - - c = c
  OBVIOUS
<1>7. (m + n) % 4 = IF (m % 4) + (n % 4) < 4 THEN (m % 4) + (n % 4) ELSE (m % 4) + (n % 4) - 4
  BY <1>2, <1>3, <1>4, <1>5
<1>8. CASE m % 4 = 0
  <2>1. /\ RotatedZ(v, m) = <<a, b, c>> /\ RotatedX(v, m) = <<a, b, c>>
    BY <1>1, <1>8 DEF RotatedZ, RotatedX
  <2>2. CASE n % 4 = 0
    <3>1. (m + n) % 4 = 0
      BY <1>7, <1>8, <2>2
    <3> QED
      BY <1>1, <1>6, <2>2, <2>1, <3>1 DEF RotatedZ, RotatedX
  <2>3. CASE n % 4 = 1
    <3>1. (m + n) % 4 = 1
      BY <1>7, <1>8, <2>3
    <3> QED
      BY <1>1, <1>6, <2>3, <2>1, <3>1 DEF RotatedZ, RotatedX
  <2>4. CASE n % 4 = 2
    <3>1. (m + n) % 4 = 2
      BY <1>7, <1>8, <2>4
    <3> QED
      BY <1>1, <1>6, <2>4, <2>1, <3>1 DEF RotatedZ, RotatedX
  <2>5. CASE n % 4 = 3
    <3>1. (m + n) % 4 = 3
      BY <1>7, <1>8, <2>5
    <3> QED
      BY <1>1, <1>6, <2>5, <2>1, <3>1 DEF RotatedZ, RotatedX
  <2> QED
    BY <1>3, <2>2, <2>3, <2>4, <2>5
<1>9. CASE m % 4 = 1
  <2>1. /\ RotatedZ(v, m) = <<-b, a, c>> /\ RotatedX(v, m) = <<a, -c, b>>
    BY <1>1, <1>9 DEF RotatedZ, RotatedX
  <2>2. CASE n % 4 = 0
    <3>1. (m + n) % 4 = 1
      BY <1>7, <1>9, <2>2
    <3> QED
      BY <1>1, <1>6, <2>2, <2>1, <3>1 DEF RotatedZ, RotatedX
  <2>3. CASE n % 4 = 1
    <3>1. (m + n) % 4 = 2
      BY <1>7, <1>9, <2>3
    <3> QED
      BY <1>1, <1>6, <2>3, <2>1, <3>1 DEF RotatedZ, RotatedX
  <2>4. CASE n % 4 = 2
    <3>1. (m + n) % 4 = 3
      BY <1>7, <1>9, <2>4
    <3> QED
      BY <1>1, <1>6, <2>4, <2>1, <3>1 DEF RotatedZ, RotatedX
  <2>5. CASE n % 4 = 3
    <3>1. (m + n) % 4 = 0
      BY <1>7, <1>9, <2>5
    <3> QED
      BY <1>1, <1>6, <2>5, <2>1, <3>1 DEF RotatedZ, RotatedX
  <2> QED
    BY <1>3, <2>2, <2>3, <2>4, <2>5
<1>10. CASE m % 4 = 2
  <2>1. /\ RotatedZ(v, m) = <<-a, -b, c>> /\ RotatedX(v, m) = <<a, -b, -c>>
    BY <1>1, <1>10 DEF RotatedZ, RotatedX
  <2>2. CASE n % 4 = 0
    <3>1. (m + n) % 4 = 2
      BY <1>7, <1>10, <2>2
    <3> QED
      BY <1>1, <1>6, <2>2, <2>1, <3>1 DEF RotatedZ, RotatedX
  <2>3. CASE n % 4 = 1
    <3>1. (m + n) % 4 = 3
      BY <1>7, <1>10, <2>3
    <3> QED
      BY <1>1, <1>6, <2>3, <2>1, <3>1 DEF RotatedZ, RotatedX
  <2>4. CASE n % 4 = 2
    <3>1. (m + n) % 4 = 0
      BY <1>7, <1>10, <2>4
    <3> QED
      BY <1>1, <1>6, <2>4, <2>1, <3>1 DEF RotatedZ, RotatedX
  <2>5. CASE n % 4 = 3
    <3>1. (m + n) % 4 = 1
      BY <1>7, <1>10, <2>5
    <3> QED
      BY <1>1, <1>6, <2>5, <2>1, <3>1 DEF RotatedZ, RotatedX
  <2> QED
    BY <1>3, <2>2, <2>3, <2>4, <2>5
<1>11. CASE m % 4 = 3
  <2>1. /\ RotatedZ(v, m) = <<b, -a, c>> /\ RotatedX(v, m) = <<a, c, -b>>
    BY <1>1, <1>11 DEF RotatedZ, RotatedX
  <2>2. CASE n % 4 = 0
    <3>1. (m + n) % 4 = 3
      BY <1>7, <1>11, <2>2
    <3> QED
      BY <1>1, <1>6, <2>2, <2>1, <3>1 DEF RotatedZ, RotatedX
  <2>3. CASE n % 4 = 1
    <3>1. (m + n) % 4 = 0
      BY <1>7, <1>11, <2>3
    <3> QED
      BY <1>1, <1>6, <2>3, <2>1, <3>1 DEF RotatedZ, RotatedX
  <2>4. CASE n % 4 = 2
    <3>1. (m + n) % 4 = 1
      BY <1>7, <1>11, <2>4
    <3> QED
      BY <1>1, <1>6, <2>4, <2>1, <3>1 DEF RotatedZ, RotatedX
  <2>5. CASE n % 4 = 3
    <3>1. (m + n) % 4 = 2
      BY <1>7, <1>11, <2>5
    <3> QED
      BY <1>1, <1>6, <2>5, <2>1, <3>1 DEF RotatedZ, RotatedX
  <2> QED
    BY <1>3, <2>2, <2>3, <2>4, <2>5
<1> QED
  BY <1>2, <1>8, <1>9, <1>10, <1>11

\* No rotation, and one undone.
LEMMA RotationUndone ==
  ASSUME NEW v \in Vectors, NEW n \in Int
  PROVE  RotatedZ(v, 0) = v /\ RotatedX(v, 0) = v /\ RotatedZ(RotatedZ(v, n), -n) = v
<1>1. RotatedZ(v, 0) = v /\ RotatedX(v, 0) = v
  BY DEF RotatedZ, RotatedX
<1>2. n + (-n) = 0 /\ -n \in Int
  OBVIOUS
<1> QED
  BY <1>1, <1>2, RotationsAdd

LEMMA StepTyped ==
  ASSUME NEW gate \in Gates, NEW q \in Int, NEW v \in Vectors
  PROVE  Step(gate, q, v) \in Vectors
<1>1. gate.angle \in Int /\ gate.phase \in Int /\ -gate.phase \in Int
  BY DEF Gates
<1>2. RotatedZ(v, gate.angle) \in Vectors /\ RotatedX(v, gate.angle) \in Vectors
  BY <1>1, RotationsTyped
<1>3. RotatedZ(RotatedX(RotatedZ(v, -gate.phase), gate.angle), gate.phase) \in Vectors
  BY <1>1, RotationsTyped
<1>4. Applied(gate, v) \in Vectors
  <2>1. CASE gate.name = "rz"
    BY <1>2, <2>1 DEF Applied
  <2>2. CASE gate.name = "rx" \/ gate.name = "sx"
    BY <1>2, <2>2 DEF Applied
  <2>3. CASE gate.name = "prx"
    BY <1>3, <2>3 DEF Applied
  <2>4. CASE gate.name \notin {"rz", "rx", "sx", "prx"}
    BY <2>4 DEF Applied
  <2> QED
    BY <2>1, <2>2, <2>3, <2>4
<1> QED
  BY <1>4 DEF Step

\* The vectors a circuit goes through.
LEMMA AfterRuns ==
  ASSUME NEW c \in Seq(Gates), NEW q \in Int, NEW v \in Vectors
  PROVE  \E w \in [0..Len(c) -> Vectors] :
           /\ w[0] = v /\ After(v, c, q) = w[Len(c)]
           /\ \A k \in 1..Len(c) : w[k] = Step(c[k], q, w[k - 1])
<1> DEFINE n == Len(c)
           Is(g) == g = [t \in SUBSET (1..n) |->
                           IF t = {} THEN v
                           ELSE IF c[Max(t)].qubit = q THEN Applied(c[Max(t)], g[t \ {Max(t)}])
                                ELSE g[t \ {Max(t)}]]
           f == CHOOSE g : Is(g)
           G == [p \in (1..n) \X Vectors |-> Step(c[p[1]], q, p[2])]
<1>1. DOMAIN c = 1..n /\ n \in Nat
  OBVIOUS
<1>2. After(v, c, q) = f[1..n]
  BY <1>1 DEF After, FoldLeft, MapThenFoldSet
<1>3. \A k \in 1..n : c[k] \in Gates
  BY <1>1
<1>4. G \in [(1..n) \X Vectors -> Vectors]
  BY <1>3, StepTyped
<1>5. PICK h \in [SUBSET (1..n) -> Vectors] : IsFold(h, n, v, G)
  <2> HIDE DEF G
  <2>1. n \in Nat
    BY <1>1
  <2> HIDE DEF n
  <2> QED
    BY <1>4, <2>1, FoldExists
<1>6. ASSUME NEW t \in SUBSET (1..n), t # {}
      PROVE  h[t] = Step(c[Max(t)], q, h[t \ {Max(t)}])
  <2>1. Max(t) \in 1..n /\ t \ {Max(t)} \in SUBSET (1..n)
    BY <1>1, <1>6, MaxFacts
  <2>2. h[t] = G[<<Max(t), h[t \ {Max(t)}]>>] /\ h[t \ {Max(t)}] \in Vectors
    BY <1>5, <1>6, <2>1 DEF IsFold
  <2> QED
    BY <2>1, <2>2
<1>7. Is(h)
  <2>1. h[{}] = v /\ {} \in SUBSET (1..n)
    BY <1>5 DEF IsFold
  <2>2. \A t \in SUBSET (1..n) :
          h[t] = IF t = {} THEN v
                 ELSE IF c[Max(t)].qubit = q THEN Applied(c[Max(t)], h[t \ {Max(t)}])
                      ELSE h[t \ {Max(t)}]
    BY <1>6, <2>1 DEF Step
  <2> HIDE DEF G
  <2> QED
    BY <1>5, <2>2
<1> HIDE DEF G
<1>8. Is(f)
  BY <1>7
<1> HIDE DEF f
<1>9. f[{}] = v /\ \A t \in SUBSET (1..n) : t # {} => f[t] = Step(c[Max(t)], q, f[t \ {Max(t)}])
  BY <1>8 DEF Step
<1>10. ASSUME NEW t \in SUBSET (1..n), t # {}, f[t \ {Max(t)}] \in Vectors PROVE f[t] \in Vectors
  <2>1. Max(t) \in 1..n
    BY <1>1, <1>10, MaxFacts
  <2>2. c[Max(t)] \in Gates /\ f[t] = Step(c[Max(t)], q, f[t \ {Max(t)}])
    BY <1>3, <1>9, <1>10, <2>1
  <2> QED
    BY <1>10, <2>2, StepTyped
<1>11. \A t \in SUBSET (1..n) : f[t] \in Vectors
  BY <1>1, <1>9, <1>10, FoldTyped
<1> DEFINE w == [k \in 0..n |-> f[1..k]]
<1>12. w \in [0..n -> Vectors]
  <2>1. \A k \in 0..n : 1..k \in SUBSET (1..n)
    BY <1>1
  <2> QED
    BY <1>11, <2>1
<1>13. w[0] = v /\ w[n] = f[1..n]
  <2>1. 1..0 = {} /\ 0 \in 0..n /\ n \in 0..n
    BY <1>1
  <2> QED
    BY <1>9, <2>1
<1>14. ASSUME NEW k \in 1..n PROVE w[k] = Step(c[k], q, w[k - 1])
  <2>1. k \in Nat \ {0} /\ k \in 0..n /\ k - 1 \in 0..n /\ 1..k \in SUBSET (1..n)
    BY <1>1
  <2>2. 1..k # {} /\ Max(1..k) = k /\ (1..k) \ {k} = 1..(k - 1)
    BY <2>1, FirstFacts
  <2>3. f[1..k] = Step(c[k], q, f[1..(k - 1)])
    BY <1>9, <2>1, <2>2
  <2> QED
    BY <2>1, <2>3
<1> HIDE DEF w
<1> QED
  BY <1>2, <1>12, <1>13, <1>14

\* It goes through no others.
LEMMA AfterIs ==
  ASSUME NEW c \in Seq(Gates), NEW q \in Int, NEW v \in Vectors, NEW w \in [0..Len(c) -> Vectors], w[0] = v,
         \A k \in 1..Len(c) : w[k] = Step(c[k], q, w[k - 1])
  PROVE  After(v, c, q) = w[Len(c)]
<1>1. PICK u \in [0..Len(c) -> Vectors] :
           /\ u[0] = v /\ After(v, c, q) = u[Len(c)]
           /\ \A k \in 1..Len(c) : u[k] = Step(c[k], q, u[k - 1])
  BY AfterRuns
<1> DEFINE T == {k \in 0..Len(c) : w[k] = u[k]}
<1>2. 0 \in T /\ Len(c) \in Nat
  BY <1>1
<1>3. ASSUME NEW k \in 0..(Len(c) - 1), k \in T PROVE k + 1 \in T
  <2>1. k + 1 \in 1..Len(c) /\ k + 1 - 1 = k /\ k + 1 \in 0..Len(c)
    BY <1>2
  <2>2. w[k + 1] = Step(c[k + 1], q, w[k]) /\ u[k + 1] = Step(c[k + 1], q, u[k])
    BY <1>1, <2>1
  <2> QED
    BY <1>3, <2>1, <2>2
<1>4. 0..Len(c) \subseteq T
  <2> HIDE DEF T
  <2> QED
    BY <1>2, <1>3, UpTo
<1> QED
  BY <1>1, <1>2, <1>4

LEMMA AfterTyped ==
  ASSUME NEW c \in Seq(Gates), NEW q \in Int, NEW v \in Vectors
  PROVE  After(v, c, q) \in Vectors
<1>1. Len(c) \in 0..Len(c)
  OBVIOUS
<1> QED
  BY <1>1, AfterRuns

LEMMA ConcatFacts ==
  ASSUME NEW S, NEW c \in Seq(S), NEW d \in Seq(S)
  PROVE  /\ c \o d \in Seq(S) /\ Len(c \o d) = Len(c) + Len(d) /\ Len(c) \in Nat /\ Len(d) \in Nat
         /\ \A k \in 1..Len(c) : (c \o d)[k] = c[k]
         /\ \A k \in (Len(c) + 1)..(Len(c) + Len(d)) : (c \o d)[k] = d[k - Len(c)]
<1>1. c \o d \in Seq(S) /\ Len(c \o d) = Len(c) + Len(d) /\ Len(c) \in Nat /\ Len(d) \in Nat
  OBVIOUS
<1>2. ASSUME NEW k \in 1..(Len(c) + Len(d))
      PROVE  (c \o d)[k] = IF k <= Len(c) THEN c[k] ELSE d[k - Len(c)]
  BY <1>1
<1> QED
  BY <1>1, <1>2

\* One circuit after another, none, and one gate.
LEMMA AfterConcat ==
  ASSUME NEW c \in Seq(Gates), NEW d \in Seq(Gates), NEW q \in Int, NEW v \in Vectors
  PROVE  After(v, c \o d, q) = After(After(v, c, q), d, q)
<1> DEFINE m == Len(c)
           n == Len(d)
<1>1. PICK u \in [0..m -> Vectors] :
           /\ u[0] = v /\ After(v, c, q) = u[m]
           /\ \A k \in 1..m : u[k] = Step(c[k], q, u[k - 1])
  BY AfterRuns
<1>2. After(v, c, q) \in Vectors
  BY AfterTyped
<1>3. PICK x \in [0..n -> Vectors] :
           /\ x[0] = After(v, c, q) /\ After(After(v, c, q), d, q) = x[n]
           /\ \A k \in 1..n : x[k] = Step(d[k], q, x[k - 1])
  BY <1>2, AfterRuns
<1> DEFINE w == [k \in 0..(m + n) |-> IF k <= m THEN u[k] ELSE x[k - m]]
           e == c \o d
<1>4. /\ e \in Seq(Gates) /\ Len(e) = m + n /\ m \in Nat /\ n \in Nat
      /\ \A k \in 1..m : e[k] = c[k]
      /\ \A k \in (m + 1)..(m + n) : e[k] = d[k - m]
  BY ConcatFacts
<1>5. w[0] = v /\ w[m + n] = x[n] /\ w \in [0..(m + n) -> Vectors]
  <2>1. w[0] = v /\ 0 \in 0..(m + n) /\ m + n \in 0..(m + n)
    BY <1>1, <1>4
  <2>2. w[m + n] = x[n]
    <3>1. CASE n = 0
      BY <1>1, <1>3, <1>4, <2>1, <3>1
    <3>2. CASE n # 0
      <4>1. ~(m + n <= m) /\ m + n - m = n
        BY <1>4, <3>2
      <4> QED
        BY <2>1, <4>1
    <3> QED
      BY <3>1, <3>2
  <2>3. \A k \in 0..(m + n) : (k <= m => k \in 0..m) /\ (~(k <= m) => k - m \in 0..n)
    BY <1>4
  <2> QED
    BY <1>1, <1>3, <2>1, <2>2, <2>3
<1>6. ASSUME NEW k \in 1..(m + n) PROVE w[k] = Step(e[k], q, w[k - 1])
  <2>0. k \in 0..(m + n) /\ k - 1 \in 0..(m + n)
    BY <1>4
  <2>1. CASE k <= m
    <3>1. w[k] = u[k] /\ w[k - 1] = u[k - 1] /\ k \in 1..m /\ e[k] = c[k]
      BY <1>4, <2>0, <2>1
    <3> QED
      BY <1>1, <3>1
  <2>2. CASE k = m + 1
    <3>1. w[k] = x[1] /\ w[k - 1] = u[m] /\ u[m] = x[0] /\ 1 \in 1..n /\ e[k] = d[1] /\ 1 - 1 = 0
      <4>1. 1 \in 1..n /\ k - m = 1 /\ ~(k <= m) /\ k - 1 = m /\ k \in (m + 1)..(m + n)
        BY <1>4, <2>2
      <4> QED
        BY <1>1, <1>3, <1>4, <2>0, <4>1
    <3>2. x[1] = Step(d[1], q, x[0])
      BY <1>3, <3>1
    <3> QED
      BY <3>1, <3>2
  <2>3. CASE k > m + 1
    <3>1. w[k] = x[k - m] /\ w[k - 1] = x[k - m - 1] /\ k - m \in 1..n /\ e[k] = d[k - m]
      <4>1. ~(k <= m) /\ ~(k - 1 <= m) /\ k \in (m + 1)..(m + n) /\ k - 1 - m = k - m - 1
        BY <1>4, <2>3
      <4> QED
        BY <1>4, <2>0, <4>1
    <3> QED
      BY <1>3, <3>1
  <2> QED
    BY <1>4, <2>1, <2>2, <2>3
<1> HIDE DEF w
<1>7. After(v, e, q) = w[Len(e)]
  BY <1>4, <1>5, <1>6, AfterIs
<1> QED
  BY <1>3, <1>4, <1>5, <1>7

LEMMA AfterOne ==
  ASSUME NEW gate \in Gates, NEW q \in Int, NEW v \in Vectors
  PROVE  After(v, <<gate>>, q) = Step(gate, q, v) /\ <<gate>> \in Seq(Gates)
<1> DEFINE w == [k \in 0..1 |-> IF k = 0 THEN v ELSE Step(gate, q, v)]
<1>1. <<gate>> \in Seq(Gates) /\ Len(<<gate>>) = 1 /\ <<gate>>[1] = gate
  OBVIOUS
<1>2. w[0] = v /\ w[1] = Step(gate, q, v) /\ w \in [0..1 -> Vectors]
  BY StepTyped
<1>3. \A k \in 1..1 : w[k] = Step(<<gate>>[k], q, w[k - 1])
  <2>1. \A k \in 1..1 : k = 1
    OBVIOUS
  <2> HIDE DEF w
  <2> QED
    BY <1>1, <1>2, <2>1
<1> HIDE DEF w
<1>4. After(v, <<gate>>, q) = w[Len(<<gate>>)]
  BY <1>1, <1>2, <1>3, AfterIs
<1> QED
  BY <1>1, <1>2, <1>4

\* A circuit of gates on other qubits, or of gates that turn nothing.
LEMMA AfterStays ==
  ASSUME NEW c \in Seq(Gates), NEW q \in Int, NEW v \in Vectors,
         \A k \in 1..Len(c) : c[k].qubit # q \/ c[k].name \in {"cz", "measure"}
  PROVE  After(v, c, q) = v
<1> DEFINE w == [k \in 0..Len(c) |-> v]
<1>1. Len(c) \in Nat
  OBVIOUS
<1>2. w[0] = v /\ w[Len(c)] = v /\ w \in [0..Len(c) -> Vectors]
  BY <1>1
<1>3. ASSUME NEW k \in 1..Len(c) PROVE w[k] = Step(c[k], q, w[k - 1])
  <2>1. w[k] = v /\ w[k - 1] = v
    BY <1>1
  <2> HIDE DEF w
  <2> QED
    BY <2>1 DEF Step, Applied
<1> HIDE DEF w
<1> QED
  BY <1>2, <1>3, AfterIs

\* Three gates one after another.
LEMMA AfterThree ==
  ASSUME NEW a \in Gates, NEW b \in Gates, NEW e \in Gates, NEW q \in Int, NEW v \in Vectors
  PROVE  After(v, <<a, b, e>>, q) = Step(e, q, Step(b, q, Step(a, q, v))) /\ <<a, b, e>> \in Seq(Gates)
<1> DEFINE c == <<a, b, e>>
           w == [k \in 0..3 |-> IF k = 0 THEN v ELSE IF k = 1 THEN Step(a, q, v)
                                ELSE IF k = 2 THEN Step(b, q, Step(a, q, v))
                                ELSE Step(e, q, Step(b, q, Step(a, q, v)))]
<1>1. c \in Seq(Gates) /\ Len(c) = 3 /\ c[1] = a /\ c[2] = b /\ c[3] = e
  OBVIOUS
<1>2. Step(a, q, v) \in Vectors
  BY StepTyped
<1>3. Step(b, q, Step(a, q, v)) \in Vectors
  BY <1>2, StepTyped
<1>4. Step(e, q, Step(b, q, Step(a, q, v))) \in Vectors
  BY <1>3, StepTyped
<1>5. w \in [0..3 -> Vectors]
  BY <1>2, <1>3, <1>4
<1>6. /\ w[0] = v /\ w[1] = Step(a, q, v) /\ w[2] = Step(b, q, Step(a, q, v))
      /\ w[3] = Step(e, q, Step(b, q, Step(a, q, v)))
  OBVIOUS
<1> HIDE DEF w, c
<1>7. \A k \in 1..3 : w[k] = Step(c[k], q, w[k - 1])
  <2>1. \A k \in 1..3 : k = 1 \/ k = 2 \/ k = 3
    OBVIOUS
  <2>2. w[1] = Step(c[1], q, w[0]) /\ w[2] = Step(c[2], q, w[1]) /\ w[3] = Step(c[3], q, w[2])
    BY <1>1, <1>6
  <2> QED
    BY <2>1, <2>2
<1>8. After(v, c, q) = w[Len(c)]
  BY <1>1, <1>5, <1>6, <1>7, AfterIs
<1> QED
  BY <1>1, <1>6, <1>8 DEF c

\* The circuits of which a longer one is put together.
LEMMA FlattenRuns ==
  ASSUME NEW S \in SUBSET Gates, NEW n \in Nat, NEW s \in [1..n -> Seq(S)]
  PROVE  \E g \in [0..n -> Seq(S)] :
           g[0] = <<>> /\ FlattenSeq(s) = g[n] /\ \A k \in 1..n : g[k] = g[k - 1] \o s[k]
<1> DEFINE G == [p \in (1..n) \X Seq(S) |-> p[2] \o s[p[1]]]
           Is(f) == f = [i \in 1..Len(s) |-> IF i = 1 THEN s[i] ELSE f[i - 1] \o s[i]]
           flat == CHOOSE f : Is(f)
<1>1. Len(s) = n /\ s \in Seq(Seq(S)) /\ <<>> \in Seq(S)
  OBVIOUS
<1>2. G \in [(1..n) \X Seq(S) -> Seq(S)]
  OBVIOUS
<1>3. PICK g \in [0..n -> Seq(S)] : IsRun(g, n, <<>>, G)
  <2> HIDE DEF G
  <2> QED
    BY <1>1, <1>2, RunExists
<1>4. g[0] = <<>> /\ \A k \in 1..n : g[k] = g[k - 1] \o s[k]
  <2>1. ASSUME NEW k \in 1..n PROVE g[k] = g[k - 1] \o s[k]
    <3>1. k - 1 \in 0..n /\ g[k - 1] \in Seq(S)
      BY <1>3
    <3>2. g[k] = G[<<k, g[k - 1]>>]
      <4> HIDE DEF G
      <4> QED
        BY <1>3 DEF IsRun
    <3>3. <<k, g[k - 1]>> \in (1..n) \X Seq(S)
      BY <3>1
    <3> QED
      BY <3>2, <3>3
  <2> QED
    BY <1>3, <2>1 DEF IsRun
<1> HIDE DEF G
<1>5. CASE n = 0
  BY <1>1, <1>4, <1>5 DEF FlattenSeq
<1>6. CASE n # 0
  <2>1. FlattenSeq(s) = flat[n]
    BY <1>1, <1>6 DEF FlattenSeq
  <2> DEFINE h == [i \in 1..n |-> g[i]]
  <2>2. Is(h)
    <3>1. ASSUME NEW i \in 1..n PROVE g[i] = IF i = 1 THEN s[i] ELSE h[i - 1] \o s[i]
      <4>1. CASE i = 1
        <5>0. 1 \in 1..n /\ 1 - 1 = 0
          BY <4>1
        <5>1. g[1] = <<>> \o s[1] /\ s[1] \in Seq(S)
          BY <1>4, <5>0
        <5>2. <<>> \o s[1] = s[1]
          BY <5>1
        <5> QED
          BY <4>1, <5>1, <5>2
      <4>2. CASE i # 1
        <5>1. h[i - 1] = g[i - 1]
          BY <4>2
        <5> QED
          BY <1>4, <4>2, <5>1
      <4> QED
        BY <4>1, <4>2
    <3> QED
      BY <1>1, <3>1
  <2> HIDE DEF h
  <2>3. Is(flat)
    BY <2>2
  <2> HIDE DEF flat
  <2>4. flat = [i \in 1..n |-> IF i = 1 THEN s[i] ELSE flat[i - 1] \o s[i]]
    BY <1>1, <2>3
  <2> DEFINE T == {k \in 0..n : k = 0 \/ flat[k] = g[k]}
  <2>5. 0 \in T
    OBVIOUS
  <2>6. ASSUME NEW k \in 0..(n - 1), k \in T PROVE k + 1 \in T
    <3>0. k + 1 \in 1..n /\ k + 1 - 1 = k /\ (k + 1 = 1 <=> k = 0) /\ k + 1 \in 0..n
      OBVIOUS
    <3>1. flat[k + 1] = IF k + 1 = 1 THEN s[k + 1] ELSE flat[k] \o s[k + 1]
      <4> DEFINE K == k + 1
      <4>1. flat[K] = IF K = 1 THEN s[K] ELSE flat[K - 1] \o s[K]
        <5>1. K \in 1..n
          BY <3>0
        <5> HIDE DEF K, T
        <5> QED
          BY <2>4, <5>1
      <4> QED
        BY <3>0, <4>1
    <3>2. g[k + 1] = g[k] \o s[k + 1]
      <4> DEFINE K == k + 1
      <4>1. g[K] = g[K - 1] \o s[K]
        <5>1. K \in 1..n
          BY <3>0
        <5> HIDE DEF K, T
        <5> QED
          BY <1>4, <5>1
      <4>2. K - 1 = k /\ K = k + 1
        OBVIOUS
      <4> HIDE DEF K, T
      <4> QED
        BY <4>1, <4>2
    <3>3. CASE k = 0
      <4>1. g[k] = <<>> /\ s[k + 1] \in Seq(S)
        BY <1>4, <3>0, <3>3
      <4>2. <<>> \o s[k + 1] = s[k + 1]
        BY <4>1
      <4> QED
        BY <3>0, <3>1, <3>2, <3>3, <4>1, <4>2
    <3>4. CASE k # 0
      BY <2>6, <3>0, <3>1, <3>2, <3>4
    <3> QED
      BY <3>3, <3>4
  <2>7. 0..n \subseteq T
    <3> HIDE DEF T
    <3> QED
      BY <2>5, <2>6, UpTo
  <2>8. flat[n] = g[n]
    BY <1>6, <2>7
  <2> QED
    BY <1>4, <2>1, <2>8
<1> QED
  BY <1>5, <1>6

\* Angles and phases are whole quarter turns.
LEMMA AreaTyped ==
  ASSUME NEW s \in Seq(Int \X Int)
  PROVE  Area(s) \in Int \X Int
<1> DEFINE n == Len(s)
           V == Int \X Int
           Plus2(x, y) == <<x[1] + y[1], x[2] + y[2]>>
           Is(g) == g = [t \in SUBSET (1..n) |->
                           IF t = {} THEN <<0, 0>>
                           ELSE <<g[t \ {Max(t)}][1] + s[Max(t)][1], g[t \ {Max(t)}][2] + s[Max(t)][2]>>]
           f == CHOOSE g : Is(g)
           G == [p \in (1..n) \X V |-> <<p[2][1] + s[p[1]][1], p[2][2] + s[p[1]][2]>>]
<1>1. DOMAIN s = 1..n /\ n \in Nat /\ \A k \in 1..n : s[k] \in V
  OBVIOUS
<1>2. Area(s) = f[1..n]
  BY <1>1 DEF Area, FoldLeft, MapThenFoldSet
<1>3. <<0, 0>> \in V /\ G \in [(1..n) \X V -> V]
  BY <1>1
<1>4. PICK h \in [SUBSET (1..n) -> V] : IsFold(h, n, <<0, 0>>, G)
  <2> HIDE DEF G, V
  <2>1. n \in Nat
    BY <1>1
  <2> HIDE DEF n
  <2> QED
    BY <1>3, <2>1, FoldExists
<1>5. Is(h)
  <2>1. h[{}] = <<0, 0>> /\ {} \in SUBSET (1..n)
    BY <1>4 DEF IsFold
  <2>2. ASSUME NEW t \in SUBSET (1..n), t # {}
        PROVE  h[t] = <<h[t \ {Max(t)}][1] + s[Max(t)][1], h[t \ {Max(t)}][2] + s[Max(t)][2]>>
    <3>1. Max(t) \in 1..n /\ t \ {Max(t)} \in SUBSET (1..n)
      BY <1>1, <2>2, MaxFacts
    <3>2. h[t] = G[<<Max(t), h[t \ {Max(t)}]>>] /\ h[t \ {Max(t)}] \in V
      BY <1>4, <2>2, <3>1 DEF IsFold
    <3> QED
      BY <3>1, <3>2
  <2> HIDE DEF G
  <2> QED
    BY <1>4, <2>1, <2>2
<1> HIDE DEF G
<1>6. Is(f)
  BY <1>5
<1> HIDE DEF f
<1>7. /\ f[{}] = <<0, 0>>
      /\ \A t \in SUBSET (1..n) : t # {} => f[t] = Plus2(f[t \ {Max(t)}], s[Max(t)])
  BY <1>6
<1>8. ASSUME NEW t \in SUBSET (1..n), t # {}, f[t \ {Max(t)}] \in V PROVE f[t] \in V
  <2>1. Max(t) \in 1..n
    BY <1>1, <1>8, MaxFacts
  <2>2. s[Max(t)] \in V /\ f[t] = Plus2(f[t \ {Max(t)}], s[Max(t)])
    BY <1>1, <1>7, <1>8, <2>1
  <2>3. \A x, y \in V : Plus2(x, y) \in V
    OBVIOUS
  <2> HIDE DEF V, Plus2
  <2> QED
    BY <1>8, <2>2, <2>3
<1>9. \A t \in SUBSET (1..n) : f[t] \in V
  <2> HIDE DEF V, Plus2
  <2> QED
    BY <1>1, <1>3, <1>7, <1>8, FoldTyped
<1> QED
  BY <1>1, <1>2, <1>9

LEMMA MagnitudeTyped ==
  ASSUME NEW s \in Int \X Int
  PROVE  Magnitude(s) \in Nat
<1>1. s[1] \in Int /\ s[2] \in Int
  OBVIOUS
<1> QED
  BY <1>1 DEF Magnitude

\* The sum of the magnitudes of the samples.
Total(s) == FoldLeft(LAMBDA sum, x : sum + Magnitude(x), 0, s)

LEMMA TotalTyped ==
  ASSUME NEW s \in Seq(Int \X Int)
  PROVE  Total(s) \in Nat
<1> DEFINE n == Len(s)
           Is(g) == g = [t \in SUBSET (1..n) |->
                           IF t = {} THEN 0 ELSE g[t \ {Max(t)}] + Magnitude(s[Max(t)])]
           f == CHOOSE g : Is(g)
           G == [p \in (1..n) \X Nat |-> p[2] + Magnitude(s[p[1]])]
<1>1. DOMAIN s = 1..n /\ n \in Nat /\ \A k \in 1..n : s[k] \in Int \X Int
  OBVIOUS
<1>2. Total(s) = f[1..n]
  BY <1>1 DEF Total, FoldLeft, MapThenFoldSet
<1>3. \A k \in 1..n : Magnitude(s[k]) \in Nat
  BY <1>1, MagnitudeTyped
<1>4. G \in [(1..n) \X Nat -> Nat]
  BY <1>3
<1>5. PICK h \in [SUBSET (1..n) -> Nat] : IsFold(h, n, 0, G)
  <2> HIDE DEF G
  <2>1. n \in Nat
    BY <1>1
  <2> HIDE DEF n
  <2> QED
    BY <1>4, <2>1, FoldExists
<1>6. Is(h)
  <2>1. h[{}] = 0 /\ {} \in SUBSET (1..n)
    BY <1>5 DEF IsFold
  <2>2. ASSUME NEW t \in SUBSET (1..n), t # {}
        PROVE  h[t] = h[t \ {Max(t)}] + Magnitude(s[Max(t)])
    <3>1. Max(t) \in 1..n /\ t \ {Max(t)} \in SUBSET (1..n)
      BY <1>1, <2>2, MaxFacts
    <3>2. h[t] = G[<<Max(t), h[t \ {Max(t)}]>>] /\ h[t \ {Max(t)}] \in Nat
      BY <1>5, <2>2, <3>1 DEF IsFold
    <3> QED
      BY <3>1, <3>2
  <2> HIDE DEF G
  <2> QED
    BY <1>5, <2>1, <2>2
<1> HIDE DEF G
<1>7. Is(f)
  BY <1>6
<1> HIDE DEF f
<1>8. f[{}] = 0 /\ \A t \in SUBSET (1..n) : t # {} => f[t] = f[t \ {Max(t)}] + Magnitude(s[Max(t)])
  BY <1>7
<1>9. ASSUME NEW t \in SUBSET (1..n), t # {}, f[t \ {Max(t)}] \in Nat PROVE f[t] \in Nat
  <2>1. Max(t) \in 1..n
    BY <1>1, <1>9, MaxFacts
  <2> DEFINE a == f[t \ {Max(t)}]
             b == Magnitude(s[Max(t)])
  <2>2. a \in Nat /\ b \in Nat
    BY <1>3, <1>9, <2>1
  <2>3. f[t] = a + b
    BY <1>8, <1>9
  <2> HIDE DEF a, b
  <2> QED
    BY <2>2, <2>3
<1>10. \A t \in SUBSET (1..n) : f[t] \in Nat
  <2> DEFINE V == Nat
  <2>1. /\ n \in Nat /\ f[{}] \in V
        /\ \A t \in SUBSET (1..n) : t # {} /\ f[t \ {Max(t)}] \in V => f[t] \in V
    BY <1>1, <1>8, <1>9
  <2> HIDE DEF V, n
  <2>2. \A t \in SUBSET (1..n) : f[t] \in V
    BY <2>1, FoldTyped
  <2> QED
    BY <2>2 DEF V
<1> QED
  BY <1>1, <1>2, <1>10

LEMMA RotationTyped ==
  ASSUME NEW p \in PulseType, NEW prov \in Providers
  PROVE  Rotation(prov, p).angle \in Int /\ Rotation(prov, p).phase \in Int
<1>1. p.samples \in Seq(Int \X Int) /\ p.dt \in Nat \cup {NotFinite} /\ NotFinite \in Int
  BY DEF PulseType, NotFinite
<1>2. Area(p.samples) \in Int \X Int /\ Magnitude(Area(p.samples)) \in Nat
  BY <1>1, AreaTyped, MagnitudeTyped
<1>3. \A area : Phase(area) \in Int
  BY DEF Phase
<1>4. CASE prov = "iqm"
  <2>1. p.samples # <<>> => Len(p.samples) \in Nat \ {0}
    BY <1>1
  <2>2. p.samples # <<>> => Total(p.samples) \div Len(p.samples) \in Int
    BY <1>1, <2>1, TotalTyped
  <2>3. Rotation(prov, p) = [angle |-> IF p.samples = <<>> THEN 0 ELSE Total(p.samples) \div Len(p.samples),
                             phase |-> Phase(Area(p.samples))]
    BY <1>4 DEF Rotation, ExtractRotationParams, Total
  <2> QED
    BY <1>3, <2>2, <2>3
<1>5. CASE prov # "iqm"
  <2>1. Rotation(prov, p) = IF p.dt = NotFinite THEN [angle |-> NotFinite, phase |-> NotFinite]
                            ELSE [angle |-> p.dt * Magnitude(Area(p.samples)), phase |-> Phase(Area(p.samples))]
    BY <1>5 DEF Rotation, PulseRotation
  <2>2. p.dt # NotFinite => p.dt * Magnitude(Area(p.samples)) \in Int
    BY <1>1, <1>2
  <2> QED
    BY <1>1, <1>3, <2>1, <2>2
<1> QED
  BY <1>4, <1>5

-----------------------------------------------------------------------------
(* What a pulse becomes                                                      *)

\* The gates that turn a qubit and measure nothing.
Turning == {gate \in Gates : gate.name # "measure"}

\* Phases and angles leave the height of a vector alone, or turn the ground state.
LEMMA Heights ==
  ASSUME NEW v \in Vectors, NEW n \in Int
  PROVE  /\ RotatedZ(v, n)[3] = v[3] /\ RotatedZ(Ground, n) = Ground /\ Ground \in Vectors
         /\ RotatedX(RotatedZ(RotatedX(Ground, 1), n), 1)[3] = -(RotatedX(Ground, n)[3])
         /\ RotatedX(Ground, n)[3] \in Int
<1>1. n % 4 = 0 \/ n % 4 = 1 \/ n % 4 = 2 \/ n % 4 = 3
  OBVIOUS
<1>2. RotatedX(Ground, 1) = <<0, -1, 0>> /\ 1 % 4 = 1
  BY DEF RotatedX, Ground
<1>3. RotatedZ(v, n)[3] = v[3] /\ RotatedZ(Ground, n) = Ground
  BY <1>1 DEF RotatedZ, Ground
<1>4. \A x, y, z : RotatedX(<<x, y, z>>, 1)[3] = y
  BY <1>2, \A x, y, z : <<x, y, z>>[2] = y DEF RotatedX
<1>9. Ground \in Vectors
  BY DEF Ground, Vectors
<1>10. RotatedX(Ground, n)[3] \in Int
  BY <1>1 DEF RotatedX, Ground
<1>11. RotatedX(RotatedZ(RotatedX(Ground, 1), n), 1)[3] = -(RotatedX(Ground, n)[3])
  <2>1. RotatedZ(<<0, -1, 0>>, n)[2] = -(RotatedX(Ground, n)[3])
    BY <1>1 DEF RotatedZ, RotatedX, Ground
  <2>2. \E x, y, z \in Int : RotatedZ(<<0, -1, 0>>, n) = <<x, y, z>>
    BY <1>1 DEF RotatedZ
  <2> QED
    BY <1>2, <1>4, <2>1, <2>2
<1> QED
  BY <1>3, <1>9, <1>10, <1>11

\* The turns of one qubit on IBM and Braket (pulse_to_qasm).
Turns(prov, turn, q) ==
  <<Gate("rz", q, turn.phase, 0)>>
    \o (IF prov = "ibm" THEN <<Gate("sx", q, 1, 0), Gate("rz", q, turn.angle, 0), Gate("sx", q, 1, 0)>>
        ELSE <<Gate("rx", q, turn.angle, 0)>>)
    \o <<Gate("rz", q, Negative(turn.phase), 0)>>

LEMMA OneQubitTurns ==
  ASSUME NEW prov \in Providers, NEW turn \in [angle : Int, phase : Int], NEW q \in Int
  PROVE  /\ Turns(prov, turn, q) \in Seq(Turning) /\ Turns(prov, turn, q) \in Seq(Gates)
         /\ \A p \in Int : p # q => \A v \in Vectors : After(v, Turns(prov, turn, q), p) = v
         /\ After(Ground, Turns(prov, turn, q), q)[3]
              = IF prov = "ibm" THEN -(RotatedX(Ground, turn.angle)[3]) ELSE RotatedX(Ground, turn.angle)[3]
<1> DEFINE first == Gate("rz", q, turn.phase, 0)
           sx == Gate("sx", q, 1, 0)
           rz == Gate("rz", q, turn.angle, 0)
           rx == Gate("rx", q, turn.angle, 0)
           last == Gate("rz", q, Negative(turn.phase), 0)
           about == IF prov = "ibm" THEN <<sx, rz, sx>> ELSE <<rx>>
<1>0. turn.angle \in Int /\ turn.phase \in Int /\ Negative(turn.phase) \in Int
  BY DEF Negative, NotFinite
<1>1. \A gate \in {first, sx, rz, rx, last} : gate \in Turning /\ gate \in Gates /\ gate.qubit = q
  BY <1>0 DEF Gate, Turning, Gates
<1>2. about \in Seq(Turning) /\ about \in Seq(Gates)
  BY <1>1
<1>3. /\ <<first>> \in Seq(Turning) /\ <<first>> \in Seq(Gates)
      /\ <<last>> \in Seq(Turning) /\ <<last>> \in Seq(Gates)
  BY <1>1
<1>4. Turns(prov, turn, q) = (<<first>> \o about) \o <<last>>
  BY <1>2, <1>3 DEF Turns
<1>5. /\ <<first>> \o about \in Seq(Turning) /\ <<first>> \o about \in Seq(Gates)
      /\ Turns(prov, turn, q) \in Seq(Turning) /\ Turns(prov, turn, q) \in Seq(Gates)
  BY <1>2, <1>3, <1>4
<1>6. /\ Applied(sx, Ground) = RotatedX(Ground, 1)
      /\ \A v : Applied(sx, v) = RotatedX(v, 1) /\ Applied(rz, v) = RotatedZ(v, turn.angle)
      /\ \A v : Applied(rx, v) = RotatedX(v, turn.angle) /\ Applied(first, v) = RotatedZ(v, turn.phase)
      /\ \A v : Applied(last, v) = RotatedZ(v, Negative(turn.phase))
  BY DEF Applied, Gate
<1>7. ASSUME NEW p \in Int, NEW v \in Vectors
      PROVE  After(v, Turns(prov, turn, q), p) = Step(last, p, After(Step(first, p, v), about, p))
  <2> HIDE DEF first, sx, rz, rx, last, about
  <2>1. first \in Gates /\ last \in Gates
    BY <1>1
  <2>2. After(v, <<first>>, p) = Step(first, p, v) /\ Step(first, p, v) \in Vectors
    <3>1. After(v, <<first>>, p) = Step(first, p, v)
      BY <2>1, AfterOne
    <3>2. Step(first, p, v) \in Vectors
      BY <2>1, StepTyped
    <3> QED
      BY <3>1, <3>2
  <2>3. After(v, <<first>> \o about, p) = After(Step(first, p, v), about, p)
    <3>1. After(v, <<first>> \o about, p) = After(After(v, <<first>>, p), about, p)
      BY <1>2, <1>3, AfterConcat
    <3> QED
      BY <2>2, <3>1
  <2>4. After(Step(first, p, v), about, p) \in Vectors
    BY <1>2, <2>2, AfterTyped
  <2>5. After(v, (<<first>> \o about) \o <<last>>, p) = After(After(v, <<first>> \o about, p), <<last>>, p)
    BY <1>3, <1>5, AfterConcat
  <2>6. After(After(Step(first, p, v), about, p), <<last>>, p)
          = Step(last, p, After(Step(first, p, v), about, p))
    BY <2>1, <2>4, AfterOne
  <2> QED
    BY <1>4, <2>3, <2>5, <2>6
<1>8. ASSUME NEW p \in Int, p # q, NEW v \in Vectors
      PROVE  After(v, Turns(prov, turn, q), p) = v
  <2>1. Step(first, p, v) = v /\ \A u : Step(last, p, u) = u
    BY <1>1, <1>8 DEF Step
  <2>2. \A k \in 1..Len(about) : about[k].qubit = q
    BY <1>1
  <2> HIDE DEF first, sx, rz, rx, last, about
  <2>3. \A k \in 1..Len(about) : about[k].qubit # p
    BY <1>8, <2>2
  <2>4. After(v, about, p) = v
    BY <1>2, <2>3, AfterStays
  <2> QED
    BY <1>7, <2>1, <2>4
<1>9. After(Ground, Turns(prov, turn, q), q)[3]
        = IF prov = "ibm" THEN -(RotatedX(Ground, turn.angle)[3]) ELSE RotatedX(Ground, turn.angle)[3]
  <2>1. Ground \in Vectors /\ Step(first, q, Ground) = Ground
    <3>1. Ground \in Vectors
      BY DEF Ground, Vectors
    <3>2. RotatedZ(Ground, turn.phase) = Ground
      BY <1>0, <3>1, Heights
    <3>3. first.qubit = q /\ Applied(first, Ground) = RotatedZ(Ground, turn.phase)
      BY <1>1, <1>6
    <3> HIDE DEF first
    <3> QED
      BY <3>1, <3>2, <3>3 DEF Step
  <2>2. After(Ground, Turns(prov, turn, q), q) = Step(last, q, After(Ground, about, q))
    <3> HIDE DEF first, about, last
    <3> QED
      BY <1>7, <2>1
  <2>3. After(Ground, about, q) \in Vectors
    <3> HIDE DEF about
    <3> QED
      BY <1>2, <2>1, AfterTyped
  <2>4. \A v : Step(last, q, v) = RotatedZ(v, Negative(turn.phase))
    BY <1>1, <1>6 DEF Step
  <2>5. After(Ground, Turns(prov, turn, q), q)[3] = After(Ground, about, q)[3]
    <3> DEFINE x == After(Ground, about, q)
    <3>1. x \in Vectors /\ After(Ground, Turns(prov, turn, q), q) = RotatedZ(x, Negative(turn.phase))
      BY <2>2, <2>3, <2>4
    <3> HIDE DEF x
    <3>2. RotatedZ(x, Negative(turn.phase))[3] = x[3]
      BY <1>0, <3>1, Heights
    <3> QED
      BY <3>1, <3>2 DEF x
  <2>6. CASE prov = "ibm"
    <3>1. about = <<sx, rz, sx>>
      BY <2>6
    <3>2. sx \in Gates /\ rz \in Gates
      BY <1>1
    <3>3. \A v : Step(sx, q, v) = RotatedX(v, 1) /\ Step(rz, q, v) = RotatedZ(v, turn.angle)
      BY <1>1, <1>6 DEF Step
    <3> HIDE DEF sx, rz, about
    <3>4. After(Ground, <<sx, rz, sx>>, q) = Step(sx, q, Step(rz, q, Step(sx, q, Ground)))
      BY <2>1, <3>2, AfterThree
    <3>5. After(Ground, about, q) = RotatedX(RotatedZ(RotatedX(Ground, 1), turn.angle), 1)
      BY <3>1, <3>3, <3>4
    <3>6. RotatedX(RotatedZ(RotatedX(Ground, 1), turn.angle), 1)[3] = -(RotatedX(Ground, turn.angle)[3])
      BY <1>0, <2>1, Heights
    <3> QED
      BY <2>5, <2>6, <3>5, <3>6
  <2>7. CASE prov # "ibm"
    <3>1. about = <<rx>>
      BY <2>7
    <3>2. rx \in Gates /\ \A v : Step(rx, q, v) = RotatedX(v, turn.angle)
      BY <1>1, <1>6 DEF Step
    <3> HIDE DEF rx, about
    <3>3. After(Ground, about, q) = RotatedX(Ground, turn.angle)
      BY <2>1, <3>1, <3>2, AfterOne
    <3> QED
      BY <2>5, <2>7, <3>3
  <2> QED
    BY <2>6, <2>7
<1> QED
  BY <1>5, <1>8, <1>9

\* The qubits of a program one after another: those before the k-th are turned.
LEMMA AllTurn ==
  ASSUME NEW prov \in Providers, NEW turn \in [angle : Int, phase : Int], NEW n \in Nat,
         NEW s \in [1..n -> Seq(Gates)], \A k \in 1..n : s[k] = Turns(prov, turn, k - 1)
  PROVE  /\ FlattenSeq(s) \in Seq(Turning) /\ FlattenSeq(s) \in Seq(Gates)
         /\ \A q \in 0..(n - 1) :
              After(Ground, FlattenSeq(s), q)[3]
                = IF prov = "ibm" THEN -(RotatedX(Ground, turn.angle)[3]) ELSE RotatedX(Ground, turn.angle)[3]
<1>1. ASSUME NEW k \in 1..n PROVE s[k] \in Seq(Turning)
  <2>1. k - 1 \in Int /\ s[k] = Turns(prov, turn, k - 1)
    OBVIOUS
  <2> QED
    BY <2>1, OneQubitTurns
<1>2. s \in [1..n -> Seq(Turning)]
  <2> HIDE DEF Turning
  <2> QED
    BY <1>1
<1>3. FlattenSeq(s) \in Seq(Turning)
  <2>1. \E g \in [0..n -> Seq(Turning)] :
           g[0] = <<>> /\ FlattenSeq(s) = g[n] /\ \A k \in 1..n : g[k] = g[k - 1] \o s[k]
    <3>1. Turning \in SUBSET Gates
      BY DEF Turning
    <3> QED
      BY <1>2, <3>1, FlattenRuns
  <2>2. n \in 0..n
    OBVIOUS
  <2> QED
    BY <2>1, <2>2
<1>4. PICK g \in [0..n -> Seq(Gates)] :
           g[0] = <<>> /\ FlattenSeq(s) = g[n] /\ \A k \in 1..n : g[k] = g[k - 1] \o s[k]
  <2>1. Gates \in SUBSET Gates
    OBVIOUS
  <2> QED
    BY <2>1, FlattenRuns
<1>5. Ground \in Vectors
  BY DEF Ground, Vectors
<1>6. ASSUME NEW q \in 0..(n - 1)
      PROVE  After(Ground, FlattenSeq(s), q)[3]
               = IF prov = "ibm" THEN -(RotatedX(Ground, turn.angle)[3]) ELSE RotatedX(Ground, turn.angle)[3]
  <2> DEFINE u == After(Ground, Turns(prov, turn, q), q)
             good(k) == After(Ground, g[k], q) = IF k <= q THEN Ground ELSE u
             T == {k \in 0..n : good(k)}
  <2>0. q \in Int /\ u \in Vectors
    BY <1>5, AfterTyped, OneQubitTurns
  <2>1. 0 \in T
    <3>1. After(Ground, <<>>, q) = Ground
      <4>1. <<>> \in Seq(Gates) /\ \A k \in 1..Len(<<>>) : FALSE
        OBVIOUS
      <4> HIDE DEF T
      <4> QED
        BY <1>5, <2>0, <4>1, AfterStays
    <3> QED
      BY <1>4, <3>1
  <2>2. ASSUME NEW k \in 0..(n - 1), k \in T PROVE k + 1 \in T
    <3>1. good(k)
      BY <2>2
    <3> HIDE DEF T
    <3>2. k + 1 \in 1..n /\ k + 1 - 1 = k /\ k \in 0..n /\ k \in Int
      OBVIOUS
    <3>3. g[k + 1] = g[k] \o s[k + 1] /\ g[k] \in Seq(Gates)
      <4> DEFINE K == k + 1
      <4>1. g[K] = g[K - 1] \o s[K]
        <5>1. K \in 1..n
          BY <3>2
        <5> HIDE DEF K
        <5> QED
          BY <1>4, <5>1
      <4>2. K - 1 = k /\ K = k + 1
        OBVIOUS
      <4> HIDE DEF K
      <4> QED
        BY <1>4, <3>2, <4>1, <4>2
    <3>4. s[k + 1] = Turns(prov, turn, k) /\ Turns(prov, turn, k) \in Seq(Gates)
      <4>1. s[k + 1] = Turns(prov, turn, k + 1 - 1)
        BY <3>2
      <4> QED
        BY <3>2, <4>1, OneQubitTurns
    <3>5. After(Ground, g[k + 1], q) = After(After(Ground, g[k], q), Turns(prov, turn, k), q)
      BY <1>5, <2>0, <3>3, <3>4, AfterConcat
    <3>6. good(k + 1)
      <4>1. CASE k = q
        <5>1. After(Ground, g[k], q) = Ground /\ ~(k + 1 <= q)
          BY <3>1, <4>1
        <5> QED
          BY <3>5, <4>1, <5>1
      <4>2. CASE k # q
        <5> DEFINE x == After(Ground, g[k], q)
        <5>1. x \in Vectors
          BY <1>5, <2>0, <3>3, AfterTyped
        <5> HIDE DEF x, u
        <5>2. After(x, Turns(prov, turn, k), q) = x
          BY <2>0, <3>2, <4>2, <5>1, OneQubitTurns
        <5>3. k <= q <=> k + 1 <= q
          BY <4>2
        <5> QED
          BY <3>1, <3>5, <5>2, <5>3 DEF x
      <4> QED
        BY <4>1, <4>2
    <3> HIDE DEF good
    <3> QED
      BY <3>2, <3>6 DEF T
  <2>3. 0..n \subseteq T
    <3> HIDE DEF T
    <3> QED
      BY <2>1, <2>2, UpTo
  <2>4. good(n) /\ ~(n <= q)
    BY <2>3
  <2>5. After(Ground, FlattenSeq(s), q) = u
    BY <1>4, <2>4
  <2>6. After(Ground, Turns(prov, turn, q), q)[3]
          = IF prov = "ibm" THEN -(RotatedX(Ground, turn.angle)[3]) ELSE RotatedX(Ground, turn.angle)[3]
    <3>1. q \in Int
      BY <2>0
    <3> HIDE DEF T, good, u
    <3> QED
      BY <3>1, OneQubitTurns
  <2> HIDE DEF T, good
  <2> QED
    BY <2>5, <2>6
<1>7. FlattenSeq(s) \in Seq(Gates)
  BY <1>4
<1> QED
  BY <1>3, <1>6, <1>7

\* A circuit and the measurements at its end.
LEMMA MeasuredLast ==
  ASSUME NEW body \in Seq(Turning), NEW own_qubits \in Seq(Int), NEW c, c = body \o Measure(own_qubits)
  PROVE  /\ Len(c) = Len(body) + Len(own_qubits) /\ c \in Seq(Gates)
         /\ SubSeq(c, Len(c) - Len(own_qubits) + 1, Len(c)) = Measure(own_qubits)
         /\ \A n \in 1..(Len(c) - Len(own_qubits)) : c[n].name # "measure"
         /\ \A q \in Int : After(Ground, c, q) = After(Ground, body, q)
<1> DEFINE m == Len(body)
           n == Len(own_qubits)
           measures == Measure(own_qubits)
<1>1. m \in Nat /\ n \in Nat /\ DOMAIN own_qubits = 1..n
  OBVIOUS
<1>2. measures = [k \in 1..n |-> Gate("measure", own_qubits[k], 0, 0)]
  BY <1>1 DEF Measure
<1>3. \A k \in 1..n : Gate("measure", own_qubits[k], 0, 0) \in Gates
  <2>1. \A k \in 1..n : own_qubits[k] \in Int
    BY <1>1
  <2> QED
    BY <2>1 DEF Gate, Gates
<1>4. measures \in Seq(Gates) /\ Len(measures) = n
  <2>1. measures \in [1..n -> Gates]
    BY <1>2, <1>3
  <2>2. n \in Nat
    BY <1>1
  <2> HIDE DEF measures, n
  <2> QED
    BY <2>1, <2>2
<1>5. body \in Seq(Gates) /\ \A k \in 1..m : body[k].name # "measure"
  <2>1. \A k \in 1..m : body[k] \in Turning
    OBVIOUS
  <2>2. \A gate \in Turning : gate \in Gates /\ gate.name # "measure"
    BY DEF Turning
  <2> QED
    BY <2>1, <2>2
<1> HIDE DEF measures
<1>6. /\ c \in Seq(Gates) /\ Len(c) = m + n
      /\ \A k \in 1..m : c[k] = body[k]
      /\ \A k \in (m + 1)..(m + n) : c[k] = measures[k - m]
  <2>1. c = body \o measures
    BY DEF measures
  <2> HIDE DEF m, n
  <2>2. m = Len(body) /\ n = Len(measures)
    BY <1>4 DEF m
  <2> QED
    <3>1. /\ body \o measures \in Seq(Gates) /\ Len(body \o measures) = Len(body) + Len(measures)
          /\ \A k \in 1..Len(body) : (body \o measures)[k] = body[k]
          /\ \A k \in (Len(body) + 1)..(Len(body) + Len(measures)) :
               (body \o measures)[k] = measures[k - Len(body)]
      BY <1>4, <1>5, ConcatFacts
    <3> QED
      BY <2>1, <2>2, <3>1
<1>7. SubSeq(c, m + 1, m + n) = measures
  <2>1. SubSeq(c, m + 1, m + n) = [i \in 1..(1 + (m + n) - (m + 1)) |-> c[i + (m + 1) - 1]]
    BY <1>1, <1>6
  <2>2. 1 + (m + n) - (m + 1) = n /\ \A i \in 1..n : i + (m + 1) - 1 = i + m /\ i + m \in (m + 1)..(m + n)
    BY <1>1
  <2>3. \A i \in 1..n : c[i + m] = measures[i]
    <3>1. \A i \in 1..n : i + m - m = i
      BY <1>1
    <3> QED
      BY <1>6, <2>2, <3>1
  <2>4. measures = [i \in 1..n |-> measures[i]]
    BY <1>2 DEF measures
  <2> HIDE DEF m, n
  <2> QED
    BY <2>1, <2>2, <2>3, <2>4
<1>8. Len(c) - n = m /\ Len(c) = m + n
  BY <1>1, <1>6
<1>9. ASSUME NEW q \in Int PROVE After(Ground, c, q) = After(Ground, body, q)
  <2>1. Ground \in Vectors
    BY DEF Ground, Vectors
  <2>2. c = body \o measures
    BY DEF measures
  <2>3. After(Ground, body, q) \in Vectors
    BY <1>5, <2>1, AfterTyped
  <2>4. \A k \in 1..Len(measures) : measures[k].name \in {"cz", "measure"}
    BY <1>2, <1>4 DEF Gate, measures
  <2>5. After(Ground, c, q) = After(After(Ground, body, q), measures, q)
    BY <1>4, <1>5, <2>1, <2>2, AfterConcat
  <2>6. After(After(Ground, body, q), measures, q) = After(Ground, body, q)
    BY <1>4, <2>3, <2>4, AfterStays
  <2> QED
    BY <2>5, <2>6
<1>10. SubSeq(c, Len(c) - n + 1, Len(c)) = measures
  BY <1>7, <1>8
<1>11. \A k \in 1..(Len(c) - n) : c[k].name # "measure"
  BY <1>5, <1>6, <1>8
<1> QED
  BY <1>6, <1>9, <1>10, <1>11 DEF measures

\* A qubit driven several times by the same gate is turned by as many times its angle.
Drives(n, qubits, angle, phase) == [k \in 1..n |-> Gate("prx", qubits[k], angle, phase)]
Times(n, qubits, q) == Cardinality({k \in 1..n : qubits[k] = q})

LEMMA DrivenTurn ==
  ASSUME NEW n \in Nat, NEW qubits \in [1..n -> Int], NEW angle \in Int, NEW phase \in Int, NEW q \in Int
  PROVE  /\ Drives(n, qubits, angle, phase) \in Seq(Turning) /\ Drives(n, qubits, angle, phase) \in Seq(Gates)
         /\ After(Ground, Drives(n, qubits, angle, phase), q)[3] = RotatedX(Ground, angle * Times(n, qubits, q))[3]
<1> DEFINE c == Drives(n, qubits, angle, phase)
           times(k) == Cardinality({j \in 1..k : qubits[j] = q})
           Turned(v) == RotatedZ(RotatedX(v, angle), phase)
           w == [k \in 0..n |-> RotatedZ(RotatedX(Ground, angle * times(k)), phase)]
<1>1. \A k \in 1..n : c[k] \in Turning /\ c[k] \in Gates
  BY DEF Drives, Gate, Turning, Gates
<1>2. c \in Seq(Turning) /\ c \in Seq(Gates) /\ Len(c) = n
  <2>1. c \in [1..n -> Turning] /\ c \in [1..n -> Gates]
    BY <1>1 DEF Drives
  <2> QED
    BY <2>1
<1>3. ASSUME NEW k \in 0..n
      PROVE  times(k) \in Nat /\ IsFiniteSet({j \in 1..k : qubits[j] = q})
  <2>1. IsFiniteSet(1..k)
    BY FS_Interval
  <2>2. IsFiniteSet({j \in 1..k : qubits[j] = q})
    BY <2>1, FS_Subset
  <2> QED
    BY <2>2, FS_CardinalityType
<1>4. times(0) = 0
  <2>1. {j \in 1..0 : qubits[j] = q} = {}
    OBVIOUS
  <2> QED
    BY <2>1, FS_EmptySet
<1>5. ASSUME NEW k \in 1..n
      PROVE  times(k) = IF qubits[k] = q THEN times(k - 1) + 1 ELSE times(k - 1)
  <2>1. k - 1 \in 0..n /\ 1..k = (1..(k - 1)) \cup {k} /\ k \notin 1..(k - 1)
    OBVIOUS
  <2>2. CASE qubits[k] = q
    <3>1. {j \in 1..k : qubits[j] = q} = {j \in 1..(k - 1) : qubits[j] = q} \cup {k}
      BY <2>1, <2>2
    <3>2. k \notin {j \in 1..(k - 1) : qubits[j] = q}
      BY <2>1
    <3> QED
      BY <1>3, <2>1, <2>2, <3>1, <3>2, FS_AddElement
  <2>3. CASE qubits[k] # q
    <3>1. {j \in 1..k : qubits[j] = q} = {j \in 1..(k - 1) : qubits[j] = q}
      BY <2>1, <2>3
    <3> QED
      BY <2>3, <3>1
  <2> QED
    BY <2>2, <2>3
<1> HIDE DEF times
<1>6. Ground \in Vectors
  BY DEF Ground, Vectors
<1>7. ASSUME NEW k \in 0..n
      PROVE  /\ angle * times(k) \in Int /\ RotatedX(Ground, angle * times(k)) \in Vectors
             /\ w[k] = RotatedZ(RotatedX(Ground, angle * times(k)), phase) /\ w[k] \in Vectors
  <2>1. angle * times(k) \in Int
    <3> HIDE DEF w
    <3>0. times(k) \in Nat
      BY <1>3
    <3>1. times(k) \in Int
      BY <3>0
    <3> QED
      BY <3>1
  <2>2. RotatedX(Ground, angle * times(k)) \in Vectors
    BY <1>6, <2>1, RotationsTyped
  <2> QED
    BY <2>1, <2>2, RotationsTyped
<1>8. w \in [0..n -> Vectors]
  BY <1>7
<1>9. w[0] = Ground
  <2>1. angle * times(0) = 0 /\ 0 \in 0..n
    BY <1>4
  <2>2. RotatedX(Ground, 0) = Ground /\ RotatedZ(Ground, phase) = Ground
    <3>1. RotatedX(Ground, 0) = Ground
      BY <1>6, RotationUndone
    <3>2. RotatedZ(Ground, phase) = Ground
      BY <1>6, Heights
    <3> QED
      BY <3>1, <3>2
  <2> QED
    BY <2>1, <2>2
<1> HIDE DEF w
<1>10. ASSUME NEW k \in 1..n PROVE w[k] = Step(c[k], q, w[k - 1])
  <2>0. k \in 0..n /\ k - 1 \in 0..n /\ c[k] = Gate("prx", qubits[k], angle, phase)
    BY DEF Drives
  <2>1. CASE qubits[k] # q
    <3>1. times(k) = times(k - 1) /\ Step(c[k], q, w[k - 1]) = w[k - 1]
      BY <1>5, <2>0, <2>1 DEF Step, Gate
    <3> QED
      BY <1>7, <2>0, <3>1
  <2>2. CASE qubits[k] = q
    <3> DEFINE t == angle * times(k - 1)
               x == RotatedX(Ground, t)
    <3>1. Step(c[k], q, w[k - 1]) = RotatedZ(RotatedX(RotatedZ(w[k - 1], -phase), angle), phase)
      BY <2>0, <2>2 DEF Step, Gate, Applied
    <3>2. t \in Int /\ x \in Vectors /\ w[k - 1] = RotatedZ(x, phase)
      BY <1>7, <2>0
    <3>3. angle * times(k) = t + angle
      <4>1. times(k) = times(k - 1) + 1 /\ times(k - 1) \in Nat
        BY <1>3, <1>5, <2>0, <2>2
      <4> QED
        BY <4>1
    <3>4. w[k] = RotatedZ(RotatedX(Ground, t + angle), phase)
      BY <1>7, <2>0, <3>3
    <3>5. RotatedX(x, angle) = RotatedX(Ground, t + angle)
      BY <1>6, <3>2, RotationsAdd
    <3> HIDE DEF t, x
    <3>6. RotatedZ(RotatedZ(x, phase), -phase) = x
      BY <3>2, RotationUndone
    <3> QED
      BY <3>1, <3>2, <3>4, <3>5, <3>6
  <2> QED
    BY <2>1, <2>2
<1>11. After(Ground, c, q) = w[n]
  <2>1. /\ w \in [0..Len(c) -> Vectors] /\ w[0] = Ground
        /\ \A k \in 1..Len(c) : w[k] = Step(c[k], q, w[k - 1])
    BY <1>2, <1>8, <1>9, <1>10
  <2>2. After(Ground, c, q) = w[Len(c)]
    BY <1>2, <1>6, <2>1, AfterIs
  <2> QED
    BY <1>2, <2>2
<1>12. w[n][3] = RotatedX(Ground, angle * times(n))[3] /\ times(n) \in Nat
  <2>1. n \in 0..n
    OBVIOUS
  <2> DEFINE x == RotatedX(Ground, angle * times(n))
  <2>2. x \in Vectors /\ w[n] = RotatedZ(x, phase) /\ times(n) \in Nat
    BY <1>3, <1>7, <2>1
  <2> HIDE DEF x
  <2>3. RotatedZ(x, phase)[3] = x[3]
    BY <2>2, Heights
  <2> QED
    BY <2>2, <2>3 DEF x
<1> QED
  BY <1>2, <1>11, <1>12 DEF times, Times

\* What CircuitsTurn says of a circuit.
TurnsOver(prov, angle, own_qubits, driven, c) ==
  /\ SubSeq(c, Len(c) - Len(own_qubits) + 1, Len(c)) = Measure(own_qubits)
  /\ \A n \in 1..(Len(c) - Len(own_qubits)) : c[n].name # "measure"
  /\ angle # NotFinite =>
       \A k \in driven :
         LET asked == RotatedX(Ground, angle * Cardinality({j \in driven : own_qubits[j] = own_qubits[k]}))[3]
         IN Final(c, own_qubits[k])[3] = IF prov = "ibm" THEN -asked ELSE asked
TurnsAsAsked(prov, p, c) ==
  TurnsOver(prov, Rotation(prov, p).angle,
            IF prov = "iqm" THEN p.targets ELSE Renumbered(p.targets),
            IF prov = "iqm" /\ Len(p.targets) > 2 THEN 1..2 ELSE DOMAIN p.targets, c)

LEMMA QasmTurns ==
  ASSUME NEW p \in PulseType, NEW prov \in Providers, prov # "iqm"
  PROVE  TurnsAsAsked(prov, p, Qasm(prov, p))
<1> DEFINE targets == p.targets
           n == Len(targets)
           turn == PulseRotation(p)
           qubits == Renumbered(targets)
           s == [k \in DOMAIN qubits |-> Turns(prov, turn, qubits[k])]
           body == FlattenSeq(s)
           c == Qasm(prov, p)
           asked == RotatedX(Ground, turn.angle)[3]
<1>1. n \in Nat /\ DOMAIN targets = 1..n
  BY DEF PulseType
<1>2. qubits = [k \in 1..n |-> k - 1] /\ DOMAIN qubits = 1..n /\ \A k \in 1..n : qubits[k] = k - 1
  BY <1>1 DEF Renumbered
<1>3. qubits \in Seq(Int) /\ Len(qubits) = n
  <2>1. qubits \in [1..n -> Int]
    BY <1>1, <1>2
  <2> HIDE DEF qubits, n
  <2> QED
    BY <1>1, <2>1
<1>4. turn \in [angle : Int, phase : Int] /\ Rotation(prov, p) = turn
  <2>1. Rotation(prov, p) = turn
    BY DEF Rotation
  <2>2. turn.angle \in Int /\ turn.phase \in Int
    BY <2>1, RotationTyped
  <2>3. turn = [angle |-> turn.angle, phase |-> turn.phase]
    BY DEF PulseRotation
  <2> HIDE DEF turn
  <2> QED
    BY <2>1, <2>2, <2>3
<1>5. c = body \o Measure(qubits)
  BY DEF Qasm, Turns
<1>6. s \in [1..n -> Seq(Gates)] /\ \A k \in 1..n : s[k] = Turns(prov, turn, k - 1)
  <2> HIDE DEF turn, qubits, n, targets
  <2>1. ASSUME NEW k \in 1..n PROVE Turns(prov, turn, k - 1) \in Seq(Gates)
    <3>1. k - 1 \in Int
      BY <1>1
    <3> QED
      BY <1>4, <3>1, OneQubitTurns
  <2> QED
    BY <1>2, <2>1
<1> HIDE DEF turn, qubits, s, c, body, n
<1>7. /\ body \in Seq(Turning)
      /\ \A q \in 0..(n - 1) : After(Ground, body, q)[3] = IF prov = "ibm" THEN -asked ELSE asked
  BY <1>1, <1>4, <1>6, AllTurn DEF body
<1>8. /\ SubSeq(c, Len(c) - Len(qubits) + 1, Len(c)) = Measure(qubits)
      /\ \A i \in 1..(Len(c) - Len(qubits)) : c[i].name # "measure"
      /\ \A q \in Int : After(Ground, c, q) = After(Ground, body, q)
  BY <1>3, <1>5, <1>7, MeasuredLast
<1>9. ASSUME NEW k \in 1..n
      PROVE  /\ Final(c, qubits[k])[3] = IF prov = "ibm" THEN -asked ELSE asked
             /\ Cardinality({j \in 1..n : qubits[j] = qubits[k]}) = 1
  <2>1. qubits[k] \in 0..(n - 1) /\ qubits[k] \in Int
    BY <1>1, <1>2
  <2>2. Final(c, qubits[k]) = After(Ground, c, qubits[k])
    BY DEF Final, After
  <2>3. {j \in 1..n : qubits[j] = qubits[k]} = {k}
    <3>1. \A j \in 1..n : qubits[j] = qubits[k] <=> j = k
      BY <1>1, <1>2
    <3> QED
      BY <3>1
  <2>4. Cardinality({k}) = 1
    BY FS_Singleton
  <2> QED
    BY <1>7, <1>8, <2>1, <2>2, <2>3, <2>4
<1>10. turn.angle * 1 = turn.angle
  BY <1>4
<1>11. TurnsOver(prov, turn.angle, qubits, 1..n, c)
  BY <1>3, <1>8, <1>9, <1>10 DEF TurnsOver
<1> QED
  BY <1>1, <1>4, <1>11 DEF TurnsAsAsked, qubits, c

LEMMA IqmTurns ==
  ASSUME NEW p \in PulseType
  PROVE  TurnsAsAsked("iqm", p, IqmCircuit(p))
<1> DEFINE targets == p.targets
           n == Len(targets)
           turn == ExtractRotationParams(p.samples)
           angle == turn.angle
           m == IF n > 2 THEN 2 ELSE n
           driven == IF n > 2 THEN SubSeq(targets, 1, 2) ELSE targets
           cz == IF n < 2 THEN <<>> ELSE <<Gate("cz", driven[1], 0, 0)>>
           prx == IF angle = 0 THEN <<>>
                  ELSE [k \in DOMAIN driven |-> Gate("prx", driven[k], angle, turn.phase)]
           c == IqmCircuit(p)
<1>1. n \in Nat /\ DOMAIN targets = 1..n /\ m \in Nat /\ m <= n /\ targets \in Seq(Int)
  <2>1. targets \in Seq(Nat)
    BY DEF PulseType
  <2> QED
    BY <2>1
<1>2. DOMAIN driven = 1..m /\ driven \in [1..m -> Int] /\ \A k \in 1..m : driven[k] = targets[k]
  <2>1. CASE n > 2
    <3>1. SubSeq(targets, 1, 2) = [i \in 1..2 |-> targets[i]]
      <4>1. SubSeq(targets, 1, 2) = [i \in 1..(1 + 2 - 1) |-> targets[i + 1 - 1]]
        BY <1>1
      <4>2. 1 + 2 - 1 = 2 /\ \A i \in 1..2 : i + 1 - 1 = i
        OBVIOUS
      <4> QED
        BY <4>1, <4>2
    <3>2. m = 2 /\ driven = [i \in 1..2 |-> targets[i]] /\ \A i \in 1..2 : targets[i] \in Int
      BY <1>1, <2>1, <3>1
    <3> HIDE DEF driven, m
    <3> QED
      BY <3>2
  <2>2. CASE ~(n > 2)
    <3>1. m = n /\ driven = targets
      BY <2>2
    <3> HIDE DEF driven, m, n
    <3> QED
      BY <1>1, <3>1
  <2> QED
    BY <2>1, <2>2
<1>3. angle \in Int /\ turn.phase \in Int /\ Rotation("iqm", p) = turn
  <2>1. Rotation("iqm", p) = turn /\ "iqm" \in Providers
    BY DEF Rotation, Providers
  <2> HIDE DEF turn
  <2> QED
    BY <2>1, RotationTyped
<1>4. c = (cz \o prx) \o Measure(targets)
  BY DEF IqmCircuit
<1>5. prx \in Seq(Turning) /\ prx \in Seq(Gates)
      /\ \A q \in Int : After(Ground, prx, q)[3] = RotatedX(Ground, angle * Times(m, targets, q))[3]
  <2>0. ASSUME NEW q \in Int
        PROVE  Times(m, targets, q) \in Nat /\ Times(m, targets, q) = Times(m, driven, q)
    <3>1. IsFiniteSet({k \in 1..m : targets[k] = q})
      <4>1. IsFiniteSet(1..m)
        BY <1>1, FS_Interval
      <4> QED
        BY <4>1, FS_Subset
    <3> QED
      BY <1>2, <3>1, FS_CardinalityType DEF Times
  <2>1. CASE angle = 0
    <3>1. prx = <<>> /\ prx \in Seq(Turning) /\ prx \in Seq(Gates)
      BY <2>1
    <3>2. ASSUME NEW q \in Int
          PROVE  After(Ground, prx, q) = Ground /\ RotatedX(Ground, angle * Times(m, targets, q)) = Ground
      <4>1. Ground \in Vectors /\ \A k \in 1..Len(<<>>) : FALSE
        BY DEF Ground, Vectors
      <4>2. angle * Times(m, targets, q) = 0
        BY <2>0, <2>1
      <4>3. After(Ground, <<>>, q) = Ground
        <5>1. <<>> \in Seq(Gates)
          OBVIOUS
        <5> QED
          BY <4>1, <5>1, AfterStays
      <4>4. RotatedX(Ground, 0) = Ground
        BY <4>1, RotationUndone
      <4> QED
        BY <3>1, <4>2, <4>3, <4>4
    <3> QED
      BY <3>1, <3>2
  <2>2. CASE angle # 0
    <3> DEFINE made == [k \in 1..m |-> Gate("prx", driven[k], angle, turn.phase)]
    <3>1. prx = made
      BY <1>2, <2>2
    <3> HIDE DEF prx, turn, driven, m, angle, targets
    <3>2. /\ made \in Seq(Turning) /\ made \in Seq(Gates)
          /\ \A q \in Int : After(Ground, made, q)[3]
                              = RotatedX(Ground, angle * Times(m, driven, q))[3]
      <4>1. ASSUME NEW q \in Int
            PROVE  /\ made \in Seq(Turning) /\ made \in Seq(Gates)
                   /\ After(Ground, made, q)[3]
                        = RotatedX(Ground, angle * Times(m, driven, q))[3]
        <5> DEFINE phase == turn.phase
        <5>1. angle \in Int /\ phase \in Int /\ m \in Nat /\ driven \in [1..m -> Int]
              /\ made = Drives(m, driven, angle, phase)
          BY <1>1, <1>2, <1>3 DEF Drives
        <5> HIDE DEF made, phase
        <5> QED
          BY <5>1, DrivenTurn
      <4>2. 0 \in Int
        OBVIOUS
      <4> QED
        BY <4>1, <4>2
    <3> QED
      BY <2>0, <3>1, <3>2
  <2> QED
    BY <2>1, <2>2
<1>6. cz \in Seq(Turning) /\ cz \in Seq(Gates) /\ \A k \in 1..Len(cz) : cz[k].name \in {"cz", "measure"}
  <2>1. CASE n < 2
    BY <2>1
  <2>2. CASE ~(n < 2)
    <3>1. driven[1] \in Int
      <4>1. 1 \in 1..m
        BY <1>1, <2>2
      <4> HIDE DEF m, driven
      <4> QED
        BY <1>2, <4>1
    <3> HIDE DEF driven
    <3>2. Gate("cz", driven[1], 0, 0) \in Turning /\ Gate("cz", driven[1], 0, 0) \in Gates
          /\ Gate("cz", driven[1], 0, 0).name = "cz"
      BY <3>1 DEF Gate, Turning, Gates
    <3>3. cz = <<Gate("cz", driven[1], 0, 0)>>
      BY <2>2
    <3> HIDE DEF cz
    <3> QED
      BY <3>2, <3>3
  <2> QED
    BY <2>1, <2>2
<1> DEFINE body == cz \o prx
<1> HIDE DEF cz, prx, turn, driven, c, n
<1>7. body \in Seq(Turning)
  BY <1>5, <1>6
<1>8. ASSUME NEW q \in Int PROVE After(Ground, body, q)[3] = RotatedX(Ground, angle * Times(m, targets, q))[3]
  <2>1. Ground \in Vectors
    BY DEF Ground, Vectors
  <2>2. After(Ground, cz, q) = Ground
    BY <1>6, <2>1, AfterStays
  <2>3. After(Ground, body, q) = After(After(Ground, cz, q), prx, q)
    BY <1>5, <1>6, <2>1, AfterConcat
  <2> QED
    BY <1>5, <2>2, <2>3
<1>9. /\ SubSeq(c, Len(c) - n + 1, Len(c)) = Measure(targets)
      /\ \A i \in 1..(Len(c) - n) : c[i].name # "measure"
      /\ \A q \in Int : After(Ground, c, q) = After(Ground, body, q)
  <2> HIDE DEF body, targets
  <2>1. c = body \o Measure(targets) /\ targets \in Seq(Int)
    BY <1>1, <1>4 DEF body
  <2> QED
    BY <1>7, <2>1, MeasuredLast DEF n
<1>10. ASSUME NEW k \in 1..m
       PROVE  Final(c, targets[k])[3] = RotatedX(Ground, angle * Times(m, targets, targets[k]))[3]
  <2>1. targets[k] \in Int
    BY <1>1
  <2>2. Final(c, targets[k]) = After(Ground, c, targets[k])
    BY DEF Final, After
  <2> QED
    BY <1>8, <1>9, <2>1, <2>2
<1>11. 1..m = IF n > 2 THEN 1..2 ELSE DOMAIN targets
  BY <1>1
<1>12. TurnsOver("iqm", angle, targets, 1..m, c)
  <2> HIDE DEF m, targets, angle
  <2> QED
    BY <1>9, <1>10 DEF TurnsOver, Times, n
<1> HIDE DEF m
<1> QED
  BY <1>3, <1>11, <1>12 DEF TurnsAsAsked, c, n

\* The circuit is that of the pulse asked for.
Compiled == circuit # <<>> => pulse # <<>> /\ circuit = Circuit(provider, pulse[1])

\* Every circuit submitted turns the qubits it drives as its pulse would and measures the
\* targets in order once all gates are done, for any pulses, numbers of targets and devices
\* (pulse_to_circuit, pulse_to_qasm, pulse_rotation, extract_rotation_params).
THEOREM CircuitsCorrect == CloudSpec => []CircuitsTurn
<1>1. CloudInit => Compiled
  BY DEF CloudInit, Compiled
<1>2. CloudInv /\ Compiled /\ [CloudNext]_cloudVars => Compiled'
  <2> SUFFICES ASSUME CloudInv, Compiled, [CloudNext]_cloudVars PROVE Compiled'
    OBVIOUS
  <2>1. CASE \E p \in Pulses : Begin(p)
    <3>1. PICK p \in Pulses : Begin(p)
      BY <2>1
    <3>2. pulse' = <<p>> /\ (circuit' # <<>> => circuit' = Circuit(provider, p)) /\ provider' = provider
      BY <3>1 DEF Begin, ExecutePulse, Return
    <3> QED
      BY <3>2 DEF Compiled
  <2>2. CASE PollJob
    BY <2>2 DEF PollJob, Compiled, Poll, Unfinished, Return, Stay
  <2>3. CASE Underway
    BY <2>3 DEF Underway, Compiled, SendPost, ReplyArrives, NoReply, Retry, Return
  <2>4. CASE (Dropped \/ Service) /\ UNCHANGED own
    BY <2>4 DEF own, Compiled, Dropped, Return, Service, Serve, JobEnds, client
  <2>5. CASE UNCHANGED cloudVars
    BY <2>5 DEF cloudVars, vars, client, own, Compiled
  <2> QED
    BY <2>1, <2>2, <2>3, <2>4, <2>5 DEF CloudNext, CloudCall
<1>3. CloudInv /\ Compiled => CircuitsTurn
  <2> SUFFICES ASSUME CloudInv, Compiled, circuit # <<>> PROVE CircuitsTurn
    BY DEF CircuitsTurn
  <2>1. PICK p \in Pulses : pulse = <<p>>
    BY DEF CloudInv, Asked, Compiled
  <2>2. p \in PulseType /\ provider \in Providers
    BY CloudAssumption DEF CloudInv, IInv, TypeOK
  <2>3. TurnsAsAsked(provider, p, Circuit(provider, p))
    BY <2>2, QasmTurns, IqmTurns DEF Circuit
  <2>4. TurnsAsAsked(provider, pulse[1], circuit)
    BY <2>1, <2>3 DEF Compiled
  <2> QED
    BY <2>4 DEF TurnsAsAsked, TurnsOver, CircuitsTurn
<1> QED
  BY <1>1, <1>2, <1>3, CloudInvariance, PTL DEF CloudSpec
=============================================================================
