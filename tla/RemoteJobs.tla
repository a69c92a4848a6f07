------------------------------ MODULE RemoteJobs ------------------------------
(***************************************************************************)
(* One execute_pulse on a cloud backend: IQM (hal/src/backend/iqm), IBM     *)
(* (ibm) or Braket (braket).  The backend submits a job with a POST, IQM's  *)
(* client retrying it, and polls the job until it ends.  The service takes   *)
(* its time: a POST may be served after the client has given it up, and a    *)
(* status that says "retry" may come from a gateway whose service has        *)
(* accepted the job.  Calls share nothing but the service, so one is enough. *)
(***************************************************************************)
EXTENDS Integers

CONSTANTS
  MaxRetries,  \* config.backends.iqm_garnet.max_retries; IBM and Braket never retry
  MaxPolls     \* polls that fit into the backend's timeout, at least one

ASSUME MaxRetriesAssumption == MaxRetries \in Nat
ASSUME MaxPollsAssumption == MaxPolls \in Nat \ {0}

VARIABLES
  provider,  \* which of the three backends
  at,        \* the await the call is in
  attempt,   \* request_with_retry's loop variable
  polls,     \* polls of wait_for_job that found the job unfinished
  jobId,     \* the submission whose id the client has, or NoJob
  answer,    \* what execute_pulse returned
  post,      \* each POST: unsent, under way, or the status of its reply
  read,      \* history: the POSTs whose reply the client has read
  job        \* the job each POST created at the service

client == <<provider, at, attempt, polls, jobId, answer, read>>
vars == <<client, post, job>>

Providers == {"iqm", "ibm", "braket"}
Retries == IF provider = "iqm" THEN MaxRetries ELSE 0
Attempts == 0..MaxRetries
NoJob == -1

\* refused: 400, 401, 403, 404.  busy: 429, 503, 504.  error: any other status.
Replies == {"accepted", "refused", "busy", "error"}
Ends == {"ok", "job_failed", "no_result", "timeout", "http", "refused", "invalid_request", "dropped"}

TypeOK ==
  /\ provider \in Providers
  /\ at \in {"called", "submit", "reply", "poll", "done"}
  /\ attempt \in Attempts
  /\ polls \in 0..MaxPolls
  /\ jobId \in Attempts \cup {NoJob}
  /\ answer \in Ends \cup {"none"}
  /\ post \in [Attempts -> {"none", "sent"} \cup Replies]
  /\ read \subseteq Attempts
  /\ job \in [Attempts -> {"none", "queued", "ready", "failed"}]

Init ==
  /\ provider \in Providers
  /\ at = "called" /\ attempt = 0 /\ polls = 0 /\ jobId = NoJob /\ answer = "none"
  /\ post = [a \in Attempts |-> "none"]
  /\ read = {}
  /\ job = [a \in Attempts |-> "none"]

-----------------------------------------------------------------------------
(* The call                                                                 *)

Return(with) == at' = "done" /\ answer' = with
Stay == UNCHANGED <<at, answer>>

\* execute_pulse checks the target qubits against the device before anything else.
ExecutePulse ==
  /\ at = "called"
  /\ \/ Return("invalid_request")
     \/ at' = "submit" /\ UNCHANGED answer
  /\ UNCHANGED <<provider, attempt, polls, jobId, read, post, job>>

SendPost ==
  /\ at = "submit"
  /\ at' = "reply"
  /\ post' = [post EXCEPT ![attempt] = "sent"]
  /\ UNCHANGED <<provider, attempt, polls, jobId, answer, read, job>>

\* The end of an attempt that may be repeated: the next one follows after a sleep.
Retry ==
  \/ attempt < Retries /\ attempt' = attempt + 1 /\ at' = "submit" /\ UNCHANGED answer
  \/ attempt = Retries /\ Return("http") /\ UNCHANGED attempt

\* Mutant: refusals are retried like the other errors.
ReplyArrivesInsists ==
  /\ at = "reply" /\ post[attempt] \in Replies
  /\ read' = read \cup {attempt}
  /\ \/ /\ post[attempt] = "accepted"
        /\ jobId' = attempt /\ at' = "poll" /\ UNCHANGED <<attempt, answer>>
     \/ post[attempt] = "accepted" /\ Return("http") /\ UNCHANGED <<attempt, jobId>>
     \/ post[attempt] \in {"refused", "busy", "error"} /\ Retry /\ UNCHANGED jobId
  /\ UNCHANGED <<provider, polls, post, job>>

\* Mutant: a reply that does not parse is an attempt to repeat.
ReplyArrivesReparses ==
  /\ at = "reply" /\ post[attempt] \in Replies
  /\ read' = read \cup {attempt}
  /\ \/ /\ post[attempt] = "accepted"
        /\ jobId' = attempt /\ at' = "poll" /\ UNCHANGED <<attempt, answer>>
     \/ post[attempt] = "refused" /\ Return("refused") /\ UNCHANGED <<attempt, jobId>>
     \/ post[attempt] \in {"accepted", "busy", "error"} /\ Retry /\ UNCHANGED jobId
  /\ UNCHANGED <<provider, polls, post, job>>

\* An accepting reply whose body does not parse is an error, not an attempt to repeat.
ReplyArrives ==
  /\ at = "reply" /\ post[attempt] \in Replies
  /\ read' = read \cup {attempt}
  /\ \/ /\ post[attempt] = "accepted"
        /\ jobId' = attempt /\ at' = "poll" /\ UNCHANGED <<attempt, answer>>
     \/ post[attempt] = "accepted" /\ Return("http") /\ UNCHANGED <<attempt, jobId>>
     \/ post[attempt] = "refused" /\ Return("refused") /\ UNCHANGED <<attempt, jobId>>
     \/ post[attempt] \in {"busy", "error"} /\ Retry /\ UNCHANGED jobId
  /\ UNCHANGED <<provider, polls, post, job>>

\* No reply: a connect or timeout error is retried, any other ends the call.
NoReply ==
  /\ at = "reply"
  /\ \/ Retry
     \/ Return("http") /\ UNCHANGED attempt
  /\ UNCHANGED <<provider, polls, jobId, read, post, job>>

\* Mutant: the polls are counted from the start again when they are used up.
UnfinishedForever == job[jobId] = "queued" /\ Stay /\ polls' = (polls + 1) % MaxPolls

\* Mutant: an unknown status counts as a failed job.
UnfinishedFails ==
  /\ job[jobId] = "queued"
  /\ Return("job_failed")
  /\ UNCHANGED polls

\* IQM counts its polls, IBM and Braket look at the clock before each: a slow service
\* may use the time up earlier.  IBM reports a timeout as a failed execution.
Unfinished ==
  /\ job[jobId] = "queued"
  /\ polls' = polls + 1
  /\ \/ polls' < MaxPolls /\ Stay
     \/ /\ polls' = MaxPolls \/ provider # "iqm"
        /\ Return(IF provider = "ibm" THEN "job_failed" ELSE "timeout")

\* One poll: get_job_result, whose own retries are idempotent, and what the call makes
\* of the status.  Any error ends the call; nobody cancels the job.
Poll ==
  /\ at = "poll"
  /\ \/ Unfinished
     \/ job[jobId] = "ready" /\ Return("ok") /\ UNCHANGED polls
     \/ job[jobId] = "ready" /\ provider # "braket" /\ Return("no_result") /\ UNCHANGED polls
     \/ job[jobId] = "failed" /\ Return("job_failed") /\ UNCHANGED polls
     \/ Return("http") /\ UNCHANGED polls
  /\ UNCHANGED <<provider, attempt, jobId, read, post, job>>

\* The caller goes away, and with it the future of the call.
Dropped ==
  /\ at \notin {"called", "done"}
  /\ Return("dropped")
  /\ UNCHANGED <<provider, attempt, polls, jobId, read, post, job>>

-----------------------------------------------------------------------------
(* The service                                                              *)

\* A POST is served, however late; a gateway's busy or error status says nothing
\* about the job.
Serve(a, status) ==
  /\ post[a] = "sent"
  /\ post' = [post EXCEPT ![a] = status]
  /\ \/ status # "refused" /\ job' = [job EXCEPT ![a] = "queued"]
     \/ status # "accepted" /\ UNCHANGED job
  /\ UNCHANGED client

JobEnds(a, how) ==
  /\ job[a] = "queued"
  /\ job' = [job EXCEPT ![a] = how]
  /\ UNCHANGED <<client, post>>

-----------------------------------------------------------------------------
Call == ExecutePulse \/ SendPost \/ ReplyArrives \/ NoReply \/ Poll

Service == \E a \in Attempts : \/ \E status \in Replies : Serve(a, status)
                               \/ \E how \in {"ready", "failed"} : JobEnds(a, how)

Next == Call \/ Dropped \/ Service

\* The client's requests time out and its task is polled; the service owes nothing.
Spec == Init /\ [][Next]_vars /\ WF_vars(Call)

-----------------------------------------------------------------------------
(* Properties                                                               *)

\* Once the client has read that a submission was accepted, or refused for good, it
\* submits nothing more: it can create a second job only while it does not know of the
\* first (iqm/client.rs 135-203).
SettledOnce ==
  \A a \in read : post[a] \in {"accepted", "refused"} =>
    attempt = a /\ \A b \in Attempts : b > a => post[b] = "none" /\ job[b] = "none"

\* The answer is about the call's own job: a result only of a job that is ready, a
\* failure only of one that failed or, with IBM, ran out of time (iqm/mod.rs 257-291,
\* ibm/mod.rs 262-283, braket/mod.rs 229-249).
AnswersForItsJob ==
  /\ answer \in {"ok", "no_result"} => jobId # NoJob /\ job[jobId] = "ready"
  /\ answer = "job_failed" =>
       /\ jobId # NoJob
       /\ \/ job[jobId] = "failed"
          \/ provider = "ibm" /\ polls > 0

\* A job is left behind unfinished, with nobody to poll or cancel it, only if the call
\* ended in an error or never learnt of the job: never when it returned a result
\* (iqm/client.rs 135-203, iqm/mod.rs 257-291).
LeftBehindKnowingly ==
  answer \in {"ok", "no_result"} =>
    \A a \in Attempts : job[a] = "queued" => a < jobId /\ (a \notin read \/ post[a] \in {"busy", "error"})

\* IBM and Braket, which do not retry, never create two jobs for a call
\* (ibm/client.rs 60-90, braket/mod.rs 219).
OneJobWithoutRetries ==
  provider # "iqm" => \A a \in Attempts : job[a] # "none" => a = 0

\* Every call ends, whatever the service does: submissions and polls are bounded and
\* each is bounded by the client's timeout (iqm/client.rs 135, iqm/mod.rs 259).
CallsEnd == <>(at = "done")
=============================================================================
