------------------------------- MODULE AsyncStack -------------------------------
(***************************************************************************)
(* The documented composition of the async middlewares,                    *)
(*                                                                         *)
(*   AsyncCircuitBreaker -> AsyncTimeout -> AsyncBulkhead -> AsyncRetry    *)
(*     -> phase decorators -> terminal,                                    *)
(*                                                                         *)
(* called by tasks.  The bulkhead is AsyncBulkhead.  Of the breaker the    *)
(* model keeps what CircuitContract says, which the breakers are shown to  *)
(* implement, without the time it stays OPEN: then a call may be a probe   *)
(* or be refused, and a refused call changes nothing.                      *)
(*                                                                         *)
(* Three things tell a task to stop: the acquire timeout of the bulkhead,  *)
(* the deadline of AsyncTimeout and a cancellation from outside.  All      *)
(* three arrive as CancelledError at the await the task is suspended in.   *)
(***************************************************************************)
EXTENDS AsyncBulkhead

CONSTANTS FailureThreshold, SuccessThreshold

ASSUME StackAssumption == {FailureThreshold, SuccessThreshold} \subseteq Nat \ {0}

VARIABLES
    phase, members, probes, streak, proven,     \* the circuit's, see CircuitContract
    told,       \* what has told each task to stop, besides the acquire timeout
    hung        \* does the upstream answer no more?

circuit == <<phase, members, probes, streak, proven>>
slots == <<loop, value, waiters, place, why, ahead>>
stackVars == <<slots, circuit, told, hung>>

Circuit == INSTANCE CircuitContract WITH
    Callers <- Tasks, ResetTimeout <- 0, RateMode <- FALSE, since <- 0, now <- 0

StackInit ==
    /\ Init
    /\ phase = "CLOSED" /\ members = {} /\ probes = {} /\ streak = 0 /\ proven = 0
    /\ told = [t \in Tasks |-> "nothing"]
    /\ hung = FALSE

-----------------------------------------------------------------------------
(* Results: a response or the class of an exception.                       *)

(* What the terminal returns or raises.                                    *)
Upstream ==
    {"Response", "ClientStatusError", "ServerStatusError", "NetworkError", "TimeoutError", "Exception"}

(* Faulty variant: a cancellation is an error like others.                 *)
OnError_BaseException(r) == IF r = "Response" THEN {r} ELSE {r, "Response", "Exception"}

(* async_on_error: the handler lets the exception go on, answers for it or *)
(* raises one of its own.  It does not see a cancellation.                 *)
OnError(r) ==
    IF r \in {"Response", "CancelledError"} THEN {r} ELSE {r, "Response", "Exception"}

(* async_after_response: the transform may raise.                          *)
AfterResponse(r) == IF r = "Response" THEN {r, "Exception"} ELSE {r}

(* async_before_request: the transform may raise, and nothing is sent.     *)
BeforeRequest(results) == results \cup {"Exception"}

(* The result of a call, as it leaves the decorators.                      *)
Answers ==
    UNION {AfterResponse(s) : s \in UNION {OnError(r) : r \in BeforeRequest(Upstream)}}

(* classify().  A RetryBudgetExhaustedError goes by the exception it       *)
(* carries, so it is not told from that.                                   *)
Classify(r) ==
    CASE r \in {"ServerStatusError", "NetworkError", "TimeoutError"} -> "failure"
      [] r \in {"Response", "ClientStatusError"} -> "success"
      [] OTHER -> "foreign"

(* Faulty variant: the deadline is outside the breaker.                    *)
Deadline_Outside(t, r) == r

(* AsyncTimeout: asyncio.timeout() turns the cancellation it has asked for *)
(* into TimeoutError, unless somebody else has asked for one as well.      *)
Deadline(t, r) == IF r = "CancelledError" /\ told[t] = "deadline" THEN "TimeoutError" ELSE r

(* record(), for a caller whose result counts or another.                  *)
Record(t, outcome) ==
    \/ /\ outcome = "failure"
       /\ \/ Circuit!Trip(t)
          \/ Circuit!Settle(t) /\ streak' = streak + 1
          \/ Circuit!ProbeFails(t)
    \/ /\ outcome = "success"
       /\ (Circuit!Settle(t) /\ streak' = 0) \/ Circuit!ProbeSucceeds(t)
    \/ /\ outcome = "foreign"
       /\ (Circuit!Settle(t) /\ streak' = streak) \/ Circuit!ProbeInconclusive(t)
    \/ t \notin members \cup probes /\ UNCHANGED circuit

(* Faulty variant: the breaker does not see CancelledError.                *)
Report_Exceptions(t, r) ==
    IF r = "CancelledError" THEN UNCHANGED circuit ELSE Record(t, Classify(r))

Report(t, r) == Record(t, Classify(r))

(* The result r leaves the bulkhead, and so the stack.                     *)
Return(t, r) ==
    /\ Report(t, Deadline(t, r))
    /\ told' = [told EXCEPT ![t] = "nothing"]
    /\ UNCHANGED hung

-----------------------------------------------------------------------------
(* A call begins: admitted by the breaker, it goes straight to the         *)
(* bulkhead.  Both have a guard against other loops, of which the model    *)
(* keeps one: no call gets to the bulkhead but past the breaker's.  A task *)
(* that is held up at the guard has not called the breaker yet.            *)
Admitted(t) == Circuit!Admit(t) \/ Circuit!AdmitProbe(t)

AtGuard(t) == Guard(t) /\ UNCHANGED <<circuit, told, hung>>

Call(t) == (Enter(t) \/ Wait(t)) /\ Admitted(t) /\ UNCHANGED <<told, hung>>

GetSlot(t) == Serve(t) /\ UNCHANGED <<circuit, told, hung>>

AcquireTimeout(t) == Expire(t) /\ UNCHANGED <<circuit, told, hung>>

(* The deadline expires, or the caller cancels, who has the last word:     *)
(* Task.cancel(), of which a task that is told so already learns later.    *)
Tell(t, cause) ==
    /\ place[t] \notin Outside
    /\ told[t] \notin {cause, "cancellation"}
    /\ told' = [told EXCEPT ![t] = cause]
    /\ IF t \in Queued /\ told[t] = "nothing" THEN Cancel(t) ELSE UNCHANGED slots
    /\ UNCHANGED <<circuit, hung>>

BulkheadFull(t) == Refuse(t) /\ Return(t, "BulkheadFullError")

StopsWaiting(t) == Abort(t) /\ Return(t, "CancelledError")

(* AsyncRetry's last attempt has a result.  The attempts and sleeps before *)
(* it change nothing but the budget: see Retry.                            *)
Answer(t) ==
    /\ told[t] = "nothing" /\ ~hung
    /\ Leave(t)
    /\ \E r \in Answers : Return(t, r)

(* CancelledError is raised in an attempt, or in a sleep between two, which *)
(* is no business of the decorators.                                       *)
Interrupted(t) ==
    /\ told[t] # "nothing"
    /\ Leave(t)
    /\ \E r \in {"CancelledError"} \cup OnError("CancelledError") : Return(t, r)

(* From now on the upstream leaves every request without an answer, and    *)
(* the decorators, which might make up a success, no more answer for it.   *)
Hang == ~hung /\ hung' = TRUE /\ UNCHANGED <<slots, circuit, told>>

Run(t) ==
    GetSlot(t) \/ BulkheadFull(t) \/ StopsWaiting(t) \/ Answer(t) \/ Interrupted(t)

StackNext ==
    \/ \E t \in Tasks :
         \/ AtGuard(t) \/ Call(t) \/ AcquireTimeout(t) \/ Run(t)
         \/ \E cause \in {"deadline", "cancellation"} : Tell(t, cause)
    \/ Hang

(* The loop runs tasks that can run, an upstream that has not hung answers, *)
(* and when it hangs deadlines expire.                                     *)
StackFairness ==
    \A t \in Tasks : WF_stackVars(Run(t)) /\ WF_stackVars(hung /\ Tell(t, "deadline"))

StackSafe == StackInit /\ [][StackNext]_stackVars

StackSpec == StackSafe /\ StackFairness

-----------------------------------------------------------------------------
(* The bulkhead's part, the circuit's, and that a task has something to    *)
(* remember, or is told to stop, only during a call.                       *)
StackTypeOK ==
    /\ TypeOK
    /\ phase \in {"CLOSED", "OPEN", "HALF_OPEN"}
    /\ streak \in 0 .. FailureThreshold - 1 /\ proven \in 0 .. SuccessThreshold - 1
    /\ Cardinality(probes) <= 1 /\ members \cap probes = {}
    /\ told \in [Tasks -> {"nothing", "deadline", "cancellation"}]
    /\ \A t \in Tasks :
         /\ t \in Queued => (told[t] # "nothing" <=> "cancellation" \in why[t])
         /\ place[t] \in Outside => told[t] = "nothing"

(* The breaker counts on no result that will not come: a call it has       *)
(* admitted, the probe above all, is on its way until its result is        *)
(* reported, whether it is refused by the bulkhead, expires in its queue   *)
(* or in a sleep, or is cancelled.                                         *)
BreakerKnowsCalls == members \cup probes \subseteq {t \in Tasks : place[t] \notin Outside}

Ends(t) == place[t] \notin Outside /\ place'[t] \in Outside

CountsAsTold(t) ==
    /\ told[t] = "cancellation" \/ (told[t] = "nothing" /\ t \in Queued) =>
         UNCHANGED <<phase, streak, proven>>
    /\ told[t] = "deadline" =>
         /\ t \in members => phase' = "OPEN" \/ streak' = streak + 1
         /\ t \in probes => phase' = "OPEN"

(* Whatever else tells a task to stop at the same time, the circuit is     *)
(* unmoved by a cancellation from outside and by a full bulkhead, and      *)
(* counts a failure for an expired deadline (docs/resilience.md:187).      *)
CausesToldApart == [][\A t \in Tasks : Ends(t) => CountsAsTold(t)]_stackVars

TimesOut(t) == told[t] = "deadline" /\ (StopsWaiting(t) \/ Interrupted(t))

(* "An upstream that hangs opens the circuit" (docs/resilience.md:337), if *)
(* calls go on and run into their deadlines, however many are cancelled or *)
(* refused by the bulkhead in between; and the circuit does not close.     *)
HangOpens ==
    <>hung /\ []<><<\E t \in Tasks : TimesOut(t)>>_stackVars => <>[](phase # "CLOSED")

(* Every call ends: with its answer or its turn while the upstream answers, *)
(* by its deadline when it does not.  So each task is again and again      *)
(* outside.                                                                *)
EveryCallEnds == \A t \in Tasks : []<>(place[t] \in Outside)

=============================================================================
