--------------------------------- MODULE Retry ---------------------------------
(***************************************************************************)
(* Retry and AsyncRetry of middleware/resilience/retry.py: calls that      *)
(* share one RetryBudget.                                                  *)
(*                                                                         *)
(* A call deposits, then makes attempts until one ends it.  A caller is a  *)
(* thread: between the clock reading and the lock of a budget operation    *)
(* the others may run.  A task of AsyncRetry does both in one step, which  *)
(* is one of the interleavings; its sleep can be cancelled.                *)
(***************************************************************************)
EXTENDS RetryBudget, FiniteSetsExt

CONSTANTS
    Callers,
    MaxAttempts,    \* max_attempts
    MaxCalls,       \* bound: calls made
    LastSlot        \* bound: the clock stops in this slot

ASSUME RetryAssumption ==
    MaxAttempts \in Nat \ {0} /\ MaxCalls \in Nat /\ LastSlot \in Nat

VARIABLES
    clock,          \* the slot of the time now
    pc,             \* where each caller is in its call
    reading,        \* the slot a caller has read for its budget operation
    attempt,        \* attempt: how many attempts came before this one
    repeatable,     \* may the request be sent again?
    calls,          \* calls so far
    deposited,      \* history: deposits by the slot they count in
    granted,        \* history: withdrawals by the slot they count in
    newest,         \* history: the latest slot a budget operation has read
    resent,         \* history: attempts other than first ones
    wasted          \* history: withdrawals whose attempt was never made

history == <<deposited, granted, newest, resent, wasted>>

vars == <<budget, clock, pc, reading, attempt, repeatable, calls, history>>

Slots == 0 .. LastSlot

Init ==
    /\ BudgetInit
    /\ clock = 0
    /\ pc = [c \in Callers |-> "idle"]
    /\ reading = [c \in Callers |-> 0]
    /\ attempt = [c \in Callers |-> 0]
    /\ repeatable = [c \in Callers |-> FALSE]
    /\ calls = 0
    /\ deposited = [s \in Slots |-> 0]
    /\ granted = [s \in Slots |-> 0]
    /\ newest = 0
    /\ resent = 0
    /\ wasted = 0

Goto(c, place) == pc' = [pc EXCEPT ![c] = place]

ReadClock(c) == reading' = [reading EXCEPT ![c] = clock]

(* An idle caller remembers nothing of its last call.                      *)
End(c) ==
    /\ Goto(c, "idle")
    /\ reading' = [reading EXCEPT ![c] = 0]
    /\ attempt' = [attempt EXCEPT ![c] = 0]
    /\ repeatable' = [repeatable EXCEPT ![c] = FALSE]

(* The slot an operation counts in: the latest that any has read.          *)
CountsIn(c) == Max({newest, reading[c]})

-----------------------------------------------------------------------------
(* A call begins: deposit() reads the clock.                               *)
Begin(c) ==
    /\ pc[c] = "idle"
    /\ calls < MaxCalls
    /\ calls' = calls + 1
    /\ ReadClock(c)
    /\ \E r \in BOOLEAN : repeatable' = [repeatable EXCEPT ![c] = r]
    /\ Goto(c, "depositing")
    /\ UNCHANGED <<budget, clock, attempt, history>>

MakeDeposit(c) ==
    /\ pc[c] = "depositing"
    /\ Deposit(reading[c])
    /\ newest' = CountsIn(c)
    /\ deposited' = [deposited EXCEPT ![newest'] = @ + 1]
    /\ Goto(c, "calling")
    /\ UNCHANGED <<clock, reading, attempt, repeatable, calls, granted, resent, wasted>>

(* Faulty variant: attempts are counted from one.                          *)
LastAttempt_OffByOne(c) == attempt[c] >= MaxAttempts

LastAttempt(c) == attempt[c] + 1 >= MaxAttempts

(* Faulty variant: a streaming body is sent again.                         *)
MayRetry_AnyBody(c) == ~LastAttempt(c)

(* decide() up to Retry-After: the method is one to retry, the body can be *)
(* replayed and there are attempts left.                                   *)
MayRetry(c) == repeatable[c] /\ ~LastAttempt(c)

(* The attempt ends the call: with a response, with an exception that is   *)
(* not retryable, with one that is but must not be retried, or (also where *)
(* a retry would be allowed) with a Retry-After above max_delay.           *)
Finish(c) ==
    /\ pc[c] = "calling"
    /\ End(c)
    /\ UNCHANGED <<budget, clock, calls, history>>

(* A retryable failure that decide() takes to the budget: try_withdraw()   *)
(* reads the clock.                                                        *)
Fail(c) ==
    /\ pc[c] = "calling"
    /\ MayRetry(c)
    /\ ReadClock(c)
    /\ Goto(c, "withdrawing")
    /\ UNCHANGED <<budget, clock, attempt, repeatable, calls, history>>

GetToken(c) ==
    /\ pc[c] = "withdrawing"
    /\ Withdraw(reading[c])
    /\ newest' = CountsIn(c)
    /\ granted' = [granted EXCEPT ![newest'] = @ + 1]
    /\ Goto(c, "sleeping")
    /\ UNCHANGED <<clock, reading, attempt, repeatable, calls, deposited, resent, wasted>>

(* Faulty variant: the answer of the budget is not heeded.                 *)
GetRefused_RetriesAnyway(c) ==
    /\ pc[c] = "withdrawing"
    /\ RefuseRetry(reading[c])
    /\ newest' = CountsIn(c)
    /\ Goto(c, "sleeping")
    /\ UNCHANGED <<clock, reading, attempt, repeatable, calls, deposited, granted, resent, wasted>>

(* RetryBudgetExhaustedError                                               *)
GetRefused(c) ==
    /\ pc[c] = "withdrawing"
    /\ RefuseRetry(reading[c])
    /\ newest' = CountsIn(c)
    /\ End(c)
    /\ UNCHANGED <<clock, calls, deposited, granted, resent, wasted>>

(* The sleep is over: the next attempt.                                    *)
Wake(c) ==
    /\ pc[c] = "sleeping"
    /\ attempt' = [attempt EXCEPT ![c] = @ + 1]
    /\ resent' = resent + 1
    /\ Goto(c, "calling")
    /\ UNCHANGED <<budget, clock, reading, repeatable, calls, deposited, granted, newest, wasted>>

(* It is interrupted; the token is not given back.                         *)
Interrupt(c) ==
    /\ pc[c] = "sleeping"
    /\ wasted' = wasted + 1
    /\ End(c)
    /\ UNCHANGED <<budget, clock, calls, deposited, granted, newest, resent>>

Tick ==
    /\ clock < LastSlot
    /\ clock' = clock + 1
    /\ UNCHANGED <<budget, pc, reading, attempt, repeatable, calls, history>>

(* All calls made and over: where the bound ends the run.                  *)
Finished ==
    /\ calls = MaxCalls /\ \A c \in Callers : pc[c] = "idle"
    /\ UNCHANGED vars

Step(c) ==
    \/ Begin(c) \/ MakeDeposit(c) \/ Finish(c) \/ Fail(c)
    \/ GetToken(c) \/ GetRefused(c) \/ Wake(c) \/ Interrupt(c)

Next == Tick \/ Finished \/ \E c \in Callers : Step(c)

Spec == Init /\ [][Next]_vars

-----------------------------------------------------------------------------
(* The budget's ring, the callers, and never more attempts than allowed,   *)
(* so the loops' "unreachable" ends are just that; only one for a request  *)
(* whose method or body rules out another.                                 *)
TypeOK ==
    /\ slot \in Slots \cup {NoSlot}
    /\ bucket_deposits \in [Buckets -> Nat]
    /\ bucket_withdrawn \in [Buckets -> Nat]
    /\ deposits \in Nat /\ withdrawn \in Nat
    /\ clock \in Slots
    /\ pc \in [Callers -> {"idle", "depositing", "calling", "withdrawing", "sleeping"}]
    /\ reading \in [Callers -> Slots]
    /\ repeatable \in [Callers -> BOOLEAN]
    /\ attempt \in [Callers -> 0 .. MaxAttempts - 1]
    /\ \A c \in Callers : attempt[c] > 0 \/ pc[c] = "sleeping" => repeatable[c]
    /\ calls \in 0 .. MaxCalls
    /\ deposited \in [Slots -> Nat] /\ granted \in [Slots -> Nat]
    /\ newest \in Slots /\ resent \in Nat /\ wasted \in Nat

Window(last) == {s \in Slots : s > last - BucketCount /\ s <= last}

Sum(f, slots) == SumFunctionOnSet(f, slots)

(* Whatever the order in which threads get from their clock reading to the *)
(* lock, the totals are the deposits and withdrawals of the last           *)
(* BucketCount slots, none kept longer and none dropped sooner.            *)
TotalsMatchHistory ==
    slot # NoSlot =>
        /\ deposits = Sum(deposited, Window(slot))
        /\ withdrawn = Sum(granted, Window(slot))

(* In any window the retries granted are paid for by the deposits of that  *)
(* window and the one before it (and the floor): an outage cannot make     *)
(* callers together send more than that.                                   *)
NoRetryStorm ==
    \A s \in Slots :
        LET paying == {r \in Slots : r > s - 2 * BucketCount /\ r <= s}
        IN Sum(granted, Window(s)) <= Ceiling(Sum(deposited, paying))

(* Every attempt but the first of a call has been paid for with a token of *)
(* its own, and every token is an attempt made, about to be made or given  *)
(* up in its sleep.                                                        *)
RetriesPaid ==
    Sum(granted, Slots) =
        resent + wasted + Cardinality({c \in Callers : pc[c] = "sleeping"})

(* The budget refuses a retry only when the live withdrawals have used up  *)
(* what the live deposits and the floor allow: no caller pays for slots    *)
(* that have expired.                                                      *)
RefusedOnlyWhenSpent ==
    [][\A c \in Callers : GetRefused(c) =>
         Sum(granted, Window(newest')) >= Ceiling(Sum(deposited, Window(newest')))]_vars
=============================================================================
