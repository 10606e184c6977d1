--------------------------- MODULE ToolCallQuota ---------------------------
(***************************************************************************)
(* A tool call under both quotas, and the process around it.  A request    *)
(* passes the rate limiter in gateCtx before its tool runs, and its        *)
(* response is charged to the token budget when the tool is done; any      *)
(* number of other requests, snapshot writes and clock ticks may fall      *)
(* between the two, and so may the shutdown of the server.                 *)
(***************************************************************************)
EXTENDS TokenBudget, Lifecycle

CONSTANTS
    ResponseChars,  \* sizes a tool response may have
    MaxInflight,    \* bound of the model: tools running at once
    MaxCalls,       \* bound of the model: calls one process admits
    MaxCharges      \* bound of the model

ASSUME ToolCallAssumption ==
    /\ ResponseChars \subseteq Nat
    /\ MaxInflight \in Nat
    /\ MaxCalls \in Nat
    /\ MaxCharges \in Nat

VARIABLES
    inflight,   \* identity -> how many of its admitted requests run a tool
    pledge      \* history: the charges the last shutdown's flush took up

callVars == <<inflight, pledge>>
vars == <<now, rateVars, budgetVars, lifeVars, callVars>>

----------------------------------------------------------------------------
Init ==
    /\ now = 0
    /\ RateInit /\ BudgetInit /\ LifeInit
    /\ inflight = [id \in Identities |-> 0]
    /\ pledge = << >>

Pass ==
    /\ Tick
    /\ UNCHANGED <<rateVars, budgetVars, lifeVars, callVars>>

\* gateCtx lets the request through and its tool starts.
Admit(id) ==
    /\ phase = "up" /\ inflight[id] < MaxInflight /\ Len(admitted[id]) < MaxCalls
    /\ RateAdmit(id)
    /\ inflight' = [inflight EXCEPT ![id] = @ + 1]
    /\ UNCHANGED <<now, budgetVars, lifeVars, pledge>>

\* gateCtx answers 429.
TooMany(id) ==
    /\ phase = "up"
    /\ RateDeny(id)
    /\ UNCHANGED <<now, budgetVars, lifeVars, callVars>>

\* chargeTokenBudget: the tool is done and its response is charged, or replaced by
\* the budget error.
Respond(id) ==
    /\ Running /\ inflight[id] > 0
    /\ \E chars \in ResponseChars :
          \/ Len(ledger) < MaxCharges /\ Charge(id, EstimateTokens(chars))
          \/ Refuse(id, EstimateTokens(chars))
    /\ inflight' = [inflight EXCEPT ![id] = @ - 1]
    /\ UNCHANGED <<now, rateVars, lifeVars, pledge>>

\* The tool throws: nothing is charged.
Throw(id) ==
    /\ Running /\ inflight[id] > 0
    /\ inflight' = [inflight EXCEPT ![id] = @ - 1]
    /\ UNCHANGED <<now, rateVars, budgetVars, lifeVars, pledge>>

Flush ==
    /\ Running
    /\ TimerFires
    /\ UNCHANGED <<now, rateVars, lifeVars, callVars>>

Write ==
    /\ Running
    /\ WriteDone
    /\ UNCHANGED <<now, rateVars, lifeVars, callVars>>

\* A failed write also ends what the shutdown's flush promised.
WriteError ==
    /\ Running
    /\ WriteFails
    /\ pledge' = << >>
    /\ UNCHANGED <<now, rateVars, lifeVars, inflight>>

\* The first signal; the listener closes and requests in flight go on.
Terminate ==
    /\ Signal
    /\ UNCHANGED <<now, rateVars, budgetVars, callVars>>

\* The hooks are called: the token budget's is flushNow().
RunHooks ==
    /\ StartHooks
    /\ Enqueue(TRUE)
    /\ pledge' = ledger
    /\ UNCHANGED <<now, rateVars, inflight, buckets, flushTimer, file, ledger, startedFresh,
                   writeFailures>>

\* A slip: the hook starts the flush and does not wait for it.
HookSettledAtOnce == TRUE

\* flushNow() returns the write queue's promise, which settles with its own write.
HookSettled == \A i \in 1 .. Len(writeQueue) : ~writeQueue[i].hook

Exit ==
    /\ HookSettled
    /\ ExitSettled
    /\ BudgetStop
    /\ inflight' = [id \in Identities |-> 0]
    /\ UNCHANGED <<now, rateVars, pledge>>

Killed ==
    /\ ExitUnsettled
    /\ BudgetStop
    /\ inflight' = [id \in Identities |-> 0]
    /\ pledge' = << >>
    /\ UNCHANGED <<now, rateVars>>

Start ==
    /\ Boot
    /\ RateReset
    /\ \E readable \in BOOLEAN : Bootstrap(readable)
    /\ pledge' = << >>
    /\ UNCHANGED <<now, inflight>>

Next ==
    \/ Pass
    \/ \E id \in Identities : Admit(id) \/ TooMany(id) \/ Respond(id) \/ Throw(id)
    \/ Flush \/ Write \/ WriteError
    \/ Terminate \/ RunHooks \/ Exit \/ Killed \/ Start

\* The event loop runs a timer that is due and the file system answers.
Fairness == WF_vars(Flush) /\ WF_vars(Write \/ WriteError)

Spec == Init /\ [][Next]_vars /\ Fairness

----------------------------------------------------------------------------
TypeOK ==
    /\ RateTypeOK /\ BudgetTypeOK /\ LifeTypeOK
    /\ inflight \in [Identities -> 0 .. MaxInflight]
    /\ pledge \in Seq(ChargeRecord)

\* A response the budget refused, asked for again by a caller that waited for
\* retryAfterSeconds and one tick more, fits, unless it is larger than the whole cap.
BudgetRetrySuffices ==
    \A id \in Identities, chars \in ResponseChars, i \in 0 .. MaxCharges :
        LET tokens == EstimateTokens(chars)
            kept   == From(buckets[id], i)
            back   == now + BudgetRetrySeconds(kept, tokens) * TicksPerSecond + 1
        IN  /\ tokens <= DailyLimit
            /\ KeptFrom(buckets[id], i, now)
            /\ Exceeds(kept, tokens)
            => \A k \in 0 .. MaxCharges :
                   KeptFrom(buckets[id], k, back) => ~Exceeds(From(buckets[id], k), tokens)

\* A shutdown that ran its hooks to the end, with no failed write, left every charge
\* made before the hooks ran in the file the next process reads.
CleanExitKeepsCharges == phase = "down" => IsPrefix(pledge, file.ledger)

\* Every charge reaches the disk, unless the process stops first or a write fails.
ChargeReachesDisk ==
    \A n \in 1 .. MaxCharges :
        Len(ledger) >= n ~>
            (Len(file.ledger) >= n \/ phase # "up" \/ writeFailures > 0)
=============================================================================
