----------------------------- MODULE OracleRetry -----------------------------
(***************************************************************************)
(* run_oracle_with_retry of apr: one oracle invocation after another, with *)
(* two separate budgets.  A failure classified as "busy" (single-flight    *)
(* contention) waits with its own backoff, count and total; any other      *)
(* failure uses up one of the MaxAttempts generic attempts.                *)
(*                                                                         *)
(* The classification reads a file that tee, an asynchronous process       *)
(* substitution, is still writing, and all invocations share the file: a   *)
(* busy failure may be read as a generic one, and a generic failure as a   *)
(* busy one when the words of an earlier invocation come late.             *)
(***************************************************************************)
EXTENDS Naturals

CONSTANTS Configs, BusyCode

\* APR_MAX_RETRIES, APR_INITIAL_BACKOFF, APR_BUSY_MAX_RETRIES,
\* APR_BUSY_INITIAL_BACKOFF, APR_BUSY_MAX_SLEEP and APR_BUSY_MAX_WAIT, after
\* the defaults replaced invalid values (0 disables the total wait).
ASSUME RetryAssumption ==
    /\ Configs \subseteq [attempts : Nat \ {0}, backoff : Nat,
                          busyAttempts : Nat \ {0}, busyBackoff : Nat,
                          busySleep : Nat, busyWait : Nat]
    /\ BusyCode \in Nat \ {0, 1}

VARIABLES
    config,
    phase,          \* "invoke", "classify", "busy", "generic" or "done"
    attempt, backoff,
    busyAttempts, busyBackoff, busyElapsed,
    last,           \* what the last oracle invocation did: "ok", "busy", "fail"
    wasBusy,        \* an invocation has said that oracle is busy
    ret,            \* the return code
    invocations,    \* oracle invocations so far
    slept           \* seconds spent in generic backoff

retryVars == <<attempt, backoff, slept>>
busyVars  == <<busyAttempts, busyBackoff, busyElapsed>>
loopVars == <<config, phase, attempt, backoff, busyAttempts, busyBackoff, busyElapsed,
              last, wasBusy, ret, invocations, slept>>

FailCode == 1
Returns == {0, FailCode, BusyCode}

RetryTypeOK ==
    /\ config \in Configs
    /\ phase \in {"invoke", "classify", "busy", "generic", "done"}
    /\ attempt \in 1..config.attempts + 1 /\ backoff \in Nat
    /\ busyAttempts \in 0..config.busyAttempts
    /\ busyBackoff \in Nat /\ busyElapsed \in Nat
    /\ last \in {"none", "ok", "busy", "fail"} /\ wasBusy \in BOOLEAN
    /\ ret \in Returns /\ invocations \in Nat /\ slept \in Nat

RetryInit ==
    /\ config \in Configs
    /\ phase = "invoke"
    /\ attempt = 1 /\ backoff = config.backoff
    /\ busyAttempts = 0 /\ busyBackoff = config.busyBackoff /\ busyElapsed = 0
    /\ last = "none" /\ wasBusy = FALSE /\ ret = 0 /\ invocations = 0 /\ slept = 0

Least(a, b) == IF a < b THEN a ELSE b

Invoke ==
    /\ phase = "invoke"
    /\ last' \in {"ok", "busy", "fail"}
    /\ wasBusy' = (wasBusy \/ last' = "busy")
    /\ invocations' = invocations + 1
    /\ phase' = IF last' = "ok" THEN "done" ELSE "classify"
    /\ ret' = IF last' = "ok" THEN 0 ELSE FailCode
    /\ UNCHANGED <<config, retryVars, busyVars>>

\* apr_lib_busy_detect_text on what has arrived of the captured stderr, which
\* may be an earlier invocation's.
Classify ==
    /\ phase = "classify"
    /\ phase' \in (IF wasBusy THEN {"busy", "generic"} ELSE {"generic"})
    /\ UNCHANGED <<config, retryVars, busyVars, last, wasBusy, ret, invocations>>

\* The busy budget after n busy failures: by count, and by seconds waited.
BusyExhausted(n) ==
    \/ n >= config.busyAttempts
    \/ config.busyWait > 0 /\ busyElapsed >= config.busyWait

\* Wrong variant: the caller cannot see that oracle was busy.
BusyGivesUpGeneric ==
    /\ phase = "busy" /\ BusyExhausted(busyAttempts + 1)
    /\ busyAttempts' = busyAttempts + 1
    /\ ret' = FailCode /\ phase' = "done"
    /\ UNCHANGED <<config, retryVars, busyBackoff, busyElapsed, last, wasBusy, invocations>>

BusyGivesUp ==
    /\ phase = "busy" /\ BusyExhausted(busyAttempts + 1)
    /\ busyAttempts' = busyAttempts + 1
    /\ ret' = BusyCode /\ phase' = "done"
    /\ UNCHANGED <<config, retryVars, busyBackoff, busyElapsed, last, wasBusy, invocations>>

BusySleep == Least(busyBackoff, config.busySleep)

\* Wrong variant: a busy wait that falls through to the generic counter.
BusyWaitsBurning ==
    /\ phase = "busy" /\ ~BusyExhausted(busyAttempts + 1)
    /\ busyAttempts' = busyAttempts + 1
    /\ busyElapsed' = busyElapsed + BusySleep
    /\ busyBackoff' = Least(busyBackoff * 2, config.busySleep)
    /\ attempt' = attempt + 1
    /\ phase' = IF attempt' > config.attempts THEN "done" ELSE "invoke"
    /\ UNCHANGED <<config, backoff, slept, last, wasBusy, ret, invocations>>

\* "continue": no generic attempt is used up.
BusyWaits ==
    /\ phase = "busy" /\ ~BusyExhausted(busyAttempts + 1)
    /\ busyAttempts' = busyAttempts + 1
    /\ busyElapsed' = busyElapsed + BusySleep
    /\ busyBackoff' = Least(busyBackoff * 2, config.busySleep)
    /\ phase' = "invoke"
    /\ UNCHANGED <<config, retryVars, last, wasBusy, ret, invocations>>

\* No sleep after the last generic attempt.
Generic ==
    /\ phase = "generic"
    /\ IF attempt < config.attempts
       THEN slept' = slept + backoff /\ backoff' = backoff * 3
       ELSE UNCHANGED <<slept, backoff>>
    /\ attempt' = attempt + 1
    /\ phase' = IF attempt' > config.attempts THEN "done" ELSE "invoke"
    /\ UNCHANGED <<config, busyVars, last, wasBusy, ret, invocations>>

Done == phase = "done" /\ UNCHANGED loopVars

RetryNext == Invoke \/ Classify \/ BusyGivesUp \/ BusyWaits \/ Generic \/ Done

RetrySpec == RetryInit /\ [][RetryNext]_loopVars
-----------------------------------------------------------------------------
(* Properties. *)

\* What the generic backoff has been multiplied with after n sleeps.
Growth(n) ==
    LET power[i \in 0..n] == IF i = 0 THEN 1 ELSE 3 * power[i - 1] IN power[n]

\* However busy failures, generic failures and misread ones alternate, every
\* invocation that failed is charged to exactly one of the two budgets (a busy
\* wait does not burn a generic attempt, apr:1628), so that oracle is invoked at
\* most once per generic attempt plus once per tolerated busy failure; the total
\* wait on a busy oracle overshoots its budget by less than one maximal sleep,
\* since it is tested before the next sleep is chosen; and the generic sleeps
\* add up to b + 3b + 9b + ..., one less than attempts.
WithinBudgets ==
    LET tries == Least(attempt, config.attempts) - 1
    IN /\ phase \in {"invoke", "done"} =>
            invocations = (attempt - 1) + busyAttempts + (IF last = "ok" THEN 1 ELSE 0)
       /\ invocations <= config.attempts + config.busyAttempts - 1
       /\ config.busyWait > 0 /\ busyElapsed > 0 => busyElapsed < config.busyWait + config.busySleep
       /\ 2 * slept = config.backoff * (Growth(tries) - 1)

\* However late the words of an invocation reach the file (apr:1567-1568), the
\* return code is 0 exactly when the last invocation succeeded, BusyCode only
\* when some invocation was busy and the busy budget is used up, and a generic
\* failure only after every generic attempt.  A loop in which oracle never said
\* it was busy never waits as if it had.
ReturnHonest ==
    /\ phase = "done" =>
         /\ ret = 0 <=> last = "ok"
         /\ ret = BusyCode => wasBusy /\ BusyExhausted(busyAttempts)
         /\ ret = FailCode => attempt = config.attempts + 1
    /\ ~wasBusy => busyAttempts = 0 /\ busyElapsed = 0
=============================================================================
