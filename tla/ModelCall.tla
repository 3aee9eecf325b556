------------------------------ MODULE ModelCall ------------------------------
(***************************************************************************)
(* One step's call of a model, from the step that is begun (core/executor, *)
(* runStep) through the gateway (effects/ai.ts, call and streamed) to what *)
(* the run makes of it (core/orchestrator.ts).  The SDK asks the provider, *)
(* retries what may be retried, and is stopped by the signal or is not.    *)
(*                                                                         *)
(* A text is as many fragments as were written of it.  Slots are the       *)
(* business of ModelGateway, masks that of MaskVault.                      *)
(***************************************************************************)
EXTENDS Naturals, Sequences, Functions

CONSTANTS
    Steps,          \* [kind, listened, critical, recoverable]
    Length,         \* fragments of a whole answer
    MaxAttempts     \* of the SDK, for one call

VARIABLES
    step,
    signal,     \* what it was stopped with, Quiet while it was not
    at,         \* where the call is
    attempts,   \* what each attempt came to
    wrote,      \* fragments the model wrote, and that the step's listener was given
    heard,
    answer,     \* what the gateway returned, if it did
    thrown,     \* the code the gateway, or the step, failed with
    lines,      \* of the log
    verdict

callVars == <<step, signal, at, attempts, wrote, heard, answer, thrown, lines, verdict>>

-----------------------------------------------------------------------------
(* Errors: those of the runtime have a code that is kept. *)
Error(is, code) == [is |-> is, code |-> code]
Quiet == Error("none", "none")
\* A person's cancel, the deadline, another step that failed, another step that asks.
Stops == {Error("runtime", "aborted"), Error("abort", "AbortError"), Error("runtime", "credential_rejected"),
          Error("other", "RunSuspended")}
Stopped == signal # Quiet
Retryable == {Error("http", "http_503")}
Refusals == {Error("http", "http_401"), Error("other", "AI_NoObjectGeneratedError")}
Misconfigured == Error("runtime", "misconfigured")

\* redact, and what is thrown for what it says.
Redacted(e) == IF e.is = "abort" THEN "aborted" ELSE e.code
Rejected == {"http_401", "http_403"}
SlipBlamesProvider(e) == IF Redacted(e) \in Rejected THEN "credential_rejected" ELSE "model_call_failed"
Thrown(e) ==
    LET code == Redacted(e)
    IN CASE code = "aborted" -> "aborted"
         [] code = "AI_NoObjectGeneratedError" -> "invalid_model_output"
         [] e.is = "runtime" /\ code # "aborted" -> code
         [] code \in Rejected -> "credential_rejected"
         [] OTHER -> "model_call_failed"

-----------------------------------------------------------------------------
None == [fragments |-> 0, finish |-> "none"]
CallInit ==
    /\ step \in Steps
    /\ signal = Quiet /\ at = "begin" /\ attempts = <<>> /\ wrote = 0 /\ heard = 0
    /\ answer = None /\ thrown = "none" /\ lines = <<>> /\ verdict = "none"

Stop ==
    /\ ~Stopped /\ verdict = "none" /\ signal' \in Stops
    /\ UNCHANGED <<step, at, attempts, wrote, heard, answer, thrown, lines, verdict>>

\* The step fails, with no line: before the gateway, or after it.
StepFails(code) ==
    /\ at' = "threw" /\ thrown' = code
    /\ UNCHANGED <<step, signal, attempts, wrote, heard, answer, lines, verdict>>
\* call, its catch: one line, and the code that goes on.
Fails(e) ==
    /\ at' = "threw" /\ thrown' = Thrown(e)
    /\ lines' = Append(lines, [outcome |-> "failed", code |-> Redacted(e)])
    /\ UNCHANGED <<step, signal, wrote, heard, answer, verdict>>

\* runStep looks once, and so does call: between them a consent may be waited for.
Begin ==
    /\ at = "begin"
    /\ \/ Stopped /\ StepFails(Redacted(signal))
       \/ ~Stopped /\ at' = "call" /\ UNCHANGED <<step, signal, attempts, wrote, heard, answer, thrown, lines, verdict>>
Call ==
    /\ at = "call"
    /\ \/ Stopped /\ StepFails("aborted")
       \/ ~Stopped /\ at' = "slot" /\ UNCHANGED <<step, signal, attempts, wrote, heard, answer, thrown, lines, verdict>>
Guarded ==
    /\ at = "slot"
    /\ \/ Stopped /\ Fails(signal) /\ UNCHANGED attempts
       \/ ~Stopped /\ Fails(Misconfigured) /\ UNCHANGED attempts
       \/ ~Stopped /\ at' = "asking" /\ UNCHANGED <<step, signal, attempts, wrote, heard, answer, thrown, lines, verdict>>

SlipFirstAttempt(tried) == tried[1]
\* The SDK: an attempt that may be repeated is, and at the last the call fails with all of
\* them; of those the last one counts.
LastAttempt(tried) == tried[Len(tried)]

AttemptFails ==
    /\ at = "asking"
    /\ \E e \in Retryable \cup Refusals :
         /\ e.code = "AI_NoObjectGeneratedError" => step.kind = "extract"
         /\ attempts' = Append(attempts, e)
         /\ IF e \in Retryable /\ Len(attempts') < MaxAttempts
            THEN UNCHANGED <<step, signal, at, wrote, heard, answer, thrown, lines, verdict>>
            ELSE Fails(LastAttempt(attempts'))
CallIsCut ==
    /\ at = "asking" /\ Stopped /\ Fails(signal) /\ UNCHANGED attempts

\* A completion ends of itself, at its limit, or, in a loop, with no turns left.
Finishes == IF step.kind = "tool_loop" THEN {"stop", "length", "tool-calls"} ELSE {"stop", "length"}
WrittenBy(finish) == IF finish = "stop" THEN {Length, 0} ELSE 0..(Length - 1)
Returns(fragments, finish) ==
    /\ at' = "returned" /\ answer' = [fragments |-> fragments, finish |-> finish]
    /\ lines' = Append(lines, [outcome |-> "ok", code |-> "none"])
    /\ UNCHANGED <<step, signal, attempts, heard, thrown, verdict>>
Generated ==
    /\ at = "asking" /\ ~step.listened
    /\ \E finish \in Finishes : \E n \in WrittenBy(finish) : wrote' = n /\ Returns(n, finish)

\* streamed: a listener that throws is not heard of.
StreamBegins ==
    /\ at = "asking" /\ step.listened /\ at' = "stream"
    /\ UNCHANGED <<step, signal, attempts, wrote, heard, answer, thrown, lines, verdict>>
Fragment ==
    /\ at = "stream" /\ wrote < Length
    /\ wrote' = wrote + 1 /\ heard' = heard + 1
    /\ UNCHANGED <<step, signal, at, attempts, answer, thrown, lines, verdict>>
\* An error does not reach the loop: the stream ends, and what onError was given is thrown.
StreamFails ==
    /\ at = "stream"
    /\ \E e \in Retryable \cup (IF Stopped THEN {signal} ELSE {}) : Fails(e)
    /\ UNCHANGED attempts
SlipTrustsTheSdk(n) == FALSE
\* Nor does an abort: what was collected looks whole, to the SDK as well if it will.
CutShort(n) == Stopped

StreamEnds ==
    /\ at = "stream"
    /\ \E finish \in Finishes :
         /\ \/ Stopped
            \/ wrote \in WrittenBy(finish)
         /\ UNCHANGED wrote
         /\ IF CutShort(wrote) THEN Fails(signal) /\ UNCHANGED attempts ELSE Returns(wrote, finish)

\* runStep: a truncated completion, an empty one and a loop that is out of turns are failures.
Unusable ==
    \/ step.kind \in {"extract", "generate"} /\ answer.finish = "length"
    \/ step.kind = "generate" /\ answer.fragments = 0
    \/ step.kind = "tool_loop" /\ answer.finish = "tool-calls"
Taken == at = "returned" /\ at' = (IF Unusable THEN "threw" ELSE "taken")
           /\ thrown' = (IF Unusable THEN "step_failed" ELSE thrown)
           /\ UNCHANGED <<step, signal, attempts, wrote, heard, answer, lines, verdict>>

SlipDegradesTheStopped(code, halted) == IF step.critical THEN "failed" ELSE "degraded"
\* The orchestrator: a step that was stopped is not one that failed.
Judged(code, halted) ==
    CASE halted -> "stopped"
      [] ~halted /\ step.critical /\ ~(step.kind = "extract" /\ code \in step.recoverable) -> "failed"
      [] OTHER -> "degraded"

Settle ==
    /\ at \in {"threw", "taken"} /\ verdict = "none"
    /\ verdict' = IF at = "taken" THEN "ok" ELSE Judged(thrown, Stopped)
    /\ UNCHANGED <<step, signal, at, attempts, wrote, heard, answer, thrown, lines>>

CallNext ==
    \/ Stop \/ Begin \/ Call \/ Guarded \/ AttemptFails \/ CallIsCut \/ Generated
    \/ StreamBegins \/ Fragment \/ StreamFails \/ StreamEnds \/ Taken \/ Settle

-----------------------------------------------------------------------------
Ended == verdict # "none"
CallTypeOK ==
    /\ heard <= wrote /\ wrote <= Length /\ Len(lines) <= 1 /\ Len(attempts) <= MaxAttempts
    /\ verdict \in {"none", "ok", "degraded", "stopped", "failed"}

\* What a step is taken to have answered, the model answered to its end, however the run was
\* stopped meanwhile; whoever listened was given all of it, and never more than was written.
\* A loop's answer, which is not held to its limit, is the exception.
AnswersAreWhole ==
    verdict = "ok" =>
      /\ answer.finish = "stop" \/ step.kind = "tool_loop"
      /\ answer.finish = "stop" => answer.fragments \in {0, Length}
      /\ step.listened => heard = answer.fragments

\* "A completion that stopped because it ran out of room is a failure, even when what came
\* back parses" (core/executor.ts).
TruncationIsFailure == verdict = "ok" => answer.finish # "length"

\* A call that was begun has its one line, which says of it what the step was told; a key
\* is blamed when the last attempt says so, the provider for what the provider answered,
\* and a stop is nobody's failure: no fallback stands for what was never read.
CallsAreToldTrue ==
    Ended =>
      /\ verdict = "ok" => lines = <<[outcome |-> "ok", code |-> "none"]>>
      /\ attempts # <<>> \/ wrote > 0 => lines # <<>>
      /\ (thrown = "credential_rejected" /\ ~Stopped) =>
           attempts # <<>> /\ LastAttempt(attempts).code = "http_401"
      /\ (attempts # <<>> /\ verdict # "ok" /\ ~Stopped /\ attempts[Len(attempts)].code = "http_401") =>
           thrown = "credential_rejected"
      /\ (thrown = "model_call_failed" /\ signal.code # "RunSuspended") => lines[1].code = "http_503"
      /\ (thrown = "aborted" \/ \E i \in DOMAIN lines : lines[i].code = "aborted") => Stopped
      /\ Stopped => verdict \in {"ok", "stopped"}
=============================================================================
