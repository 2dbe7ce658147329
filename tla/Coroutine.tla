----------------------------- MODULE Coroutine -----------------------------
(***************************************************************************)
(* What a coroutine with a yield_context or an await_context promises: it  *)
(* starts one operation at a time and goes on when that operation has been *)
(* answered, neither before nor twice, whether the answer came before or   *)
(* after it stopped to wait.  An operation may be dropped unanswered; the  *)
(* coroutine then never goes on.                                           *)
(***************************************************************************)
VARIABLES mode,   \* "running", "waiting" or "ended"
          answer  \* to the operation waited for: "none", "pending", "given", "lost"

vars == <<mode, answer>>

Init == mode = "running" /\ answer = "none"

Begin ==
  /\ mode = "running" /\ mode' = "waiting"
  /\ answer' = "pending"

Answer == mode = "waiting" /\ answer = "pending" /\ answer' = "given" /\ UNCHANGED mode

\* The operation may have been all that kept the coroutine.
Drop ==
  /\ mode = "waiting" /\ answer = "pending"
  /\ \/ answer' = "lost" /\ UNCHANGED mode
     \/ answer' = "none" /\ mode' = "ended"

Continue == mode = "waiting" /\ answer = "given" /\ mode' = "running" /\ answer' = "none"

\* It returns, throws, or is destroyed with an operation that was dropped, or
\* that failed.
End ==
  /\ \/ mode = "running"
     \/ mode = "waiting" /\ answer \in {"lost", "given"}
  /\ mode' = "ended" /\ answer' = "none"

Next == Begin \/ Answer \/ Drop \/ Continue \/ End

\* It does not wait for ever for what has been given.
GoesOn == []<>~(mode = "waiting" /\ answer = "given")
=============================================================================
