---------------------------- MODULE RetryBackoff -----------------------------
(***************************************************************************)
(* The backoff of the CRM retry worker.                                    *)
(***************************************************************************)
EXTENDS Naturals

\* exponential_retry_delay: the loop doubles and caps once for every attempt.
RetryDelay(attempts, base, max) ==
  LET delay[n \in 0..attempts] ==
        IF n = 0 THEN base
        ELSE IF delay[n - 1] >= max \/ delay[n - 1] * 2 > max THEN max
        ELSE delay[n - 1] * 2
  IN delay[attempts]
=============================================================================
