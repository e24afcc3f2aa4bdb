----------------------------- MODULE MCUsageLog -----------------------------
(* Model-checking instance of UsageLog: see MCUsageLog.cfg for batches of  *)
(* two and MCUsageLogOne.cfg for USAGE_LOG_BATCH_SIZE=1.                   *)
EXTENDS UsageLog

MCEntries == 5
MCFailures == 2
=============================================================================
