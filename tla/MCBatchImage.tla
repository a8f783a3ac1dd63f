---------------------------- MODULE MCBatchImage ----------------------------
(* Instances of BatchImage for TLC: one job with a hold of two units, next   *)
(* to another job's hold in the same frozen balance.                         *)
EXTENDS BatchImage, TLC

WorkerSymmetry == Permutations(Workers)

\* Steps of the way forward: what fails or stops here is made good by a retry,
\* by the recovery of stale jobs or by the queue.
ForwardLabels == {"reserve", "items", "upload", "provider", "record", "enqueue"}
FailingSteps == ForwardLabels \cup WorkerLabels \cup
    {"returnHold", "quitUpload", "markFailed", "abort", "reenqueue",
     "cancelUpstream", "cancelJob", "cancelRelease", "sweepRelease"}
StoppingSteps == ForwardLabels \cup WorkerLabels
=============================================================================
