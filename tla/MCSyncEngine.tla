----------------------------- MODULE MCSyncEngine -----------------------------
(* Instances of SyncEngine for TLC: how often each event of the environment *)
(* happens in a run, and the symmetry of interchangeable goroutines.        *)
EXTENDS SyncEngine, TLC

Budget(uploads, choices, edits, reads, faults, crashes) ==
    [uploads |-> uploads, choices |-> choices, edits |-> edits,
     reads |-> reads, faults |-> faults, crashes |-> crashes]

\* What can delay or undo delivery: with another reader and a failure, an edit
\* of the mapping or the directory, or a restart; a conflict action with either.
SettleLimits == {Budget(1, 0, 1, 1, 1, 0), Budget(1, 0, 0, 1, 1, 1),
                 Budget(1, 1, 0, 1, 0, 0), Budget(1, 1, 0, 0, 1, 0)}

\* Exact positions.
ExactLimits == {Budget(2, 0, 0, 1, 1, 0)}

\* Two uploads overlap.
StaleLimits == {Budget(2, 0, 0, 0, 0, 0)}

\* A choice overlaps a push or a pass.
IgnoreLimits == {Budget(1, 1, 0, 1, 0, 0)}

\* A choice, and a push of it that fails.
KeepLimits == {Budget(1, 1, 0, 1, 1, 0)}

UploadSymmetry == Permutations(Uploads)
=============================================================================
