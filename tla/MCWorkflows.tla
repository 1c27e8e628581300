----------------------------- MODULE MCWorkflows -----------------------------
(* Three operations in a row, of all kinds, with one command that does not end *)
(* by exiting and one change by another program.                               *)
EXTENDS Workflows

\* All operations but those that differ from another one in their name only.
MCOps == AllOps \ {"createBranch", "renameBranch", "setBranchUpstream", "lockWorktree",
                    "unlockWorktree", "addSubmodule", "syncSubmodule", "unstagePaths",
                    "deleteTag", "pushTag", "dropCommit"}
=============================================================================
