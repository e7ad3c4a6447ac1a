------------------------------ MODULE WorkingTree ------------------------------
(***************************************************************************)
(* What differs between HEAD and the working tree (Repo::worktree_changes, *)
(* repo/gix_repo/mod.rs and repo/mod.rs).  HEAD, the index and the disk    *)
(* are trees; unmerged paths are refused and symlinks skipped there, and   *)
(* left out here.                                                          *)
(***************************************************************************)
EXTENDS ImportGraph

\* Rewrite tracking pairs a staged addition with a staged deletion; which
\* pairs, the contents and the configuration say.
Pairings(head, index) ==
    LET added == Files(index) \ Files(head)
        deleted == Files(head) \ Files(index)
    IN UNION {Injection(s, deleted) : s \in SUBSET added}

Staged(head, index) == {p \in Paths : index[p] # head[p]}
Unstaged(index, disk) == {p \in Files(index) : disk[p] # index[p]}

\* net_classify_candidates
Kind(head, disk, p) ==
    IF p \notin Files(head) THEN "added"
    ELSE IF p \notin Files(disk) THEN "deleted" ELSE "modified"

Change(head, disk, pairing, p) ==
    [path |-> p, kind |-> Kind(head, disk, p),
     rename_from |-> IF p \in DOMAIN pairing THEN pairing[p] ELSE NoPath]

Candidates(head, index, disk) == Staged(head, index) \cup Unstaged(index, disk)

\* Mutant: what HEAD and the disk both lack is a change too
Undropped(head, index, disk, pairing) ==
    {Change(head, disk, pairing, p) : p \in Candidates(head, index, disk)}

worktree_changes(head, index, disk, pairing) ==
    {Change(head, disk, pairing, p) :
        p \in Candidates(head, index, disk) \cap (Files(head) \cup Files(disk))}

\* The working tree as the change set sees it: what is tracked, as it is on disk.
Tracked(head, index, disk) ==
    [p \in Paths |-> IF p \in Files(head) \cup Files(index) THEN disk[p] ELSE NoFile]

Untracked(head, index, disk) ==
    [p \in Paths |-> IF p \in Files(head) \cup Files(index) THEN NoFile ELSE disk[p]]
================================================================================
