------------------------------ MODULE WorkTree ------------------------------
(***************************************************************************)
(* The working copy of one repository (connectors/github/git_ops.py), which *)
(* is reused from one attempt to the next, with GitHub's side of it: the    *)
(* default branch and the branch of each issue.                            *)
(*                                                                         *)
(* The operators below are the git commands of an attempt as steps on      *)
(* these variables; Attempt says when they are taken.  What git itself     *)
(* does with a command is external to the repository.                      *)
(***************************************************************************)

CONSTANTS
  Issues,         \* the Jira issues routed to the repository
  Paths,          \* paths of files that are not ignored by git
  FirstTree,      \* the default branch before the first attempt
  Upstream,       \* the content of a file no issue has written
  Absent,         \* the content of a path with no file
  NoBranch        \* no such branch on GitHub

\* A file is what its last writer made of it.
Content == Issues \cup {Upstream, Absent}
Tree == [Paths -> Content]

ASSUME ContentAssumption ==
  /\ Issues \cap {Upstream, Absent} = {}
  /\ FirstTree \in [Paths -> {Upstream, Absent}]

VARIABLES
  main,           \* the default branch on GitHub
  branches,       \* the branch of each issue on GitHub
  clone,          \* the working copy
  tracking        \* what its remote-tracking ref of each branch is worth

treeVars == <<main, branches, clone, tracking>>

\* A branch: the commit it starts from, its tip, whether this program pushed
\* that tip, and the files the attempt that pushed it had edited, which is
\* what _pr_body lists.
Branch == [base : Tree, tip : Tree, ours : BOOLEAN, listed : SUBSET Paths]

\* The commit the issue's branch was made at, the index and the files.  HEAD is
\* `base` until the commit and what is in the index after it.
Clone == [present : BOOLEAN, base : Tree, index : Tree, work : Tree]

\* refs/remotes/origin/<branch> is missing, is the branch's tip on GitHub, or
\* was once.
Tracking == {"none", "tip", "stale"}

TreeTypeOK ==
  /\ main \in Tree
  /\ branches \in [Issues -> Branch \cup {NoBranch}]
  /\ clone \in Clone
  /\ tracking \in [Issues -> Tracking]

TreeInit ==
  /\ main = FirstTree
  /\ branches = [k \in Issues |-> NoBranch]
  /\ clone = [present |-> FALSE, base |-> FirstTree,
              index |-> FirstTree, work |-> FirstTree]
  /\ tracking = [k \in Issues |-> "none"]

-----------------------------------------------------------------------------

\* Mutated: the clone lands at work/work/<repo>.
CloneElsewhere ==
  /\ ~ clone.present
  /\ clone' = [clone EXCEPT !.base = main, !.index = main, !.work = main]
  /\ tracking' = [k \in Issues |-> IF branches[k] = NoBranch THEN "none" ELSE "tip"]

\* git clone fetches every branch.
CloneFresh ==
  /\ ~ clone.present
  /\ clone' = [present |-> TRUE, base |-> main, index |-> main, work |-> main]
  /\ tracking' = [k \in Issues |-> IF branches[k] = NoBranch THEN "none" ELSE "tip"]

\* Mutated: checkout and a merge of the default branch, which keeps local
\* changes to the files, in place of reset --hard.
UpdateWithoutReset ==
  /\ clone.present
  /\ clone' = [clone EXCEPT !.base = main, !.index = main]
  /\ UNCHANGED tracking

\* fetch, checkout and reset --hard: a file that the index or the default
\* branch knows becomes what it is there; any other file stays.
UpdateClone ==
  /\ clone.present
  /\ clone' = [clone EXCEPT
       !.base = main,
       !.index = main,
       !.work = [p \in Paths |->
                   IF main[p] = Absent /\ clone.index[p] = Absent
                     THEN clone.work[p] ELSE main[p]]]
  /\ UNCHANGED tracking

\* create_branch after it moves no file and no commit.
clone_or_update ==
  /\ CloneFresh \/ UpdateClone
  /\ UNCHANGED <<main, branches>>

\* Files in `written` get the edit's content, those in `deleted` are unlinked.
\* No path is taken to go through a symbolic link, which the code resolves.
WriteEdits(k, written, deleted) ==
  /\ clone' = [clone EXCEPT
       !.work = [p \in Paths |-> IF p \in written THEN k
                                 ELSE IF p \in deleted THEN Absent
                                 ELSE clone.work[p]]]
  /\ UNCHANGED <<main, branches, tracking>>

\* git add -A takes every file, and git commit refuses to commit no change.
commit_all ==
  /\ clone.work # clone.base
  /\ clone' = [clone EXCEPT !.index = clone.work]
  /\ UNCHANGED <<main, branches, tracking>>

\* git add -A alone: the commit after it fails or is never made.
AddOnly ==
  /\ clone' = [clone EXCEPT !.index = clone.work]
  /\ UNCHANGED <<main, branches, tracking>>

\* Mutated: push --force.
AnyLease(k) == TRUE

\* --force-with-lease: the branch on GitHub has to be what the remote-tracking
\* ref says, and has to be missing if there is no such ref.
LeaseHolds(k) ==
  IF branches[k] = NoBranch THEN tracking[k] = "none" ELSE tracking[k] = "tip"

\* GitHub gets the commit; the remote-tracking ref becomes `known`.
Push(k, edited, known) ==
  /\ LeaseHolds(k)
  /\ branches' = [branches EXCEPT ![k] =
       [base |-> clone.base, tip |-> clone.index, ours |-> TRUE, listed |-> edited]]
  /\ tracking' = [tracking EXCEPT ![k] = known]
  /\ UNCHANGED <<main, clone>>

push_branch(k, edited) == Push(k, edited, "tip")

\* The push arrives, but git is killed or fails before it notes so.
PushReplyLost(k, edited) ==
  Push(k, edited, IF tracking[k] = "none" THEN "none" ELSE "stale")

-----------------------------------------------------------------------------
(* People on GitHub                                                         *)

NoLongerTip(k) ==
  tracking' = [tracking EXCEPT ![k] = IF @ = "none" THEN "none" ELSE "stale"]

\* What the branch of an issue changes.
Changes(k) == {p \in Paths : branches[k].tip[p] # branches[k].base[p]}

\* A reviewer merges the branch: its changes reach the default branch.
MergeBranch(k) ==
  /\ branches[k] # NoBranch
  /\ main' = [p \in Paths |-> IF p \in Changes(k) THEN branches[k].tip[p]
                                                  ELSE main[p]]
  /\ UNCHANGED <<branches, clone, tracking>>

\* A reviewer adds a commit of their own to the branch.
AmendBranch(k) ==
  /\ branches[k] # NoBranch
  /\ branches[k].ours
  /\ branches' = [branches EXCEPT ![k].ours = FALSE]
  /\ NoLongerTip(k)
  /\ UNCHANGED <<main, clone>>

\* The branch is deleted, as GitHub offers once a pull request is closed.
DeleteBranch(k) ==
  /\ branches[k] # NoBranch
  /\ branches' = [branches EXCEPT ![k] = NoBranch]
  /\ NoLongerTip(k)
  /\ UNCHANGED <<main, clone>>
=============================================================================
