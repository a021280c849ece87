--------------------------- MODULE AttemptProofs ----------------------------
(***************************************************************************)
(* Theorems about Attempt, for every set of issues and of paths, every     *)
(* number of attempts and both limits on reads.                            *)
(***************************************************************************)
EXTENDS Attempt, TLAPS

LEMMA InitType == Init => TypeOK
<1> SUFFICES ASSUME Init PROVE TypeOK
  OBVIOUS
<1>1. FirstTree \in Tree
  BY ContentAssumption DEF Tree, Content
<1>2. TreeTypeOK
  BY <1>1 DEF Init, TreeInit, TreeTypeOK, Clone, Tracking
<1>3. LoopTypeOK
  <2>1. reads \in 0 .. MaxFileReads + 1 /\ reader \in 0 .. MaxReaderReads
    BY ReadsAssumption DEF Init, LoopInit
  <2>2. refused \in BOOLEAN
    BY DEF Init, LoopInit
  <2> QED
    BY <2>1, <2>2 DEF LoopTypeOK
<1>4. attempts \in 0 .. MaxAttempts
  BY IssuesAssumption DEF Init
<1>5. /\ pc = "idle"
      /\ issue = NoIssue
      /\ edited = {}
  BY DEF Init
<1> QED
  BY <1>2, <1>3, <1>4, <1>5 DEF TypeOK

\* The git commands keep the types of the trees.
LEMMA CloneType ==
  ASSUME TreeTypeOK, clone_or_update
  PROVE  TreeTypeOK' /\ clone'.present
<1>1. CASE CloneFresh
  BY <1>1 DEF TreeTypeOK, clone_or_update, CloneFresh, Clone, Tracking
<1>2. CASE UpdateClone
  <2> DEFINE work == [p \in Paths |->
                        IF main[p] = Absent /\ clone.index[p] = Absent
                          THEN clone.work[p] ELSE main[p]]
  <2>1. work \in Tree
    BY DEF TreeTypeOK, Clone, Tree
  <2>2. clone' = [clone EXCEPT !.base = main, !.index = main, !.work = work]
    BY <1>2 DEF UpdateClone
  <2> HIDE DEF work
  <2> QED
    BY <1>2, <2>1, <2>2 DEF TreeTypeOK, clone_or_update, UpdateClone, Clone
<1> QED
  BY <1>1, <1>2 DEF clone_or_update

LEMMA WriteType ==
  ASSUME TreeTypeOK, NEW k \in Issues, NEW written \in SUBSET Paths,
         NEW deleted \in SUBSET Paths, WriteEdits(k, written, deleted)
  PROVE  TreeTypeOK' /\ clone'.present = clone.present
BY DEF TreeTypeOK, WriteEdits, Clone, Tree, Content

LEMMA AddType ==
  ASSUME TreeTypeOK, commit_all \/ AddOnly
  PROVE  TreeTypeOK' /\ clone'.present = clone.present
BY DEF TreeTypeOK, commit_all, AddOnly, Clone

LEMMA PushType ==
  ASSUME TreeTypeOK, NEW k \in Issues, NEW files \in SUBSET Paths,
         push_branch(k, files) \/ PushReplyLost(k, files)
  PROVE  TreeTypeOK' /\ clone' = clone
<1>1. PICK known \in Tracking : Push(k, files, known)
  BY DEF push_branch, PushReplyLost, Tracking, TreeTypeOK
<1>2. [base |-> clone.base, tip |-> clone.index, ours |-> TRUE, listed |-> files]
        \in Branch
  BY DEF TreeTypeOK, Clone, Branch
<1> QED
  BY <1>1, <1>2 DEF TreeTypeOK, Push

LEMMA PeopleType ==
  ASSUME TreeTypeOK, People
  PROVE  TreeTypeOK' /\ clone' = clone
<1>1. PICK k \in Issues : MergeBranch(k) \/ AmendBranch(k) \/ DeleteBranch(k)
  BY DEF People
<1>2. branches[k] \in Branch
  BY <1>1 DEF MergeBranch, AmendBranch, DeleteBranch, TreeTypeOK
<1>3. CASE MergeBranch(k)
  BY <1>2, <1>3 DEF MergeBranch, TreeTypeOK, Branch, Tree
<1>4. CASE AmendBranch(k)
  BY <1>2, <1>4 DEF AmendBranch, NoLongerTip, TreeTypeOK, Branch, Tracking
<1>5. CASE DeleteBranch(k)
  BY <1>5 DEF DeleteBranch, NoLongerTip, TreeTypeOK, Tracking
<1> QED
  BY <1>1, <1>3, <1>4, <1>5

\* The counts stay within what is compared.
LEMMA ReadType ==
  ASSUME LoopTypeOK, NEW calls \in 0 .. MaxCalls, ReadFiles(calls)
  PROVE  LoopTypeOK'
<1>1. Granted(calls) \in Nat
  BY ReadsAssumption DEF Granted, Least, LoopTypeOK
<1> QED
  BY <1>1, ReadsAssumption DEF LoopTypeOK, ReadFiles, Least

LEMMA EndType == EndConversation => LoopTypeOK'
<1> SUFFICES ASSUME EndConversation PROVE LoopTypeOK'
  OBVIOUS
<1>1. reads' \in 0 .. MaxFileReads + 1 /\ reader' \in 0 .. MaxReaderReads
  BY ReadsAssumption DEF EndConversation, StartConversation
<1>2. refused' \in BOOLEAN
  BY DEF EndConversation, StartConversation
<1> QED
  BY <1>1, <1>2 DEF LoopTypeOK

LEMMA LeaveType ==
  ASSUME TypeOK, Leave, TreeTypeOK'
  PROVE  TypeOK'
BY EndType DEF TypeOK, Leave

LEMMA StepType ==
  ASSUME TypeOK, Next
  PROVE  TypeOK'
<1> USE IssuesAssumption
<1>1. ASSUME NEW k \in Issues, StartAttempt(k)
      PROVE  TypeOK'
  BY <1>1 DEF StartAttempt, TypeOK, TreeTypeOK, LoopTypeOK, treeVars, loopVars
<1>2. CASE CloneBranch
  <2>1. TreeTypeOK' /\ clone'.present /\ LoopTypeOK'
    BY <1>2, CloneType, EndType DEF CloneBranch, TypeOK, EndConversation
  <2> QED
    BY <1>2, <2>1 DEF CloneBranch, Goto, TypeOK
<1>3. ASSUME NEW calls \in 0 .. MaxCalls, ReadTurn(calls) \/ SubmitTurn(calls)
      PROVE  TypeOK'
  <2>1. LoopTypeOK'
    BY <1>3, ReadType DEF ReadTurn, SubmitTurn, TypeOK
  <2>2. TreeTypeOK' /\ clone' = clone
    BY <1>3 DEF ReadTurn, SubmitTurn, TypeOK, TreeTypeOK, treeVars
  <2> QED
    BY <1>3, <2>1, <2>2 DEF ReadTurn, SubmitTurn, Goto, TypeOK, attemptVars
<1>4. ASSUME NEW written \in SUBSET Paths, NEW deleted \in SUBSET Paths,
             ApplyEdits(written, deleted)
      PROVE  TypeOK'
  <2>1. issue \in Issues /\ clone.present
    BY <1>4 DEF ApplyEdits, TypeOK
  <2>2. TreeTypeOK' /\ clone'.present /\ LoopTypeOK'
    BY <1>4, <2>1, WriteType, EndType DEF ApplyEdits, TypeOK
  <2> QED
    BY <1>4, <2>1, <2>2 DEF ApplyEdits, TypeOK
<1>5. ASSUME NEW written \in SUBSET Paths, NEW deleted \in SUBSET Paths,
             ApplyEditsPartly(written, deleted)
      PROVE  TypeOK'
  <2>1. issue \in Issues
    BY <1>5 DEF ApplyEditsPartly, TypeOK
  <2> QED
    BY <1>5, <2>1, WriteType, LeaveType DEF ApplyEditsPartly, TypeOK
<1>6. CASE Verify
  BY <1>6 DEF Verify, Goto, TypeOK, TreeTypeOK, LoopTypeOK, treeVars, loopVars
<1>7. CASE DryReturn \/ AttemptFails
  <2>1. TreeTypeOK'
    BY <1>7 DEF DryReturn, AttemptFails, TypeOK, TreeTypeOK, treeVars
  <2> QED
    BY <1>7, <2>1, LeaveType DEF DryReturn, AttemptFails
<1>8. CASE Commit
  <2>1. TreeTypeOK' /\ clone'.present = clone.present /\ LoopTypeOK'
    BY <1>8, AddType DEF Commit, TypeOK, LoopTypeOK, loopVars
  <2> QED
    BY <1>8, <2>1 DEF Commit, Goto, TypeOK
<1>9. CASE CommitFails
  BY <1>9, AddType, LeaveType DEF CommitFails, TypeOK
<1>10. CASE PushBranch
  <2>1. issue \in Issues /\ edited \in SUBSET Paths
    BY <1>10 DEF PushBranch, TypeOK
  <2> QED
    BY <1>10, <2>1, PushType, LeaveType DEF PushBranch, TypeOK
<1>11. CASE People
  <2>1. TreeTypeOK' /\ clone' = clone
    BY <1>11, PeopleType DEF TypeOK
  <2> QED
    BY <1>11, <2>1 DEF People, TypeOK, LoopTypeOK, loopVars, attemptVars
<1> QED
  BY <1>1, <1>2, <1>3, <1>4, <1>5, <1>6, <1>7, <1>8, <1>9, <1>10, <1>11 DEF Next

\* Type correctness: an attempt past the clone has an issue and a working copy,
\* and both counts of reads stay within what they are compared with.
THEOREM TypeCorrect == Spec => []TypeOK
<1>1. TypeOK /\ UNCHANGED vars => TypeOK'
  BY DEF TypeOK, TreeTypeOK, LoopTypeOK, vars, treeVars, loopVars, attemptVars
<1> QED
  BY InitType, StepType, <1>1, PTL DEF Spec

-----------------------------------------------------------------------------
(* Reads                                                                    *)

\* The file_reader has counted as many reads as the provider has granted.
ReaderInv ==
  MaxReaderReads >= MaxFileReads =>
    /\ reader = Least(reads, MaxFileReads)
    /\ ~ refused

LEMMA ReaderStep ==
  ASSUME TypeOK, ReaderInv, [Next]_vars
  PROVE  ReaderInv'
<1>1. CASE UNCHANGED loopVars
  BY <1>1 DEF ReaderInv, loopVars
<1>2. CASE EndConversation
  BY <1>2, ReadsAssumption DEF EndConversation, StartConversation, ReaderInv, Least
<1>3. ASSUME NEW calls \in 0 .. MaxCalls, ReadFiles(calls)
      PROVE  ReaderInv'
  <2> SUFFICES ASSUME MaxReaderReads >= MaxFileReads
               PROVE  reader' = Least(reads', MaxFileReads) /\ ~ refused'
    BY DEF ReaderInv
  <2>1. reads \in Nat /\ calls \in Nat
    BY <1>3, ReadsAssumption DEF TypeOK, LoopTypeOK
  <2>2. reader = Least(reads, MaxFileReads) /\ ~ refused
    BY DEF ReaderInv
  <2>3. reader + Granted(calls) = Least(reads + calls, MaxFileReads)
    BY <2>1, <2>2, ReadsAssumption DEF Granted, Least
  <2>4. reader + Granted(calls) <= MaxReaderReads
    BY <2>1, <2>3, ReadsAssumption DEF Least
  <2>5. reader' = Least(reads', MaxFileReads)
    BY <1>3, <2>1, <2>3, <2>4, ReadsAssumption DEF ReadFiles, Least
  <2>6. ~ (reader + Granted(calls) > MaxReaderReads)
    <3>1. reader + Granted(calls) \in Nat
      BY <2>1, <2>3, ReadsAssumption DEF Least
    <3> QED
      BY <2>4, <3>1, ReadsAssumption
  <2> QED
    BY <1>3, <2>2, <2>5, <2>6 DEF ReadFiles
<1> QED
  BY <1>1, <1>2, <1>3 DEF Next, vars, StartAttempt, CloneBranch, ReadTurn,
     SubmitTurn, ApplyEdits, ApplyEditsPartly, Verify, DryReturn, Commit,
     CommitFails, PushBranch, AttemptFails, People, Leave, EndConversation

\* The file_reader serves every read the provider grants, in any conversation
\* of any length, as long as its own constant is not the smaller of the two.
THEOREM ReadsAreServed == Spec => []GrantedReadsAreServed
<1>1. Init => ReaderInv
  BY ReadsAssumption DEF Init, LoopInit, ReaderInv, Least
<1>2. TypeOK /\ ReaderInv /\ [Next]_vars => ReaderInv'
  BY ReaderStep
<1>3. ReaderInv => GrantedReadsAreServed
  BY DEF ReaderInv, GrantedReadsAreServed
<1> QED
  BY TypeCorrect, <1>1, <1>2, <1>3, PTL DEF Spec

-----------------------------------------------------------------------------
(* What a branch holds                                                      *)

\* `tree` differs from the commit the branch was made at only in `files` and in
\* files which that commit does not have.
OnlyAdds(tree, files) ==
  \A p \in Paths : tree[p] # clone.base[p] /\ p \notin files => clone.base[p] = Absent

\* The same of the working copy in each step of an attempt: after the reset,
\* after the edits, after the commit.
LeakInv ==
  /\ pc \in {"generating", "applying"} => OnlyAdds(clone.work, {})
  /\ pc \in {"verifying", "committing"} => OnlyAdds(clone.work, edited)
  /\ pc = "pushing" => OnlyAdds(clone.index, edited)

LEMMA LeakStep ==
  ASSUME TypeOK, LeakInv, [Next]_vars
  PROVE  LeakInv'
<1>1. CASE UNCHANGED <<clone, pc, edited>>
  BY <1>1 DEF LeakInv, OnlyAdds
<1>2. CASE pc' \in {"idle", "cloning"}
  BY <1>2 DEF LeakInv
<1>3. CASE CloneBranch
  <2>1. CASE CloneFresh
    BY <1>3, <2>1 DEF CloneBranch, Goto, CloneFresh, LeakInv, OnlyAdds
  <2>2. CASE UpdateClone
    BY <1>3, <2>2 DEF CloneBranch, Goto, UpdateClone, LeakInv, OnlyAdds, TypeOK,
       TreeTypeOK, Clone
  <2> QED
    BY <1>3, <2>1, <2>2 DEF CloneBranch, clone_or_update
<1>4. ASSUME NEW calls \in 0 .. MaxCalls, SubmitTurn(calls)
      PROVE  LeakInv'
  BY <1>4 DEF SubmitTurn, Goto, treeVars, LeakInv, OnlyAdds
<1>5. ASSUME NEW written \in SUBSET Paths, NEW deleted \in SUBSET Paths,
             ApplyEdits(written, deleted)
      PROVE  LeakInv'
  <2>1. OnlyAdds(clone.work, {}) /\ clone \in Clone
    BY <1>5 DEF ApplyEdits, LeakInv, TypeOK, TreeTypeOK
  <2>2. OnlyAdds(clone.work, edited)'
    BY <1>5, <2>1 DEF ApplyEdits, WriteEdits, OnlyAdds, Clone
  <2>3. pc' \in {"verifying", "committing"}
    BY <1>5 DEF ApplyEdits
  <2> QED
    BY <2>2, <2>3 DEF LeakInv
<1>6. CASE Verify
  BY <1>6 DEF Verify, Goto, treeVars, LeakInv, OnlyAdds
<1>7. CASE Commit
  BY <1>7 DEF Commit, Goto, commit_all, LeakInv, OnlyAdds, TypeOK, TreeTypeOK, Clone
<1> QED
  BY <1>1, <1>2, <1>3, <1>4, <1>5, <1>6, <1>7 DEF Next, vars, attemptVars,
     treeVars, StartAttempt, ReadTurn, ApplyEditsPartly, DryReturn, CommitFails,
     PushBranch, AttemptFails, People, MergeBranch, AmendBranch, DeleteBranch, Leave

LEMMA BranchStep ==
  ASSUME TypeOK, LeakInv, OnlyNewFilesLeak, [Next]_vars
  PROVE  OnlyNewFilesLeak'
<1>1. CASE UNCHANGED branches
  BY <1>1 DEF OnlyNewFilesLeak, Changes
<1>2. CASE PushBranch
  <2>1. PICK known \in Tracking : Push(issue, edited, known)
    BY <1>2 DEF PushBranch, push_branch, PushReplyLost, Tracking, TypeOK, TreeTypeOK
  <2>2. OnlyAdds(clone.index, edited) /\ issue \in Issues
    BY <1>2 DEF PushBranch, LeakInv, TypeOK
  <2>3. /\ branches'[issue] = [base |-> clone.base, tip |-> clone.index,
                               ours |-> TRUE, listed |-> edited]
        /\ \A k \in Issues \ {issue} : branches'[k] = branches[k]
    BY <2>1, <2>2 DEF Push, TypeOK, TreeTypeOK
  <2> QED
    BY <2>2, <2>3 DEF OnlyNewFilesLeak, Changes, OnlyAdds
<1>3. CASE People
  <2>1. PICK k \in Issues : MergeBranch(k) \/ AmendBranch(k) \/ DeleteBranch(k)
    BY <1>3 DEF People
  <2>2. CASE MergeBranch(k)
    BY <1>1, <2>2 DEF MergeBranch
  <2>3. CASE AmendBranch(k)
    BY <2>3 DEF AmendBranch, OnlyNewFilesLeak, Changes, TypeOK, TreeTypeOK, Branch
  <2>4. CASE DeleteBranch(k)
    BY <2>4 DEF DeleteBranch, OnlyNewFilesLeak, Changes, TypeOK, TreeTypeOK
  <2> QED
    BY <2>1, <2>2, <2>3, <2>4
<1> QED
  BY <1>1, <1>2, <1>3 DEF Next, vars, treeVars, StartAttempt, CloneBranch,
     clone_or_update, ReadTurn, SubmitTurn, ApplyEdits, ApplyEditsPartly,
     WriteEdits, Verify, DryReturn, Commit, commit_all, CommitFails, AddOnly,
     AttemptFails

\* A change on a branch that its attempt does not list is a file its base did
\* not have, whatever attempts were made in the working copy before: nothing
\* of a failed attempt survives the reset in a file that git knows.
THEOREM LeaksAreNewFiles == Spec => []OnlyNewFilesLeak
<1>1. Init => LeakInv /\ OnlyNewFilesLeak
  BY DEF Init, TreeInit, LeakInv, OnlyNewFilesLeak
<1>2. TypeOK /\ LeakInv /\ OnlyNewFilesLeak /\ [Next]_vars
        => LeakInv' /\ OnlyNewFilesLeak'
  BY LeakStep, BranchStep
<1> QED
  BY TypeCorrect, <1>1, <1>2, PTL DEF Spec

-----------------------------------------------------------------------------
(* The lease                                                                *)

\* The working copy has not seen a tip that is not of this program; before
\* there is a working copy there is no branch.
LeaseInv ==
  /\ ~ clone.present => \A k \in Issues : branches[k] = NoBranch
  /\ \A k \in Issues :
       branches[k] # NoBranch /\ ~ branches[k].ours => tracking[k] # "tip"

LEMMA LeaseStep ==
  ASSUME TypeOK, LeaseInv, [Next]_vars
  PROVE  LeaseInv'
<1>1. CASE UNCHANGED <<branches, tracking>> /\ clone'.present = clone.present
  BY <1>1 DEF LeaseInv
<1>2. CASE CloneBranch
  BY <1>2 DEF CloneBranch, clone_or_update, CloneFresh, UpdateClone, LeaseInv,
     TypeOK, TreeTypeOK, Clone
<1>3. CASE PushBranch
  <2>1. PICK known \in Tracking : Push(issue, edited, known)
    BY <1>3 DEF PushBranch, push_branch, PushReplyLost, Tracking, TypeOK, TreeTypeOK
  <2>2. issue \in Issues /\ clone.present
    BY <1>3 DEF PushBranch, TypeOK
  <2>3. /\ branches'[issue].ours
        /\ \A k \in Issues \ {issue} : /\ branches'[k] = branches[k]
                                       /\ tracking'[k] = tracking[k]
        /\ clone' = clone
    BY <2>1, <2>2 DEF Push, TypeOK, TreeTypeOK
  <2> QED
    BY <2>2, <2>3 DEF LeaseInv
<1>4. CASE People
  <2>1. PICK k \in Issues : MergeBranch(k) \/ AmendBranch(k) \/ DeleteBranch(k)
    BY <1>4 DEF People
  <2>2. CASE MergeBranch(k)
    BY <1>1, <2>2 DEF MergeBranch
  <2>3. CASE AmendBranch(k) \/ DeleteBranch(k)
    <3>1. clone' = clone /\ tracking'[k] # "tip"
      BY <2>3 DEF AmendBranch, DeleteBranch, NoLongerTip, TypeOK, TreeTypeOK
    <3>2. \A j \in Issues \ {k} : branches'[j] = branches[j] /\ tracking'[j] = tracking[j]
      BY <2>3 DEF AmendBranch, DeleteBranch, NoLongerTip, TypeOK, TreeTypeOK
    <3>3. branches[k] # NoBranch
      BY <2>3 DEF AmendBranch, DeleteBranch
    <3> QED
      BY <3>1, <3>2, <3>3 DEF LeaseInv
  <2> QED
    BY <2>1, <2>2, <2>3
<1>5. ASSUME NEW k \in Issues, NEW written \in SUBSET Paths,
             NEW deleted \in SUBSET Paths, WriteEdits(k, written, deleted)
      PROVE  LeaseInv'
  BY <1>1, <1>5, WriteType DEF WriteEdits, TypeOK
<1>6. CASE commit_all \/ AddOnly
  BY <1>1, <1>6, AddType DEF commit_all, AddOnly, TypeOK
<1>7. CASE \E written, deleted \in SUBSET Paths :
             ApplyEdits(written, deleted) \/ ApplyEditsPartly(written, deleted)
  <2>1. issue \in Issues
    BY <1>7 DEF ApplyEdits, ApplyEditsPartly, TypeOK
  <2> QED
    BY <1>5, <1>7, <2>1 DEF ApplyEdits, ApplyEditsPartly
<1> QED
  BY <1>1, <1>2, <1>3, <1>4, <1>6, <1>7 DEF Next, vars, treeVars, StartAttempt,
     ReadTurn, SubmitTurn, Verify, DryReturn, Commit, CommitFails, AttemptFails

LEMMA ForeignStep ==
  ASSUME TypeOK, LeaseInv, [Next]_vars, NEW k \in Issues,
         branches[k] # NoBranch, ~ branches[k].ours
  PROVE  branches'[k] \in {branches[k], NoBranch}
<1>1. CASE UNCHANGED branches
  BY <1>1
<1>2. CASE PushBranch
  <2>1. PICK known \in Tracking : Push(issue, edited, known)
    BY <1>2 DEF PushBranch, push_branch, PushReplyLost, Tracking, TypeOK, TreeTypeOK
  <2>2. issue # k
    BY <2>1 DEF Push, LeaseHolds, LeaseInv
  <2> QED
    BY <2>1, <2>2 DEF Push, TypeOK, TreeTypeOK
<1>3. CASE People
  <2>1. PICK j \in Issues : MergeBranch(j) \/ AmendBranch(j) \/ DeleteBranch(j)
    BY <1>3 DEF People
  <2> QED
    BY <2>1 DEF MergeBranch, AmendBranch, DeleteBranch, TypeOK, TreeTypeOK
<1> QED
  BY <1>1, <1>2, <1>3 DEF Next, vars, treeVars, StartAttempt, CloneBranch,
     clone_or_update, ReadTurn, SubmitTurn, ApplyEdits, ApplyEditsPartly,
     WriteEdits, Verify, DryReturn, Commit, commit_all, CommitFails, AddOnly,
     AttemptFails

\* No push replaces a tip that somebody else has made, over any number of
\* attempts, deleted branches and pushes whose answer was lost: the lease fails
\* because no fetch of this program ever takes the new tip in.
THEOREM ForeignCommitsSurvive == Spec => ForeignCommitSurvives
<1>1. Init => LeaseInv
  BY DEF Init, TreeInit, LeaseInv
<1>2. TypeOK /\ LeaseInv /\ [Next]_vars => LeaseInv'
  BY LeaseStep
<1>3. TypeOK /\ LeaseInv /\ [Next]_vars
        => [\A k \in Issues :
              (branches[k] # NoBranch /\ ~ branches[k].ours)
                => branches'[k] \in {branches[k], NoBranch}]_vars
  BY ForeignStep
<1> QED
  BY TypeCorrect, <1>1, <1>2, <1>3, PTL DEF Spec, ForeignCommitSurvives
=============================================================================
