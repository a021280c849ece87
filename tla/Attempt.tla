------------------------------ MODULE Attempt -------------------------------
(***************************************************************************)
(* One working copy over many attempts: RemediatePipeline._remediate_one   *)
(* down to the files, as WorkTree and LlmLoop have them.  remediate.lock   *)
(* lets one attempt run at a time; which issue comes next is Remediate's   *)
(* matter and left open here.                                              *)
(***************************************************************************)
EXTENDS WorkTree, LlmLoop

CONSTANTS
  DryRuns,        \* the values of --dry-run the attempts are made with
  Verified,       \* issues whose route has a verify_command
  NoIssue         \* no attempt is being made

\* Bound of the model, not of the code.
CONSTANT MaxAttempts

ASSUME IssuesAssumption ==
  /\ NoIssue \notin Issues
  /\ DryRuns \subseteq BOOLEAN
  /\ Verified \subseteq Issues
  /\ MaxAttempts \in Nat

VARIABLES
  pc,             \* the step of the attempt
  issue,          \* the issue it is made for
  edited,         \* changed_files
  attempts        \* attempts made, up to MaxAttempts

attemptVars == <<pc, issue, edited, attempts>>
vars == <<treeVars, loopVars, attemptVars>>

\* Type invariant.  An attempt past the clone has one.
TypeOK ==
  /\ TreeTypeOK
  /\ LoopTypeOK
  /\ pc \in {"idle", "cloning", "generating", "applying", "verifying",
             "committing", "pushing"}
  /\ issue \in Issues \cup {NoIssue}
  /\ edited \in SUBSET Paths
  /\ attempts \in 0 .. MaxAttempts
  /\ pc # "idle" <=> issue # NoIssue
  /\ pc \notin {"idle", "cloning"} => clone.present

Init ==
  /\ TreeInit
  /\ LoopInit
  /\ pc = "idle"
  /\ issue = NoIssue
  /\ edited = {}
  /\ attempts = 0

-----------------------------------------------------------------------------

StartAttempt(k) ==
  /\ pc = "idle"
  /\ attempts < MaxAttempts
  /\ attempts' = attempts + 1
  /\ pc' = "cloning"
  /\ issue' = k
  /\ UNCHANGED <<edited, treeVars, loopVars>>

Goto(next) ==
  /\ pc' = next
  /\ UNCHANGED <<issue, edited, attempts>>

\* The attempt is over, by success, by an exception or by the death of the
\* process: its locals go, the working copy stays as it is.
Leave ==
  /\ pc' = "idle"
  /\ issue' = NoIssue
  /\ edited' = {}
  /\ EndConversation
  /\ UNCHANGED attempts

\* clone_or_update, create_branch, make_file_reader.
CloneBranch ==
  /\ pc = "cloning"
  /\ clone_or_update
  /\ StartConversation
  /\ Goto("generating")

\* The model asks for files and nothing else.
ReadTurn(calls) ==
  /\ pc = "generating"
  /\ calls > 0
  /\ ReadFiles(calls)
  /\ UNCHANGED <<treeVars, attemptVars>>

\* The model submits, after some reads in the same turn.
SubmitTurn(calls) ==
  /\ pc = "generating"
  /\ ReadFiles(calls)
  /\ Goto("applying")
  /\ UNCHANGED treeVars

\* _apply_edits goes through; an edit that writes what is there is none.
ApplyEdits(written, deleted) ==
  /\ pc = "applying"
  /\ WriteEdits(issue, written, deleted)
  /\ edited' = written \cup deleted
  /\ pc' = IF issue \in Verified THEN "verifying" ELSE "committing"
  /\ EndConversation
  /\ UNCHANGED <<issue, attempts>>

\* _apply_edits raises, or the process dies, after some of the edits.
ApplyEditsPartly(written, deleted) ==
  /\ pc = "applying"
  /\ WriteEdits(issue, written, deleted)
  /\ Leave

\* verify_command passes; it leaves no file behind that git does not ignore.
Verify ==
  /\ pc = "verifying"
  /\ Goto("committing")
  /\ UNCHANGED <<treeVars, loopVars>>

\* A dry run ends here, with the edits in the working copy.
DryReturn ==
  /\ pc = "committing"
  /\ TRUE \in DryRuns
  /\ Leave
  /\ UNCHANGED treeVars

Commit ==
  /\ pc = "committing"
  /\ FALSE \in DryRuns
  /\ commit_all
  /\ Goto("pushing")
  /\ UNCHANGED loopVars

\* There is nothing to commit, or the commit fails or the process dies after
\* the add.
CommitFails ==
  /\ pc = "committing"
  /\ FALSE \in DryRuns
  /\ AddOnly
  /\ Leave

PushBranch ==
  /\ pc = "pushing"
  /\ push_branch(issue, edited) \/ PushReplyLost(issue, edited)
  /\ Leave

\* Any other step raises, or the process dies at it: no route to GitHub, no
\* answer or none with a tool call from the LLM, the verify_command failing,
\* the lease refused.
AttemptFails ==
  /\ pc # "idle"
  /\ Leave
  /\ UNCHANGED treeVars

People ==
  /\ \E k \in Issues : MergeBranch(k) \/ AmendBranch(k) \/ DeleteBranch(k)
  /\ UNCHANGED <<loopVars, attemptVars>>

Next ==
  \/ \E k \in Issues : StartAttempt(k)
  \/ CloneBranch
  \/ \E calls \in 0 .. MaxCalls : ReadTurn(calls) \/ SubmitTurn(calls)
  \/ \E written \in SUBSET Paths, deleted \in SUBSET Paths :
       /\ written \cap deleted = {}
       /\ ApplyEdits(written, deleted) \/ ApplyEditsPartly(written, deleted)
  \/ Verify
  \/ DryReturn
  \/ Commit
  \/ CommitFails
  \/ PushBranch
  \/ AttemptFails
  \/ People

Spec == Init /\ [][Next]_vars

-----------------------------------------------------------------------------

\* What a branch changes apart from the edits its attempt lists is files that
\* were not in its base: reset --hard gives every file git knows back its
\* upstream content, whatever the attempt before left in the files, in the
\* index or on its own branch.
OnlyNewFilesLeak ==
  \A k \in Issues : branches[k] # NoBranch =>
    \A p \in Changes(k) \ branches[k].listed : branches[k].base[p] = Absent

\* A commit somebody else has added to the branch is never pushed over: what
\* replaces it is not a tip of this program.
ForeignCommitSurvives ==
  [][\A k \in Issues :
       (branches[k] # NoBranch /\ ~ branches[k].ours)
         => branches'[k] \in {branches[k], NoBranch}]_vars

\* The two limits on reads agree over any conversation: the file_reader, which
\* compares before it counts, never refuses a read that the provider, which
\* counts before it compares, has granted.
GrantedReadsAreServed == MaxReaderReads >= MaxFileReads => ~ refused

\* Every change on a branch is in the list its pull request shows.
EveryChangeIsListed ==
  \A k \in Issues : branches[k] # NoBranch => Changes(k) \subseteq branches[k].listed
=============================================================================
