------------------------------ MODULE LlmLoop -------------------------------
(***************************************************************************)
(* The conversation of one attempt with the LLM: the tool loop that both   *)
(* providers share (connectors/llm/anthropic_provider.py and               *)
(* gemini_provider.py) and the file_reader it calls                        *)
(* (remediate/context_builder.py).  Each of the two counts reads against a *)
(* constant of its own.                                                    *)
(***************************************************************************)
EXTENDS Naturals

CONSTANTS
  MaxFileReads,   \* MAX_FILE_READS of connectors/llm/limits.py
  MaxReaderReads  \* MAX_FILE_READS of remediate/context_builder.py

\* Bound of the model, not of the code.
CONSTANT MaxCalls \* the model asks for at most this many files in one turn

ASSUME ReadsAssumption ==
  /\ MaxFileReads \in Nat
  /\ MaxReaderReads \in Nat
  /\ MaxCalls \in Nat

VARIABLES
  reads,          \* `reads` of the provider, as far as it is compared
  reader,         \* state["reads"] of the file_reader
  refused         \* the file_reader has refused a call for its limit

loopVars == <<reads, reader, refused>>

LoopTypeOK ==
  /\ reads \in 0 .. MaxFileReads + 1
  /\ reader \in 0 .. MaxReaderReads
  /\ refused \in BOOLEAN

LoopInit ==
  /\ reads = 0
  /\ reader = 0
  /\ refused = FALSE

-----------------------------------------------------------------------------

Least(m, n) == IF m < n THEN m ELSE n

\* make_file_reader, and the provider's first call.  Both counts are locals:
\* nothing of them is left when the conversation is over.
StartConversation ==
  /\ reads' = 0
  /\ reader' = 0
  /\ refused' = FALSE

EndConversation == StartConversation

\* Mutated: a read is counted after the limit is looked at.
GrantedAfterCount(calls) ==
  Least(calls, MaxFileReads + 1 - Least(reads, MaxFileReads + 1))

\* The provider counts a read and answers it itself beyond the limit.
Granted(calls) ==
  Least(calls, MaxFileReads - Least(reads, MaxFileReads))

\* A turn of the model that asks for `calls` files: those within the provider's
\* limit go to the file_reader, which counts them, found or not, against its
\* own; everything else is answered with an error text.
ReadFiles(calls) ==
  /\ reads' = Least(reads + calls, MaxFileReads + 1)
  /\ reader' = Least(reader + Granted(calls), MaxReaderReads)
  /\ refused' = (refused \/ reader + Granted(calls) > MaxReaderReads)
=============================================================================
