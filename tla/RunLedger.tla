----------------------------- MODULE RunLedger -----------------------------
(***************************************************************************)
(* What the store promises about run ids, whatever its callers do: every   *)
(* acquired iteration opens a run that was never used before, an open run  *)
(* ends once, and a task's count moves by one, either with the end of one  *)
(* of its runs or with a completion that names no run.  Runs may also end  *)
(* without being counted (expiry, lost lease, a failed preflight).         *)
(***************************************************************************)
EXTENDS Integers

CONSTANTS Task, Run

VARIABLES
  open,   \* the runs in progress, as <<task, run>>
  used,   \* every run id ever opened
  count   \* completed iterations of each task

lvars == <<open, used, count>>

LedgerTypeOK ==
  /\ open \subseteq Task \X Run
  /\ used \subseteq Run
  /\ count \in [Task -> Nat]

LedgerInit == open = {} /\ used = {} /\ count = [t \in Task |-> 0]

\* Some runs are written off, others are opened under ids never used before,
\* each for a task of its own.
Turnover ==
  /\ count' = count
  /\ used \subseteq used'
  /\ open' \subseteq Task \X used'
  /\ \A a \in open' \ open :
       /\ a[2] \notin used
       /\ \A b \in open' \ open : (a[1] = b[1]) <=> (a[2] = b[2])
  /\ \A r \in used' \ used : \E t \in Task : <<t, r>> \in open'

\* An iteration ends with its run, or with no run at all.
Count(t) ==
  /\ count' = [count EXCEPT ![t] = @ + 1]
  /\ used' = used
  /\ open' = open \/ \E r \in Run : <<t, r>> \in open /\ open' = open \ {<<t, r>>}

LedgerNext == Turnover \/ \E t \in Task : Count(t)

LedgerSpec == LedgerInit /\ [][LedgerNext]_lvars

=============================================================================
