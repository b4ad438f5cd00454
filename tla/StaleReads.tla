----------------------------- MODULE StaleReads -----------------------------
(***************************************************************************)
(* What a reader of cached data is promised, whatever does the caching: an *)
(* answer is the value the source has, or one it had no longer than Window *)
(* ago.  Nothing here knows of a cache.                                    *)
(***************************************************************************)
EXTENDS Naturals

CONSTANTS
  Values,   \* what the source may contain
  NoAnswer, \* nothing is being answered
  Window    \* how old an answer may be, in ticks

VARIABLES
  value,    \* what the source contains
  past,     \* what it contained in the last Window ticks: value and age
  answer    \* what a reader is given in this step

readVars == <<value, past, answer>>

Init ==
  /\ value \in Values
  /\ past = {}
  /\ answer = NoAnswer

\* The source changes, unseen by readers.
Change ==
  /\ value' \in Values \ {value}
  /\ past' = past \cup {[value |-> value, age |-> 0]}
  /\ answer' = NoAnswer

\* Time passes: what is too old can no longer be answered.
Pass ==
  /\ past' = {[value |-> p.value, age |-> p.age + 1] :
                p \in {q \in past : q.age < Window}}
  /\ answer' = NoAnswer
  /\ UNCHANGED value

Read ==
  /\ answer' \in {value} \cup {p.value : p \in past}
  /\ UNCHANGED <<value, past>>

\* The answer has been taken.
Taken == answer' = NoAnswer /\ UNCHANGED <<value, past>>

Next == Change \/ Pass \/ Read \/ Taken

Spec == Init /\ [][Next]_readVars
=============================================================================
