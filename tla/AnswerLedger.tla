---------------------------- MODULE AnswerLedger ----------------------------
(***************************************************************************)
(* What the answer pipeline promises about each answer, however often its  *)
(* message is delivered and whoever crashes: an accepted answer is settled *)
(* at most once, either scored, and its score is then in the session's     *)
(* total exactly once, or failed, and it is not.  No code of its own: the  *)
(* modules with queues, locks and workers implement it.                    *)
(***************************************************************************)
EXTENDS Naturals

CONSTANT Turns

VARIABLES
  book,       \* what is known of each answer
  credits     \* how often the score of each answer has been added

ledger == <<book, credits>>

Init ==
  /\ book = [t \in Turns |-> "unknown"]
  /\ credits = [t \in Turns |-> 0]

Accept(t) ==
  /\ book[t] = "unknown"
  /\ book' = [book EXCEPT ![t] = "accepted"]
  /\ UNCHANGED credits

Score(t) ==
  /\ book[t] = "accepted"
  /\ book' = [book EXCEPT ![t] = "scored"]
  /\ credits' = [credits EXCEPT ![t] = @ + 1]

Fail(t) ==
  /\ book[t] = "accepted"
  /\ book' = [book EXCEPT ![t] = "failed"]
  /\ UNCHANGED credits

Next == \E t \in Turns : Accept(t) \/ Score(t) \/ Fail(t)

Spec == Init /\ [][Next]_ledger
=============================================================================
