---------------------------- MODULE Conversation ----------------------------
(***************************************************************************)
(* What a chat thread promises, whatever its mode: questions, each with at *)
(* most one answer.  A question may stay unanswered (its run failed), only *)
(* the latest question is ever answered, and nothing changes an answer     *)
(* once it is given.  Questions are numbered in the order in which they    *)
(* are asked, not without gaps.  ChatTurns is shown to implement it.       *)
(***************************************************************************)
EXTENDS Naturals

CONSTANTS
  Answer,    \* what an answer may be
  Unanswered \* what a question has before it has an answer

VARIABLE log \* the answer, or Unanswered, of every question so far

ConversationInit == log = [q \in {} |-> Unanswered]

AskQuestion ==
  \E q \in DOMAIN log' :
    /\ \A r \in DOMAIN log : r < q
    /\ log' = [r \in DOMAIN log \cup {q} |-> IF r = q THEN Unanswered ELSE log[r]]

GiveAnswer ==
  \E q \in DOMAIN log :
    /\ \A r \in DOMAIN log : r <= q
    /\ log[q] = Unanswered
    /\ DOMAIN log' = DOMAIN log /\ log'[q] \in Answer
    /\ \A r \in DOMAIN log \ {q} : log'[r] = log[r]

ConversationSpec == ConversationInit /\ [][AskQuestion \/ GiveAnswer]_log
=============================================================================
