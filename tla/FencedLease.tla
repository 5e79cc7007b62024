----------------------------- MODULE FencedLease -----------------------------
(***************************************************************************)
(* What a recipe's lease promises its holders, whatever the tables do: at  *)
(* most one token is in force for a recipe, a token in force is never      *)
(* replaced directly by another, and a token that stopped being in force   *)
(* (released, expired, or its recipe deleted) is never in force again.     *)
(***************************************************************************)
CONSTANTS
  Key,      \* what is leased
  Token,    \* what a claim hands out; token.key is the key it is for
  NoToken   \* in place of a token: nobody holds the lease

VARIABLES
  holder,   \* the token in force for each key
  granted   \* every token ever handed out

vars == <<holder, granted>>

TypeOK ==
  /\ holder \in [Key -> Token \cup {NoToken}]
  /\ granted \subseteq Token

Init ==
  /\ holder = [k \in Key |-> NoToken]
  /\ granted = {}

\* A free lease goes to a token that was never handed out before.
Grant(tok) ==
  /\ tok.key \in Key
  /\ holder[tok.key] = NoToken
  /\ tok \notin granted
  /\ holder' = [holder EXCEPT ![tok.key] = tok]
  /\ granted' = granted \cup {tok}

\* Leases end: by release one at a time, by expiry or deletion several at once.
Lapse(keys) ==
  /\ keys # {}
  /\ holder' = [k \in Key |-> IF k \in keys THEN NoToken ELSE holder[k]]
  /\ UNCHANGED granted

Next ==
  \/ \E tok \in Token : Grant(tok)
  \/ \E keys \in SUBSET Key : Lapse(keys)

Spec == Init /\ [][Next]_vars

-----------------------------------------------------------------------------
\* A token handed out and not in force stays out of force for ever.
Dead(tok) == tok \in granted /\ holder[tok.key] # tok

DeadStaysDead == [][\A tok \in granted : Dead(tok) => Dead(tok)']_vars
=============================================================================
