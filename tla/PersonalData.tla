----------------------------- MODULE PersonalData -----------------------------
(***************************************************************************)
(* What the community promises its members about their accounts, without   *)
(* sessions, locks, requests or recovery: a member joins once, keeps what  *)
(* is personal while the account is active, and leaves in one step with    *)
(* nothing kept and no way back.                                           *)
(***************************************************************************)
CONSTANTS Accounts, Kinds    \* Kinds of personal data

VARIABLES life, kept    \* kept: of each account, the kinds of which there are rows

vars == <<life, kept>>

Init == /\ life = [a \in Accounts |-> "none"]
        /\ kept = [a \in Accounts |-> {}]

Join(a) == /\ life[a] = "none"
           /\ life' = [life EXCEPT ![a] = "active"]
           /\ \E k \in SUBSET Kinds : kept' = [kept EXCEPT ![a] = k]

\* What one member does may add to or take from what another's account keeps.
Change == /\ kept' \in [Accounts -> SUBSET Kinds]
          /\ \A a \in Accounts : life[a] # "active" => kept'[a] = kept[a]
          /\ UNCHANGED life

Leave(a) == /\ life[a] = "active"
            /\ life' = [life EXCEPT ![a] = "deleted"]
            /\ kept' \in [Accounts -> SUBSET Kinds]
            /\ kept'[a] = {}
            /\ \A b \in Accounts \ {a} : life[b] # "active" => kept'[b] = kept[b]

Next == Change \/ \E a \in Accounts : Join(a) \/ Leave(a)

Spec == Init /\ [][Next]_vars
=============================================================================
