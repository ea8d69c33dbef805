---------------------------- MODULE AtomicStore ----------------------------
(***************************************************************************)
(* What goql promises of transactions, and nothing of how: a transaction   *)
(* collects writes while it is open and then, in one step, all of them     *)
(* reach the database or it is dropped.  A statement outside every         *)
(* transaction is a transaction of its own.                                *)
(***************************************************************************)
CONSTANTS Tx, Item

VARIABLES
  db,        \* the writes the database holds
  made,      \* the writes each transaction has made
  outcome    \* "open", "landed" or "dropped"

vars == <<db, made, outcome>>

Init == /\ db = {}
        /\ made = [t \in Tx |-> {}]
        /\ outcome = [t \in Tx |-> "open"]

Make(t, i) == /\ outcome[t] = "open"
              /\ made' = [made EXCEPT ![t] = @ \cup {i}]
              /\ UNCHANGED <<db, outcome>>

Land(t) == /\ outcome[t] = "open"
           /\ db' = db \cup made[t]
           /\ outcome' = [outcome EXCEPT ![t] = "landed"]
           /\ UNCHANGED made

MakeAndLand(t, i) == /\ outcome[t] = "open"
                     /\ made' = [made EXCEPT ![t] = @ \cup {i}]
                     /\ db' = db \cup made'[t]
                     /\ outcome' = [outcome EXCEPT ![t] = "landed"]

Drop(t) == /\ outcome[t] = "open"
           /\ outcome' = [outcome EXCEPT ![t] = "dropped"]
           /\ UNCHANGED <<db, made>>

Next == \E t \in Tx : \/ Land(t) \/ Drop(t)
                      \/ \E i \in Item : Make(t, i) \/ MakeAndLand(t, i)

Spec == Init /\ [][Next]_vars

=============================================================================
