--------------------------- MODULE CommandPromise ---------------------------
(***************************************************************************)
(* What the cloud promises of a command, with the channel, the gateway and *)
(* the database left out: "acked" is only shown for a command the gateway  *)
(* took, "done" only for one it handed to an executor, nothing is executed *)
(* before it was accepted, and every accepted command ends in "done" or    *)
(* "expired" and stays in one of the two.                                  *)
(***************************************************************************)
CONSTANT Commands

VARIABLES
    status,  \* command -> what the API answers for it; "none": unknown id
    taken,   \* commands the gateway accepted
    tried    \* commands handed to an executor

vars == <<status, taken, tried>>

Shown    == {"queued", "acked", "done", "expired"}
Terminal == {"done", "expired"}

Init == /\ status = [c \in Commands |-> "none"]
        /\ taken = {}
        /\ tried = {}

Accept(c) == /\ status[c] = "none"
             /\ status' = [status EXCEPT ![c] = "queued"]
             /\ UNCHANGED <<taken, tried>>

Take(c) == /\ status[c] # "none"
           /\ taken' = taken \cup {c}
           /\ UNCHANGED <<status, tried>>

Try(c) == /\ c \in taken
          /\ tried' = tried \cup {c}
          /\ UNCHANGED <<status, taken>>

(* One commit of the database may settle several commands. *)
Show(S, s) ==
    /\ \A c \in S : status[c] # "none"
    /\ s = "acked" => S \subseteq taken
    /\ s = "done" => S \subseteq tried
    /\ status' = [c \in Commands |-> IF c \in S THEN s ELSE status[c]]
    /\ UNCHANGED <<taken, tried>>

Next == \/ \E c \in Commands : Accept(c) \/ Take(c) \/ Try(c)
        \/ \E S \in SUBSET Commands, s \in Shown \ {"queued"} : Show(S, s)

Settles == \A c \in Commands :
              (status[c] # "none") ~> [](status[c] \in Terminal)

Spec == Init /\ [][Next]_vars
=============================================================================
