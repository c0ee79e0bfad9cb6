----------------------------- MODULE Repository -----------------------------
(***************************************************************************)
(* What the local repository of iolsucker promises its user, whatever the  *)
(* network and the process do: a file of the course material is absent     *)
(* until the moment it appears under its final name, and from then on it   *)
(* is never touched again.  It appears whole, or short of its last stdio   *)
(* buffer, never with bytes of another file and never half written.        *)
(*                                                                         *)
(* Download refines this specification.                                    *)
(***************************************************************************)

CONSTANT Entries     \* the final path names of the course material

VARIABLE store       \* what a reader of the repository sees under each name

Content == {"absent", "whole", "short"}

Init == store = [e \in Entries |-> "absent"]

\* One file appears, in one step.
Appear(e) ==
    /\ store[e] = "absent"
    /\ \E c \in {"whole", "short"} : store' = [store EXCEPT ![e] = c]

Next == \E e \in Entries : Appear(e)

Spec == Init /\ [][Next]_store

=============================================================================
