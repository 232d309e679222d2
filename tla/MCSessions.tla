----------------------------- MODULE MCSessions -----------------------------
(* Instances of Sessions for TLC. *)
EXTENDS Sessions, TLC

\* Request slots and devices are interchangeable; so are users and session ids.
Symmetry == Permutations(Reqs) \cup Permutations(Devices)
              \cup Permutations(Users) \cup Permutations(Sids)
=============================================================================
