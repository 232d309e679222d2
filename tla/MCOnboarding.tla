---------------------------- MODULE MCOnboarding ----------------------------
(* An instance of Onboarding for TLC. *)
EXTENDS Onboarding, TLC

CONSTANTS intj, esfp, q1, q2, no, yes

\* The first question decides.
MCPredict(answers) == IF answers[q1] = yes THEN esfp ELSE intj

\* Everything at once, and the first question alone.
MCInputs == {[q \in Questions |-> no], (q1 :> yes) @@ (q2 :> NoValue)}

Symmetry == Permutations(Reqs) \cup Permutations(Attempts)
=============================================================================
