-------------------------- MODULE MCExerciseState --------------------------
(* Small instances of ExerciseState: the contents of a run and the symmetry *)
(* of the identities and tokens no property tells apart.                    *)
EXTENDS ExerciseState, TLC

CONSTANTS t1, t2, t3, q1, q2, q3, q4

\* A line of two tickets, the second (the capstone) with two questions.
LineRequires == (t1 :> {}) @@ (t2 :> {t1})
LineTicketOf == (q1 :> t1) @@ (q2 :> t2) @@ (q3 :> t2)

\* Two independent tickets and a capstone that needs both.
JoinRequires == (t1 :> {}) @@ (t2 :> {}) @@ (t3 :> {t1, t2})
JoinTicketOf == (q1 :> t1) @@ (q2 :> t2) @@ (q3 :> t3) @@ (q4 :> t3)

Interchangeable == Permutations(Iris) \cup Permutations(Ctfd) \cup Permutations(Token)

=============================================================================
