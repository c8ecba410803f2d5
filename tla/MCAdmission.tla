---------------------------- MODULE MCAdmission ----------------------------
EXTENDS Admission

\* A request, a recalled memory with two contents by two writers, and an
\* anonymous authentication failure.
A == [id |-> "q1", kind |-> "request", scope |-> "w1", bank |-> "b", size |-> 1]
B == [id |-> "q2", kind |-> "memory", scope |-> "w1", bank |-> "b", size |-> 1]
C == [id |-> "q2", kind |-> "memory", scope |-> "w2", bank |-> "b", size |-> 3]
D == [id |-> "q3", kind |-> "audit", scope |-> "none", bank |-> "none", size |-> 2]

InputsDef == {A, B, C, D}
BeforeDef == {{}, {C}, {A, C}}
=============================================================================
