---------------------------- MODULE MCAdmission ----------------------------
(* Admission with interchangeable applicants and connections.              *)
EXTENDS Admission, TLC

\* News of a member that was never an applicant here, and of one ID that any
\* applicant may have been given, here or by another introducer.
FewNews == ({2} \X {Founder}) \cup ({3} \X Certs)

Symmetry == Permutations(Certs) \cup Permutations(Lines)
=============================================================================
