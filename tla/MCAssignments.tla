--------------------------- MODULE MCAssignments ---------------------------
(* Instances of the assignment service for TLC. *)
EXTENDS AssignmentRequests, TLC

(* Three days; the two-day spans share day 2. *)
MCSpan == {{1, 2}, {2, 3}}
MCDisjointSpan == {{1}, {2}}

(* " lead" is "lead" with a blank the code strips. *)
MCRole == {"lead", " lead"}
MCTrimmed == [r \in MCRole |-> "lead"]
MCOneRole == {"lead"}
MCOneTrimmed == [r \in MCOneRole |-> "lead"]

MCPackageOf(s, r, e, x) == [span |-> s, role |-> r, envelope |-> e, rest |-> x]

(* A base package and what the checks tell apart from it: another text,    *)
(* another envelope, other dates, an untrimmed role.                       *)
MCPackage == {MCPackageOf({1, 2}, "lead", "morning", "x"),
              MCPackageOf({1, 2}, "lead", "morning", "y"),
              MCPackageOf({1, 2}, "lead", "evening", "x"),
              MCPackageOf({2, 3}, "lead", "morning", "x"),
              MCPackageOf({1, 2}, " lead", "morning", "x")}

(* One package for each span of MCDisjointSpan. *)
MCPlainPackage == {MCPackageOf(s, "lead", "morning", "x") : s \in MCDisjointSpan}

MCOneSpan == {{1}}
MCOnePackage == {MCPackageOf({1}, "lead", "morning", "x")}

MCGuidesSymmetry ==
  Permutations(TourId) \cup Permutations(Guide) \cup Permutations(AssignmentId)
    \cup Permutations(ConnectionId)
MCTourSymmetry == Permutations(TourId)
=============================================================================
