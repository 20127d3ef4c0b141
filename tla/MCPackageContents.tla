------------------------- MODULE MCPackageContents -------------------------
(***************************************************************************)
(* A repository of two paths, of which the first commit has one; the owner *)
(* changed that one, and the request names it as a prerequisite.           *)
(***************************************************************************)
EXTENDS PackageContents

CONSTANTS Code, Notes, Old, New, Secret

StartTree == [p \in {Code, Notes} |-> IF p = Code THEN Old ELSE Absent]
UnfinishedTree == [StartTree EXCEPT ![Code] = New]
=============================================================================
