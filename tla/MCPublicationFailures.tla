---------------------- MODULE MCPublicationFailures ----------------------
EXTENDS PublicationFailures

(* One unit that can be released, and one whose change no longer fits the target. *)
DefectDef == (1 :> "none") @@ (2 :> "conflict")

(* Git says more than is kept of it; GitHub's answers fit the pipe. *)
OutputDef == ("git" :> 2) @@ ("check" :> 1) @@ ("curl" :> 1)
==========================================================================
