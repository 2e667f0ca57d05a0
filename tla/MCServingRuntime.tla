-------------------------- MODULE MCServingRuntime --------------------------
(* Three calls of submit; the first two use the same request id, and the     *)
(* second and the third carry media.                                         *)
EXTENDS ServingRuntime

CONSTANTS s1, s2, s3

ThreeCalls == {s1, s2, s3}
SharedId == [s \in ThreeCalls |-> IF s = s3 THEN 2 ELSE 1]
MediaCalls == {s2, s3}
=============================================================================
