----------------------------- MODULE MCHttpGet ------------------------------
(* HttpGet on small sets, for TLC. *)
EXTENDS HttpGet

CONSTANTS r1, r2, v1

ServedWithSidecar == {"gcs", "http"} \X {TRUE}
=============================================================================
