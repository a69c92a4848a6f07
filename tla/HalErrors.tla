------------------------------ MODULE HalErrors ------------------------------
(***************************************************************************)
(* The errors of the HAL (hal/src/error.rs) and what a client sees of them:     *)
(* a gRPC status, or an HTTP status of the REST endpoints.                    *)
(***************************************************************************)

BackendErrors == {"NotFound", "Unavailable", "ExecutionFailed", "AuthenticationFailed",
                  "Timeout", "InvalidRequest", "Python", "Http"}
Callers == {"grpc", "rest"}

\* Mutant: an error of the provider's API is taken for one of the request.
GrpcStatusBlaming(error) ==
  CASE error = "NotFound" -> "not_found"
    [] error = "Unavailable" -> "unavailable"
    [] error = "AuthenticationFailed" -> "unauthenticated"
    [] error = "Timeout" -> "deadline_exceeded"
    [] error \in {"InvalidRequest", "Http"} -> "invalid_argument"
    [] error \in {"ExecutionFailed", "Python"} -> "internal"
\* impl From<Error> for tonic::Status
GrpcStatus(error) ==
  CASE error = "NotFound" -> "not_found"
    [] error = "Unavailable" -> "unavailable"
    [] error = "AuthenticationFailed" -> "unauthenticated"
    [] error = "Timeout" -> "deadline_exceeded"
    [] error = "InvalidRequest" -> "invalid_argument"
    [] error \in {"ExecutionFailed", "Python", "Http"} -> "internal"

\* The REST endpoint answers 500 to every error of an execution.
RestStatus(error) == "internal"

StatusFor(caller, error) == IF caller = "grpc" THEN GrpcStatus(error) ELSE RestStatus(error)
=============================================================================
