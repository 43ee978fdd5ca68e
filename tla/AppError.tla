------------------------------- MODULE AppError -------------------------------
(***************************************************************************)
(* Errors of the bridge and how they become HTTP answers (src/error.rs).   *)
(* The text of a gRPC error counts only for the two phrases the code looks *)
(* for in it, whatever their case: details is the set of those it has.     *)
(***************************************************************************)
EXTENDS Naturals

(* tonic::Code under the names code_name gives them.                       *)
Code ==
  {"OK", "CANCELLED", "UNKNOWN", "INVALID_ARGUMENT", "DEADLINE_EXCEEDED",
   "NOT_FOUND", "ALREADY_EXISTS", "PERMISSION_DENIED", "RESOURCE_EXHAUSTED",
   "FAILED_PRECONDITION", "ABORTED", "OUT_OF_RANGE", "UNIMPLEMENTED",
   "INTERNAL", "UNAVAILABLE", "DATA_LOSS", "UNAUTHENTICATED"}

Phrase == {"not found", "already exists"}

(* tonic::Status.                                                          *)
Status == [code : Code, details : SUBSET Phrase]

StatusOK == [code |-> "OK", details |-> {}]

(* An HTTP answer: its status, the code field of the JSON envelope ("" when*)
(* the body has none), the values of a 2xx body, and whether that body     *)
(* carries the note "not found, ignored".                                  *)
Answer(http, code, body, note) ==
  [http |-> http, code |-> code, body |-> body, note |-> note]

ErrorAnswer(http, code) == Answer(http, code, {}, FALSE)

(* Mutant: the text of an Unknown error is not looked at.                  *)
IsNotFoundByCode(status) == status.code = "NOT_FOUND"

(* The absence of a resource, told by the code or, from nodes that return  *)
(* plain errors, by the text of an Unknown one.                            *)
IsNotFound(status) ==
  \/ status.code = "NOT_FOUND"
  \/ status.code = "UNKNOWN" /\ "not found" \in status.details

(* Mutant: every other Unknown error is taken for absence.                 *)
UnknownIsMissing(status) ==
  CASE status.code = "NOT_FOUND" -> 404
    [] status.code = "ALREADY_EXISTS" -> 409
    [] status.code = "UNKNOWN" ->
         IF "already exists" \in status.details THEN 409 ELSE 404
    [] OTHER -> 500

(* grpc_code_to_http.                                                      *)
GrpcCodeToHttp(status) ==
  CASE status.code = "NOT_FOUND" -> 404
    [] status.code = "ALREADY_EXISTS" -> 409
    [] status.code = "UNIMPLEMENTED" -> 501
    [] status.code = "UNAVAILABLE" -> 502
    [] status.code = "UNKNOWN" ->
         IF "not found" \in status.details THEN 404
         ELSE IF "already exists" \in status.details THEN 409
         ELSE 502
    [] OTHER -> 500

(* AppError::into_response, one operator per variant.                      *)
Grpc(status) == ErrorAnswer(GrpcCodeToHttp(status), status.code)
Unauthenticated == ErrorAnswer(401, "UNAUTHENTICATED")
InvalidArgument == ErrorAnswer(400, "INVALID_ARGUMENT")
UnprocessableEntity == ErrorAnswer(422, "INVALID_ARGUMENT")
Internal == ErrorAnswer(500, "INTERNAL_ERROR")
===============================================================================
