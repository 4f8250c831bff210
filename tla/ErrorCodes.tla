----------------------------- MODULE ErrorCodes -----------------------------
(***************************************************************************)
(* Errors as the services tell them to each other and to their clients:    *)
(*                                                                         *)
(*   pkg/apperror/apperror.go                     AppError, From, Internal *)
(*   pkg/response/response.go                     Error                    *)
(*   services/user/internal/user/grpc_server.go   toGRPCError, grpcCode    *)
(*   services/auth/internal/clients/user/client.go   fromGRPCError         *)
(*                                                                         *)
(* An error has a code and a text.  A text is written for clients          *)
(* ("specific"), is the fixed text of Internal ("generic"), or is what a   *)
(* database, a driver or a panic said ("cause").                           *)
(***************************************************************************)

Codes == {"NOT_FOUND", "INVALID_INPUT", "CONFLICT", "UNAUTHORIZED",
          "FORBIDDEN", "TOO_MANY_REQUESTS", "INTERNAL"}

(* gorm's sentinel, and every error that is no AppError. *)
Untyped == {"ErrRecordNotFound", "other"}

Errors == [code: Codes, text: {"specific", "generic"}]
            \cup [code: Untyped, text: {"cause"}]

Specific(code) == [code |-> code, text |-> "specific"]
Internal       == [code |-> "INTERNAL", text |-> "generic"]

(* A bug of From: Internal shows the error it wraps. *)
FromVerbatim(err) ==
    CASE err.code \in Codes -> err
      [] err.code = "ErrRecordNotFound" -> Specific("NOT_FOUND")
      [] OTHER -> [code |-> "INTERNAL", text |-> err.text]

From(err) ==
    CASE err.code \in Codes -> err
      [] err.code = "ErrRecordNotFound" -> Specific("NOT_FOUND")
      [] OTHER -> Internal

(* A bug of HTTPStatus: a code of its own for Internal is forgotten, and   *)
(* so is the default.                                                      *)
HTTPStatusUnset(code) ==
    CASE code = "NOT_FOUND"     -> 404
      [] code = "INVALID_INPUT" -> 400
      [] code = "CONFLICT"      -> 409
      [] code = "UNAUTHORIZED"  -> 401
      [] OTHER                  -> 0

HTTPStatus(code) ==
    CASE code = "NOT_FOUND"         -> 404
      [] code = "INVALID_INPUT"     -> 400
      [] code = "CONFLICT"          -> 409
      [] code = "UNAUTHORIZED"      -> 401
      [] code = "FORBIDDEN"         -> 403
      [] code = "TOO_MANY_REQUESTS" -> 429
      [] OTHER                      -> 500

(* What response.Error sends: a status and a text. *)
ErrorReply(err) ==
    [status |-> HTTPStatus(From(err).code), text |-> From(err).text]

GRPCCodes == {"OK", "NotFound", "AlreadyExists", "InvalidArgument",
              "Unauthenticated", "PermissionDenied", "Internal",
              "DeadlineExceeded", "Unavailable"}

GRPCCode(code) ==
    CASE code = "NOT_FOUND"     -> "NotFound"
      [] code = "CONFLICT"      -> "AlreadyExists"
      [] code = "INVALID_INPUT" -> "InvalidArgument"
      [] code = "UNAUTHORIZED"  -> "Unauthenticated"
      [] code = "FORBIDDEN"     -> "PermissionDenied"
      [] OTHER                  -> "Internal"

ToGRPCError(err) == [code |-> GRPCCode(From(err).code), text |-> From(err).text]

(* A bug of FromGRPCError: a refused insert is taken for a failure. *)
FromGRPCErrorBlunt(st) ==
    CASE st.code = "NotFound"         -> [code |-> "NOT_FOUND", text |-> st.text]
      [] st.code = "InvalidArgument"  -> [code |-> "INVALID_INPUT", text |-> st.text]
      [] st.code = "Unauthenticated"  -> [code |-> "UNAUTHORIZED", text |-> st.text]
      [] st.code = "PermissionDenied" -> [code |-> "FORBIDDEN", text |-> st.text]
      [] OTHER                        -> Internal

(* Codes that no AppError stands for, a missed deadline among them, are    *)
(* Internal, and their text stays with the service.                        *)
FromGRPCError(st) ==
    CASE st.code = "NotFound"         -> [code |-> "NOT_FOUND", text |-> st.text]
      [] st.code = "AlreadyExists"    -> [code |-> "CONFLICT", text |-> st.text]
      [] st.code = "InvalidArgument"  -> [code |-> "INVALID_INPUT", text |-> st.text]
      [] st.code = "Unauthenticated"  -> [code |-> "UNAUTHORIZED", text |-> st.text]
      [] st.code = "PermissionDenied" -> [code |-> "FORBIDDEN", text |-> st.text]
      [] OTHER                        -> Internal
=============================================================================
