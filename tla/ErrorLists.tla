----------------------------- MODULE ErrorLists -----------------------------
(***************************************************************************)
(* Package cerror: what an error of a database becomes in an error list,   *)
(* and what an error list becomes in an answer of the gateway.  An error   *)
(* is its code; a list is a sequence of codes.                             *)
(***************************************************************************)
EXTENDS Sequences

\* What PostgreSQL says of a statement that it refuses: a class of its codes.
handlePqError(refusal) ==
    CASE refusal = "unique violation"      -> "already-registered"
      [] refusal = "not null violation"    -> "missing-field"
      [] refusal = "check violation"       -> "invalid-field"
      [] refusal = "foreign key violation" -> "resource-not-found"
      [] OTHER                             -> "database-error"

PqErrors == {"unique violation", "not null violation", "check violation",
             "foreign key violation", "other refusal"}

\* MongoDB: of its errors only this one is known.
MongoErrors == {"no documents"}
handleMongoError(error) == "resource-not-found"

\* The error a statement ends with.  What is no error of a database, as when a
\* service cannot reach it, is internal.
ConvertError(error) ==
    CASE error = "no rows"        -> "resource-not-found"
      [] error \in PqErrors       -> handlePqError(error)
      [] error \in MongoErrors    -> handleMongoError(error)
      [] OTHER                    -> "internal-server-error"

\* What a statement may fail with that the database would have accepted.
Failures == {"other refusal", "no connection"}

-----------------------------------------------------------------------------
\* The client of a service gives this list when the call itself fails.
NoReply == <<"internal-server-error">>

\* getCode: of a list that is not empty.
getCode(list) == Head(list)

BadRequestCodes ==
    {"bad-request", "invalid", "invalid-choice", "invalid-field", "missing-field",
     "required", "register-window", "user-not-ready", "media-invalid-aspect-ratio",
     "media-invalid-resolution", "media-too-many-items"}
ForbiddenCodes ==
    {"feature-disabled", "macaroon-permission-required", "resource-forbidden"}
NotFoundCodes == {"name-not-registered", "resource-not-found"}
ConflictCodes ==
    {"already-claimed", "already-owned", "already-registered", "media-modified",
     "name-not-available-for-dispute", "reserved-name"}

\* The status of the answer is that of the first error.
GetHTTPStatus(list) ==
    LET code == getCode(list)
    IN  CASE code \in BadRequestCodes             -> 400
          [] code = "unauthorized"                -> 401
          [] code \in ForbiddenCodes              -> 403
          [] code \in NotFoundCodes               -> 404
          [] code \in ConflictCodes               -> 409
          [] code = "revoked-name"                -> 410
          [] code = "media-file-size-too-big"     -> 413
          [] code = "media-unsupported-type"      -> 415
          [] code = "not-implemented"             -> 501
          [] code = "resource-not-ready"          -> 503
          [] OTHER                                -> 500
=============================================================================
