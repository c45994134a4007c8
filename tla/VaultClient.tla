---------------------------- MODULE VaultClient ----------------------------
(***************************************************************************)
(* How the connector's HTTP client (pkg/client/client.go over the SDK's    *)
(* uhttp wrapper) turns one answer of Vault into the result of a call.     *)
(*                                                                         *)
(* A reply is a status code, or the way the exchange broke, and what the   *)
(* body holds:                                                             *)
(*   "data"      a body that decodes into the caller's type                *)
(*   "noerrors"  {"errors": []}, Vault's answer when there is nothing      *)
(*   "inuse"     errors[0] says "path is already in use"                   *)
(*   "errors"    errors[0] says anything else                              *)
(*   "garbled"   a body that does not decode                               *)
(*   "none"      there is no response                                      *)
(***************************************************************************)

Codes == {"200", "204", "400", "403", "404", "503", "timeout", "refused"}
Bodies == {"data", "noerrors", "inuse", "errors", "garbled", "none"}
Reply(code, body) == [code |-> code, body |-> body]

(* The answers any request may meet when Vault, the network or a proxy     *)
(* between them misbehaves: none of them carries out the request.          *)
FaultReplies ==
  {Reply("403", "errors"), Reply("404", "errors"), Reply("404", "garbled"),
   Reply("503", "errors"), Reply("timeout", "none"), Reply("refused", "none")}

(* A GET or a LIST may also meet a 200 that is not Vault's, the page of a  *)
(* proxy say, which does not decode.  A POST does not decode its answer.   *)
ReadFaults == FaultReplies \cup {Reply("200", "garbled")}

(* BaseHttpClient.Do: the gRPC status of the error it returns, "OK" when   *)
(* it returns none.  A refused connection carries no status: "Unknown".    *)
DoStatus(r) ==
  CASE r.code \in {"200", "204"} -> IF r.body = "garbled" THEN "Unknown" ELSE "OK"
    [] r.code = "timeout" -> "DeadlineExceeded"
    [] r.code = "503" -> "Unavailable"
    [] r.code = "404" -> "NotFound"
    [] r.code = "403" -> "PermissionDenied"
    [] OTHER -> "Unknown"

(* Mutants of RequestStatus: every 404 is an answer; a path in use is an   *)
(* error like any other.                                                   *)
RequestStatusLenient(r) == IF r.code \in {"400", "404"} THEN "OK" ELSE DoStatus(r)
RequestStatusStrict(r) == IF r.body = "noerrors" THEN "OK" ELSE DoStatus(r)

(* doRequest: a 400 or a 404 whose errors array is empty, or whose first   *)
(* error says that the path is already in use, is no error at all.         *)
RequestStatus(r) ==
  IF r.code \in {"400", "404"}
  THEN CASE r.body \in {"noerrors", "inuse"} -> "OK"
         [] r.body = "garbled" -> "Unknown"
         [] OTHER -> DoStatus(r)
  ELSE DoStatus(r)

(* Do keeps the answer of a GET exactly when its code is 200, whether or   *)
(* not the body decoded, and whether it comes from Vault or from the cache.*)
Cacheable(r) == r.code = "200"

(* Mutant: enableStores looks for the error that doRequest swallows.       *)
SaysInUse(r) == r.code = "400" /\ r.body = "inuse"

(* The test enableStores makes of an error's text: it names a 400 only     *)
(* when doRequest passed the error of Do on.                               *)
SaysBadRequest(r) == r.code = "400" /\ r.body = "errors"
=============================================================================
