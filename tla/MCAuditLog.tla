----------------------------- MODULE MCAuditLog -----------------------------
(***************************************************************************)
(* Small instances of AuditLog.  The operation "a" by the actor "b|" and   *)
(* the operation "a|b" by nobody are written alike; so are a key with an   *)
(* "=" at its end and a value with one at its beginning.                   *)
(***************************************************************************)
EXTENDS AuditLog

MCOperations == {<<"a">>, <<"a", "|", "b">>}
MCActors     == {<<>>, <<"b", "|">>}
MCMetadatas  == {<<>>, << <<<<"k", "=">>, <<"v">>>> >>, << <<<<"k">>, <<"=", "v">>>> >>}
=============================================================================
