---------------------------- MODULE MCAuditStream ---------------------------
(* AuditStream on the connections of two Vault nodes.                        *)
EXTENDS AuditStream, TLC

CONSTANTS n1, n2

Request(error, type, op, under, long) ==
  [error |-> error, mount_type |-> type, operation |-> op, under |-> under, long |-> long]

Write == Request(FALSE, "kv", "update", "data", FALSE)
Delete == Request(FALSE, "kv", "delete", "data", FALSE)
Denied == Request(TRUE, "kv", "update", "data", FALSE)
Read == Request(FALSE, "kv", "read", "data", FALSE)
Destroy == Request(FALSE, "kv", "update", "destroy", FALSE)
Login == Request(FALSE, "token", "update", "data", FALSE)
Huge == Request(FALSE, "kv", "create", "data", TRUE)

AllRequests == {Write, Delete, Denied, Read, Destroy, Login, Huge}
Nodes == (n1 :> <<Write, Denied, Login, Write, Delete>>) @@ (n2 :> <<Read, Write, Destroy, Huge, Write>>)
=============================================================================
