----------------------------- MODULE VaultPath ------------------------------
(***************************************************************************)
(* internal/shared/vaultpath: "<mount>/<path>" strings, as sequences of    *)
(* characters of which only "/" means anything.                            *)
(***************************************************************************)
EXTENDS Integers, Sequences, FiniteSetsExt

\* strings.Trim(s, "/").
Normalize(s) ==
  LET kept == {i \in DOMAIN s : s[i] # "/"}
  IN  IF kept = {} THEN <<>> ELSE SubSeq(s, Min(kept), Max(kept))

Join(mount, path) ==
  LET m == Normalize(mount)
      p == Normalize(path)
  IN  IF m = <<>> \/ p = <<>> THEN m \o p ELSE m \o <<"/">> \o p

HasPrefix(s, prefix) == Len(prefix) <= Len(s) /\ SubSeq(s, 1, Len(prefix)) = prefix
=============================================================================
