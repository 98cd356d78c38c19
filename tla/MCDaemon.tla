------------------------------ MODULE MCDaemon ------------------------------
(* Daemon on one request, up to two clusters and changing policies files.    *)
EXTENDS Daemon, TLC

CONSTANTS r1, c1, c2

\* The files a restart may find: one cluster, a second one added, the first gone.
Moving == { r1 :> {c1}, r1 :> {c1, c2}, r1 :> {c2} }

\* One request for one cluster, the same file at every start.
OneRow == { r1 :> {c1} }
=============================================================================
