----------------------------- MODULE MCSshGateway -----------------------------
(* SshGateway for TLC.  The configurations name the logins by their server *)
(* (db: a KnownServer row, eph: an ephemeral id) and by whether the login  *)
(* kept SSH credentials (Pam) or not (Anon).                               *)
EXTENDS SshGateway
=============================================================================
