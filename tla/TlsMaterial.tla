---------------------------- MODULE TlsMaterial ----------------------------
(***************************************************************************)
(* Whether the one certificate pair the runtimes share is ready            *)
(* (adapters/tls.rs).  Two processes ask.  The worker is root, looks at    *)
(* the files and runs openssl; the panel is not in the group of the        *)
(* runtimes, may not even look into the directory, and believes the report *)
(* the worker last wrote.                                                  *)
(*                                                                         *)
(* Material is a record of                                                 *)
(*   directory    "missing", "open" (to others than root and the runtimes) *)
(*                or "closed",                                             *)
(*   certificate, key                                                      *)
(*                "missing", "irregular", "unsafe" or "fit",               *)
(*   expired      the certificate has run out,                             *)
(*   covers       it names the hosts the profiles present as SNI.          *)
(***************************************************************************)
Reports == {"none", "ready", "not ready"}  \* what can be read of the report

(* inspect_path and runtime_tls_directory_ready: a path is only fit for the *)
(* runtimes inside a directory that is theirs alone.                        *)
DirectoryReady(m) == m.directory = "closed"
Safe(m, path)     == path = "fit" /\ DirectoryReady(m)
PathsReady(m)     == Safe(m, m.certificate) /\ Safe(m, m.key)

(* validate_certificate, where openssl is asked at all: an expired one is   *)
(* refused, one for other names only if a name was asked for.               *)
Validated(m, hostname) == ~m.expired /\ (hostname => m.covers)

(* build_readiness, with what could be learned by looking.                  *)
Direct(m, hostname) == PathsReady(m) /\ Validated(m, hostname)

(* tls_material_readiness_with_mode of root.                                *)
PrivilegedReady(m, hostname) == Direct(m, hostname)

(* And of the panel: what the directory hides is taken from the report,     *)
(* which knows no hostname; what it does not hide is not ready.             *)
Denied(m) == m.directory = "closed"
StaticReady(m, report) == Denied(m) /\ report = "ready"

(* publish_privileged_tls_readiness: the report asks for no hostname.       *)
ReportOf(m) == IF PrivilegedReady(m, FALSE) THEN "ready" ELSE "not ready"
=============================================================================
