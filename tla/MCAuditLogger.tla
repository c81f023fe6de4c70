---- MODULE MCAuditLogger ----
(* Two goroutines log, one of them a net/http handler; main closes without *)
(* a deadline and a test-style second closer with one.                     *)
EXTENDS AuditLogger

CONSTANTS ftp, admin, main, other

MCCallers == {ftp, admin}
MCRecovering == {admin}
MCClosers == {main, other}
MCDeadline == {other}
====
