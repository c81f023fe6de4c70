---- MODULE MCLogin ----
(* One FTP and one SFTP connection for one name, whose account the admin API *)
(* may edit once, deletion included.                                         *)
EXTENDS Login

CONSTANTS ftp1, sftp1, alice, p1, p2, k1, k2

MCConns == {ftp1, sftp1}
MCFTPConns == {ftp1}
MCUsers == {alice}
MCAccounts == {alice}
MCPasswords == {p1, p2}
MCKeys == {k1, k2}
====
