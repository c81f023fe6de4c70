---- MODULE MCCosFS ----
(* An FTP and an SFTP session of one user, two names. *)
EXTENDS CosFS

CONSTANTS ftp, sftp, f, g

MCSessions == {ftp, sftp}
MCSFTP == {sftp}
MCNames == {f, g}
====
