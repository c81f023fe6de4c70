---- MODULE Login ----
(***************************************************************************)
(* How a client becomes a session, and stops being one:                    *)
(*   core/authenticator.go   DBAuthenticator.Authenticate                  *)
(*   ftpserver/server.go     AuthUser, ClientDisconnected                  *)
(*   sftpserver/server.go    passwordCallback, publicKeyCallback,          *)
(*                           handleConn, serveSFTP                         *)
(*   db/queries.go           the rows they read, and the statements of the *)
(*                           admin API that change them meanwhile          *)
(* Every connection is a goroutine; they share one Lockout (main.go:162)   *)
(* and the ftp_users table.  Between two calls of a goroutine any other    *)
(* may run.  The audit trail is what each connection has had logged since  *)
(* its latest attempt began; whether it reaches the table is AuditLogger.  *)
(***************************************************************************)
EXTENDS Lockout

CONSTANTS
    Conns,      \* connections
    FTPConns,   \* those that speak FTP; the others speak SFTP
    Users,      \* names a client may give
    Accounts,   \* names that have a row at the start
    Passwords,  \* passwords, each standing for its hash
    Keys,       \* parsed public keys
    NoKey,      \* sftp_public_key is NULL
    MaxEdits    \* bound: statements the admin API executes

ASSUME LoginAssumption ==
    /\ IsFiniteSet(Conns)
    /\ FTPConns \subseteq Conns
    /\ Accounts \subseteq Users
    /\ Passwords # {}
    /\ Keys # {}
    /\ MaxEdits \in Nat

VARIABLES
    rows,       \* ftp_users
    edits,      \* statements executed on it
    failures,   \* Lockout.failures
    pc,         \* where each connection is
    att,        \* the attempt it is making, or made last
    snap,       \* what the attempt needs of the row it read
    said,       \* audit events of the attempt and of its session
    okSeen,     \* history: the attempt would have been right at some moment of it
    ranOn       \* history: the account when the session's latest command ran

vars == <<rows, edits, failures, pc, att, snap, said, okSeen, ranOn>>

Rows == [live: BOOLEAN,          \* deleted_at IS NULL, and there is a row
         enabled: BOOLEAN, ftp: BOOLEAN, sftp: BOOLEAN,
         pass: Passwords, key: Keys \union {NoKey}]

Attempts == [user: Users, method: {"password"}, secret: Passwords]
                \union [user: Users, method: {"publickey"}, secret: Keys]

NoAttempt == [user |-> "none", method |-> "none", secret |-> "none"]

Row(c) == rows[att[c].user]

Protocol(c, row) == IF c \in FTPConns THEN row.ftp ELSE row.sftp

Authorised(a, c, row) ==
    /\ row.live /\ row.enabled /\ Protocol(c, row)
    /\ a.secret = IF a.method = "password" THEN row.pass ELSE row.key

----
\* Accounts start enabled for both protocols, with or without a key; nobody is
\* connected.
Init ==
    /\ \E k \in {NoKey, CHOOSE k \in Keys : TRUE} :
          rows = [u \in Users |->
                     [live |-> u \in Accounts, enabled |-> TRUE, ftp |-> TRUE,
                      sftp |-> TRUE, pass |-> CHOOSE p \in Passwords : TRUE,
                      key |-> k]]
    /\ edits = 0
    /\ failures = [u \in Users |-> <<>>]
    /\ pc = [c \in Conns |-> "idle"]
    /\ att = [c \in Conns |-> NoAttempt]
    /\ snap = [c \in Conns |-> [match |-> FALSE, protocol |-> FALSE]]
    /\ said = [c \in Conns |-> {}]
    /\ okSeen = [c \in Conns |-> FALSE]
    /\ ranOn = [c \in Conns |-> "none"]

Goto(c, label) == pc' = [pc EXCEPT ![c] = label]
Say(c, events) == said' = [said EXCEPT ![c] = @ \union events]

\* Ends the attempt with these events.
Refuse(c, events) == Goto(c, "idle") /\ Say(c, events)

----
\* The client

\* A connection presents a name and a password, or (SFTP) a public key.
Present(c) ==
    /\ pc[c] = "idle"
    /\ \E a \in Attempts :
          /\ a.method = "publickey" => c \notin FTPConns
          /\ att' = [att EXCEPT ![c] = a]
          /\ Goto(c, IF a.method = "password" THEN "allow" ELSE "pubkey")
          /\ okSeen' = [okSeen EXCEPT ![c] = Authorised(a, c, rows[a.user])]
    /\ said' = [said EXCEPT ![c] = {}]
    /\ ranOn' = [ranOn EXCEPT ![c] = "none"]
    /\ snap' = [snap EXCEPT ![c] = [match |-> FALSE, protocol |-> FALSE]]
    /\ UNCHANGED <<rows, edits, failures>>

----
\* Authenticate

\* Fault: the answer of Allow is not looked at.
AllowIgnored(c) ==
    /\ pc[c] = "allow"
    /\ failures' = [failures EXCEPT ![att[c].user] = Pruned(@)]
    /\ Goto(c, "lookup")
    /\ UNCHANGED <<rows, edits, att, snap, said, okSeen, ranOn>>

\* Lockout.Allow, under its mutex.
Allow(c) ==
    LET fs == failures[att[c].user] IN
    /\ pc[c] = "allow"
    /\ failures' = [failures EXCEPT ![att[c].user] = Pruned(fs)]
    /\ IF Allows(fs) THEN Goto(c, "lookup") /\ UNCHANGED said
                     ELSE Refuse(c, {"locked_out"})
    /\ UNCHANGED <<rows, edits, att, snap, okSeen, ranOn>>

\* GetFTPUserByUsername fails (the database, its 3 s, no such live row).
LookupFails(c) ==
    /\ pc[c] = "lookup"
    /\ failures' = [failures EXCEPT ![att[c].user] = RecordFailure(@)]
    /\ Refuse(c, {"db_error"})
    /\ UNCHANGED <<rows, edits, att, snap, okSeen, ranOn>>

\* It finds a disabled account: refused, and not counted as a failure.
LookupDisabled(c) ==
    /\ pc[c] = "lookup"
    /\ Row(c).live
    /\ ~Row(c).enabled
    /\ Refuse(c, {"disabled"})
    /\ UNCHANGED <<rows, edits, failures, att, snap, okSeen, ranOn>>

\* It finds an account to compare the password with.
Lookup(c) ==
    /\ pc[c] = "lookup"
    /\ Row(c).live
    /\ Row(c).enabled
    /\ snap' = [snap EXCEPT ![c] = [match |-> att[c].secret = Row(c).pass,
                                    protocol |-> Protocol(c, Row(c))]]
    /\ Goto(c, "verify")
    /\ UNCHANGED <<rows, edits, failures, att, said, okSeen, ranOn>>

\* The password is wrong: recorded, refused.
VerifyFails(c) ==
    /\ pc[c] = "verify"
    /\ ~snap[c].match
    /\ failures' = [failures EXCEPT ![att[c].user] = RecordFailure(@)]
    /\ Refuse(c, {"bad_password"})
    /\ UNCHANGED <<rows, edits, att, snap, okSeen, ranOn>>

\* Fault: the failures are forgotten before the password is compared.
ResetEarly(c) ==
    /\ pc[c] = "verify"
    /\ failures' = [failures EXCEPT ![att[c].user] = <<>>]
    /\ IF snap[c].match THEN Goto(c, "lastlogin") ELSE UNCHANGED pc
    /\ UNCHANGED <<rows, edits, att, snap, said, okSeen, ranOn>>

\* The password matches: the user's failures are forgotten.
Reset(c) ==
    /\ pc[c] = "verify"
    /\ snap[c].match
    /\ failures' = [failures EXCEPT ![att[c].user] = <<>>]
    /\ Goto(c, "lastlogin")
    /\ UNCHANGED <<rows, edits, att, snap, said, okSeen, ranOn>>

\* SetFTPUserLastLogin: its failure is logged as a failed LOGIN, which does
\* not keep the success from being logged next.
LastLogin(c) ==
    /\ pc[c] = "lastlogin"
    /\ \E failed \in {{}, {"last_login_failed"}} : Say(c, failed \union {"ok"})
    /\ Goto(c, "authenticated")
    /\ UNCHANGED <<rows, edits, failures, att, snap, okSeen, ranOn>>

----
\* The two servers

\* Both refuse an account whose protocol is off, after the success was logged.
ProtocolDenied(c) ==
    /\ pc[c] = "authenticated"
    /\ ~snap[c].protocol
    /\ Refuse(c, {IF c \in FTPConns THEN "ftp_disabled" ELSE "sftp_disabled"})
    /\ UNCHANGED <<rows, edits, failures, att, snap, okSeen, ranOn>>

\* Fault: any authenticated user gets an FTP session.
AuthUserUnchecked(c) ==
    /\ pc[c] = "authenticated"
    /\ c \in FTPConns
    /\ Say(c, {"connected"})
    /\ Goto(c, "session")
    /\ UNCHANGED <<rows, edits, failures, att, snap, okSeen, ranOn>>

\* AuthUser mounts the storage, and logs the success a second time ...
AuthUser(c) ==
    /\ pc[c] = "authenticated"
    /\ c \in FTPConns
    /\ snap[c].protocol
    /\ Say(c, {"connected"})
    /\ Goto(c, "session")
    /\ UNCHANGED <<rows, edits, failures, att, snap, okSeen, ranOn>>

\* ... or cannot: no session, but the identity is on the connection already.
AuthUserMountFails(c) ==
    /\ pc[c] = "authenticated"
    /\ c \in FTPConns
    /\ snap[c].protocol
    /\ Goto(c, "marked")
    /\ UNCHANGED <<rows, edits, failures, att, snap, said, okSeen, ranOn>>

PasswordCallback(c) ==
    /\ pc[c] = "authenticated"
    /\ c \notin FTPConns
    /\ snap[c].protocol
    /\ Goto(c, "handshaken")
    /\ UNCHANGED <<rows, edits, failures, att, snap, said, okSeen, ranOn>>

\* publicKeyCallback: the lookup fails or finds no live row, and the audit
\* trail is told nothing. (A stored key that does not parse would end the same
\* way; setUserSFTPKey stores none.)
PublicKeyUnheard(c) ==
    /\ pc[c] = "pubkey"
    /\ Goto(c, "idle")
    /\ UNCHANGED <<rows, edits, failures, att, snap, said, okSeen, ranOn>>

PublicKeyRefused(c) ==
    /\ pc[c] = "pubkey"
    /\ Row(c).live
    /\ \/ /\ ~Row(c).enabled \/ ~Row(c).sftp \/ Row(c).key = NoKey
          /\ Refuse(c, {"sftp_pubkey_denied"})
       \/ /\ Row(c).enabled /\ Row(c).sftp /\ Row(c).key \in Keys
          /\ Row(c).key # att[c].secret
          /\ Refuse(c, {"pubkey_mismatch"})
    /\ UNCHANGED <<rows, edits, failures, att, snap, okSeen, ranOn>>

\* The key is the account's: success is logged, though the client has only
\* named the key so far.
PublicKeyCallback(c) ==
    /\ pc[c] = "pubkey"
    /\ Row(c).live
    /\ Row(c).enabled /\ Row(c).sftp /\ Row(c).key = att[c].secret
    /\ Say(c, {"ok"})
    /\ Goto(c, "offered")
    /\ UNCHANGED <<rows, edits, failures, att, snap, okSeen, ranOn>>

\* The client signs with the key, or cannot and starts over.
Sign(c) ==
    /\ pc[c] = "offered"
    /\ \E next \in {"handshaken", "idle"} : Goto(c, next)
    /\ UNCHANGED <<rows, edits, failures, att, snap, said, okSeen, ranOn>>

\* serveSFTP looks the user up again, for the root folder alone.
ServeSFTP(c) ==
    /\ pc[c] = "handshaken"
    /\ Row(c).live
    /\ Goto(c, "session")
    /\ UNCHANGED <<rows, edits, failures, att, snap, said, okSeen, ranOn>>

\* The lookup or the mount fails: the channel closes without a LOGOUT, and the
\* client gives up (or asks for another channel, which changes nothing).
ServeSFTPFails(c) ==
    /\ pc[c] = "handshaken"
    /\ Goto(c, "idle")
    /\ UNCHANGED <<rows, edits, failures, att, snap, said, okSeen, ranOn>>

\* A session's command goes to the mounted storage; nothing asks the database.
Command(c) ==
    /\ pc[c] = "session"
    /\ ranOn' = [ranOn EXCEPT ![c] = IF Row(c).live THEN "live" ELSE "deleted"]
    /\ UNCHANGED <<rows, edits, failures, pc, att, snap, said, okSeen>>

\* Fault: every FTP disconnect is logged as a LOGOUT.
DisconnectAlways(c) ==
    /\ \/ pc[c] \in {"session", "marked"}
       \/ pc[c] = "idle" /\ c \in FTPConns
    /\ Refuse(c, {"logout"})
    /\ UNCHANGED <<rows, edits, failures, att, snap, okSeen, ranOn>>

\* ClientDisconnected, or the end of serveSFTP: the SSH connection may stay,
\* and ask for the next channel.
Disconnect(c) ==
    /\ pc[c] \in {"session", "marked"}
    /\ Say(c, {"logout"})
    /\ \E next \in {"idle"} \union {l \in {"handshaken"} : c \notin FTPConns} :
          Goto(c, next)
    /\ UNCHANGED <<rows, edits, failures, att, snap, okSeen, ranOn>>

----
\* The admin API's statements

Edited(u, row) ==
    /\ edits < MaxEdits
    /\ rows[u].live
    /\ row # rows[u]
    /\ edits' = edits + 1
    /\ rows' = [rows EXCEPT ![u] = row]
    /\ okSeen' = [c \in Conns |->
                     \/ okSeen[c]
                     \/ pc[c] # "idle" /\ Authorised(att[c], c, rows'[att[c].user])]
    /\ UNCHANGED <<failures, pc, att, snap, said, ranOn>>

UpdateFTPUser(u) ==
    \E e, f, s \in BOOLEAN :
        Edited(u, [rows[u] EXCEPT !.enabled = e, !.ftp = f, !.sftp = s])

SetFTPUserPassword(u) ==
    \E p \in Passwords : Edited(u, [rows[u] EXCEPT !.pass = p])

SetFTPUserSFTPKey(u) ==
    \E k \in Keys \union {NoKey} : Edited(u, [rows[u] EXCEPT !.key = k])

SoftDeleteFTPUser(u) ==
    Edited(u, [rows[u] EXCEPT !.live = FALSE, !.enabled = FALSE])

----
Tick ==
    /\ failures' = [u \in Users |-> Aged(failures[u])]
    /\ UNCHANGED <<rows, edits, pc, att, snap, said, okSeen, ranOn>>

Authenticate(c) ==
    \/ Allow(c) \/ LookupFails(c) \/ LookupDisabled(c) \/ Lookup(c)
    \/ VerifyFails(c) \/ Reset(c) \/ LastLogin(c)

FTP(c) == ProtocolDenied(c) \/ AuthUser(c) \/ AuthUserMountFails(c)

SFTP(c) ==
    \/ PasswordCallback(c) \/ PublicKeyUnheard(c) \/ PublicKeyRefused(c)
    \/ PublicKeyCallback(c) \/ Sign(c) \/ ServeSFTP(c) \/ ServeSFTPFails(c)

Admin(u) ==
    \/ UpdateFTPUser(u) \/ SetFTPUserPassword(u) \/ SetFTPUserSFTPKey(u)
    \/ SoftDeleteFTPUser(u)

Next ==
    \/ \E c \in Conns :
          \/ Present(c) \/ Authenticate(c) \/ FTP(c) \/ SFTP(c)
          \/ Command(c) \/ Disconnect(c)
    \/ \E u \in Users : Admin(u)
    \/ Tick

SafeSpec == Init /\ [][Next]_vars

\* Time passes; a goroutine inside Authenticate comes out of it (the lookup
\* has a deadline of 3 s).
Spec ==
    /\ SafeSpec
    /\ WF_vars(Tick)
    /\ \A c \in Conns : WF_vars(Authenticate(c))
----
\* Properties

\* Connections whose attempt Allow let through and that have not yet come to
\* a verdict: each may still record one failure.
InFlight(u) == {c \in Conns : pc[c] \in {"lookup", "verify"} /\ att[c].user = u}

Labels == {"idle", "allow", "lookup", "verify", "lastlogin", "authenticated",
           "marked", "pubkey", "offered", "handshaken", "session"}

AuditEvents == {"locked_out", "db_error", "disabled", "bad_password",
                "last_login_failed", "ok", "ftp_disabled", "sftp_disabled",
                "connected", "sftp_pubkey_denied", "pubkey_mismatch", "logout"}

\* The shape of the state; the failures kept for a name stay within what the
\* limit and the connections allow, however often they are tried.
TypeOK ==
    /\ rows \in [Users -> Rows]
    /\ edits \in 0..MaxEdits
    /\ failures \in [Users -> Seq(Ages)]
    /\ \A u \in Users : /\ Len(failures[u]) < Limit + Cardinality(Conns)
                        /\ InOrder(failures[u])
    /\ pc \in [Conns -> Labels]
    /\ att \in [Conns -> Attempts \union {NoAttempt}]
    /\ \A c \in Conns : pc[c] # "idle" => att[c] \in Attempts
    /\ snap \in [Conns -> [match : BOOLEAN, protocol : BOOLEAN]]
    /\ said \in [Conns -> SUBSET AuditEvents]
    /\ okSeen \in [Conns -> BOOLEAN]
    /\ ranOn \in [Conns -> {"none", "live", "deleted"}]

\* Allow and RecordFailure are two calls, so concurrent attempts can pass the
\* limit, but never by more than the other connections: the failures on record
\* and those still to come stay below Limit + |Conns| (auth.go:64-83,
\* authenticator.go:33-69).
LockoutBound ==
    \A u \in Users :
        Len(failures[u]) + Cardinality(InFlight(u)) < Limit + Cardinality(Conns)

\* Whoever gets a session was, at some moment of the attempt, entitled to it:
\* account live and enabled, protocol on, secret current. Edits of the row
\* between the lookup and the session cannot add up to a login that was never
\* right (authenticator.go:43-82, server.go:175-197).
NoStaleLogin == \A c \in Conns : pc[c] \in {"handshaken", "session"} => okSeen[c]

\* A password attempt never ends without a LOGIN event, a session is never
\* without its success, and a LOGOUT never without a success before it.
AuditFaithful ==
    \A c \in Conns :
        /\ pc[c] = "idle" /\ att[c].method = "password"
              => said[c] \ {"logout"} # {}
        /\ pc[c] \in {"session", "marked", "handshaken"} => "ok" \in said[c]
        /\ "logout" \in said[c] => "ok" \in said[c]

\* The strengthening of NoStaleLogin that every step preserves (proved in
\* Login_proofs): an attempt entitled to a session now has been seen to be, and
\* what the connection remembers of the row it read has been true.
Entitled ==
    \A c \in Conns :
        /\ pc[c] # "idle" /\ Authorised(att[c], c, Row(c)) => okSeen[c]
        /\ pc[c] = "verify" /\ snap[c].match /\ snap[c].protocol => okSeen[c]
        /\ pc[c] \in {"lastlogin", "authenticated"} /\ snap[c].protocol
              => okSeen[c]
        /\ pc[c] \in {"pubkey", "offered"} => c \notin FTPConns
        /\ pc[c] = "pubkey" => att[c].method = "publickey"
        /\ pc[c] \in {"allow", "lookup", "verify"} => att[c].method = "password"
        /\ pc[c] \in {"offered", "handshaken", "session", "marked"} => okSeen[c]

\* A failure that still counts is forgotten only when somebody has just shown
\* the user's password (auth.go:85-89).
ForgivenByProof ==
    [][\A u \in Users :
          (/\ Len(failures'[u]) < Len(failures[u])
           /\ Recent(failures'[u]) < Recent(failures[u]))
          => \E c \in Conns : /\ pc[c] = "verify" /\ pc'[c] = "lastlogin"
                              /\ att[c].user = u /\ snap[c].match]_vars

\* A locked name is let through again in time, however hard it is tried
\* meanwhile: refused attempts do not prolong the lockout.
LockoutEnds ==
    \A u \in Users : ~Allows(failures[u]) ~> Allows(failures[u])

\* spec.md:78, FR-UI-05: a soft-deleted user's "Existing sessions terminated at
\* next command". No session looks at its row again.
DeletedUserCut == \A c \in Conns : ranOn[c] # "deleted"
====
