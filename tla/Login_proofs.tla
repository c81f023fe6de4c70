---- MODULE Login_proofs ----
(***************************************************************************)
(* Proofs about logins, for every limit, window and finite set of          *)
(* connections.  TypeInv and LockoutBound are inductive together;          *)
(* NoStaleLogin follows from Entitled, which is inductive on top of        *)
(* TypeInv.                                                                *)
(***************************************************************************)
EXTENDS Login, FiniteSetTheorems, SequenceTheorems, TLAPS

\* TypeOK without the bound on the lists, which is LockoutBound's.
TypeInv ==
    /\ rows \in [Users -> Rows]
    /\ edits \in 0..MaxEdits
    /\ failures \in [Users -> Seq(Ages)]
    /\ \A u \in Users : InOrder(failures[u])
    /\ pc \in [Conns -> Labels]
    /\ att \in [Conns -> Attempts \union {NoAttempt}]
    /\ \A c \in Conns : pc[c] # "idle" => att[c] \in Attempts
    /\ snap \in [Conns -> [match : BOOLEAN, protocol : BOOLEAN]]
    /\ said \in [Conns -> SUBSET AuditEvents]
    /\ okSeen \in [Conns -> BOOLEAN]
    /\ ranOn \in [Conns -> {"none", "live", "deleted"}]

----
\* What the operations on a list of failures do to it

\* Pruning keeps a list of ages in order and makes it no longer
\* (Lockout.Allow, auth.go:64-77).
LEMMA PrunedList ==
  ASSUME NEW fs \in Seq(Ages)
  PROVE  /\ Pruned(fs) \in Seq(Ages)
         /\ Len(Pruned(fs)) \in Nat
         /\ Len(Pruned(fs)) <= Len(fs)
         /\ InOrder(fs) => InOrder(Pruned(fs))
  <1> DEFINE old == {i \in 1..Len(fs) : ~Fresh(fs[i])}
             k == Cardinality(old)
  <1>1. Len(fs) \in Nat
    BY LenProperties
  <1>2. IsFiniteSet(1..Len(fs)) /\ Cardinality(1..Len(fs)) = Len(fs)
    BY <1>1, FS_Interval, 1 \in Int, Len(fs) \in Int
  <1>3. k \in Nat /\ k <= Len(fs)
    BY <1>2, FS_Subset, FS_CardinalityType, old \subseteq 1..Len(fs)
  <1>4. Pruned(fs) = SubSeq(fs, k + 1, Len(fs))
    BY DEF Pruned
  <1> HIDE DEF k
  <1>5. /\ Pruned(fs) \in Seq(Ages)
        /\ Len(Pruned(fs)) = Len(fs) - k
        /\ \A i \in 1..(Len(fs) - k) : Pruned(fs)[i] = fs[i + k]
    BY <1>1, <1>3, <1>4
  <1>6. ASSUME InOrder(fs) PROVE InOrder(Pruned(fs))
    <2> SUFFICES ASSUME NEW i \in 1..Len(Pruned(fs)), NEW j \in 1..Len(Pruned(fs)),
                        i < j
                 PROVE  Pruned(fs)[i] >= Pruned(fs)[j]
      BY DEF InOrder
    <2>1. i + k \in 1..Len(fs) /\ j + k \in 1..Len(fs) /\ i + k < j + k
      BY <1>1, <1>3, <1>5
    <2>2. fs[i + k] >= fs[j + k]
      BY <1>6, <2>1 DEF InOrder
    <2> QED
      BY <1>5, <2>2
  <1> QED
    BY <1>1, <1>3, <1>5, <1>6

\* A list that Allow lets through is pruned to less than the limit.
LEMMA AllowsList ==
  ASSUME NEW fs, Allows(fs)
  PROVE  Len(Pruned(fs)) < Limit
  BY DEF Allows

\* Growing older keeps a list of ages, its length and its order.
LEMMA AgedList ==
  ASSUME NEW fs \in Seq(Ages)
  PROVE  /\ Aged(fs) \in Seq(Ages)
         /\ Len(Aged(fs)) = Len(fs)
         /\ InOrder(fs) => InOrder(Aged(fs))
  <1>1. Len(fs) \in Nat /\ \A i \in 1..Len(fs) : fs[i] \in Ages
    OBVIOUS
  <1>2. \A i \in 1..Len(fs) :
           (IF Fresh(fs[i]) THEN fs[i] + 1 ELSE Window) \in Ages
    BY <1>1, LockoutAssumption DEF Ages, Fresh
  <1>3. Aged(fs) \in Seq(Ages) /\ Len(Aged(fs)) = Len(fs)
    BY <1>1, <1>2 DEF Aged
  <1>4. \A i \in 1..Len(fs) :
           Aged(fs)[i] = IF Fresh(fs[i]) THEN fs[i] + 1 ELSE Window
    BY DEF Aged
  <1>5. ASSUME InOrder(fs) PROVE InOrder(Aged(fs))
    <2> SUFFICES ASSUME NEW i \in 1..Len(fs), NEW j \in 1..Len(fs), i < j
                 PROVE  Aged(fs)[i] >= Aged(fs)[j]
      BY <1>3 DEF InOrder
    <2>1. fs[i] >= fs[j]
      BY <1>5 DEF InOrder
    <2> QED
      BY <1>1, <1>4, <2>1, LockoutAssumption DEF Ages, Fresh
  <1> QED
    BY <1>3, <1>5

\* A new failure goes last and is the youngest (RecordFailure, auth.go:79-83).
LEMMA RecordList ==
  ASSUME NEW fs \in Seq(Ages)
  PROVE  /\ RecordFailure(fs) \in Seq(Ages)
         /\ Len(RecordFailure(fs)) = Len(fs) + 1
         /\ InOrder(fs) => InOrder(RecordFailure(fs))
  <1>1. 0 \in Ages
    BY LockoutAssumption DEF Ages
  <1>2. /\ RecordFailure(fs) \in Seq(Ages)
        /\ Len(RecordFailure(fs)) = Len(fs) + 1
        /\ \A i \in 1..Len(fs) : RecordFailure(fs)[i] = fs[i]
        /\ RecordFailure(fs)[Len(fs) + 1] = 0
    BY <1>1, AppendProperties DEF RecordFailure
  <1>3. Len(fs) \in Nat /\ \A i \in 1..Len(fs) : fs[i] \in Nat
    BY LockoutAssumption DEF Ages
  <1>4. ASSUME InOrder(fs) PROVE InOrder(RecordFailure(fs))
    <2> SUFFICES ASSUME NEW i \in 1..(Len(fs) + 1), NEW j \in 1..(Len(fs) + 1),
                        i < j
                 PROVE  RecordFailure(fs)[i] >= RecordFailure(fs)[j]
      BY <1>2 DEF InOrder
    <2>1. i \in 1..Len(fs)
      BY <1>3
    <2>2. CASE j = Len(fs) + 1
      BY <1>2, <1>3, <2>1, <2>2
    <2>3. CASE j \in 1..Len(fs)
      BY <1>2, <1>4, <2>1, <2>3 DEF InOrder
    <2> QED
      BY <1>3, <2>2, <2>3
  <1> QED
    BY <1>2, <1>4

\* No failures are a list in order.
LEMMA EmptyList == <<>> \in Seq(Ages) /\ InOrder(<<>>) /\ Len(<<>>) = 0
  <1>1. <<>> \in Seq(Ages) /\ Len(<<>>) = 0
    BY EmptySeq
  <1> QED
    BY <1>1 DEF InOrder

----
\* The initial state is well typed.
LEMMA TypeInit == Init => TypeInv
  <1> SUFFICES ASSUME Init PROVE TypeInv
    OBVIOUS
  <1>1. rows \in [Users -> Rows]
    <2>1. PICK k \in {NoKey, CHOOSE k \in Keys : TRUE} :
             rows = [u \in Users |->
                       [live |-> u \in Accounts, enabled |-> TRUE, ftp |-> TRUE,
                        sftp |-> TRUE, pass |-> CHOOSE p \in Passwords : TRUE,
                        key |-> k]]
      BY DEF Init
    <2>2. (CHOOSE p \in Passwords : TRUE) \in Passwords
      BY LoginAssumption
    <2>3. k \in Keys \union {NoKey}
      <3>1. (CHOOSE x \in Keys : TRUE) \in Keys
        BY LoginAssumption
      <3> QED
        BY <2>1, <3>1
    <2>4. \A u \in Users : (u \in Accounts) \in BOOLEAN
      OBVIOUS
    <2>5. ASSUME NEW u \in Users
          PROVE  [live |-> u \in Accounts, enabled |-> TRUE, ftp |-> TRUE,
                  sftp |-> TRUE, pass |-> CHOOSE p \in Passwords : TRUE,
                  key |-> k] \in Rows
      BY <2>2, <2>3, <2>4, Zenon DEF Rows
    <2> QED
      BY <2>1, <2>5
  <1>2. failures \in [Users -> Seq(Ages)] /\ \A u \in Users : InOrder(failures[u])
    BY EmptyList DEF Init
  <1>3. edits \in 0..MaxEdits
    BY LoginAssumption DEF Init
  <1>4. pc \in [Conns -> Labels] /\ \A c \in Conns : pc[c] = "idle"
    BY DEF Init, Labels
  <1>5. att \in [Conns -> Attempts \union {NoAttempt}]
    BY DEF Init
  <1>6. snap \in [Conns -> [match : BOOLEAN, protocol : BOOLEAN]]
    BY DEF Init
  <1>7. said \in [Conns -> SUBSET AuditEvents]
    BY DEF Init
  <1>8. okSeen \in [Conns -> BOOLEAN] /\ ranOn \in [Conns -> {"none", "live", "deleted"}]
    BY DEF Init
  <1> QED
    BY <1>1, <1>2, <1>3, <1>4, <1>5, <1>6, <1>7, <1>8 DEF TypeInv

\* An action that changes one name's list puts a list in order there.
LEMMA FailuresType ==
  ASSUME TypeInv, NEW u \in Users, NEW fs \in Seq(Ages), InOrder(fs),
         failures' = [failures EXCEPT ![u] = fs]
  PROVE  failures' \in [Users -> Seq(Ages)] /\ \A v \in Users : InOrder(failures'[v])
  <1>1. failures \in [Users -> Seq(Ages)] /\ \A v \in Users : InOrder(failures[v])
    BY DEF TypeInv
  <1>2. \A v \in Users : failures'[v] = IF v = u THEN fs ELSE failures[v]
    BY <1>1
  <1> QED
    BY <1>1, <1>2

\* The lists the actions put there are in order.
LEMMA ListsType ==
  ASSUME TypeInv, NEW u \in Users
  PROVE  /\ Pruned(failures[u]) \in Seq(Ages) /\ InOrder(Pruned(failures[u]))
         /\ RecordFailure(failures[u]) \in Seq(Ages)
         /\ InOrder(RecordFailure(failures[u]))
         /\ Aged(failures[u]) \in Seq(Ages) /\ InOrder(Aged(failures[u]))
  <1>1. failures[u] \in Seq(Ages) /\ InOrder(failures[u])
    BY DEF TypeInv
  <1> QED
    BY <1>1, PrunedList, RecordList, AgedList

\* A connection that is somewhere is there with an attempt of a known name.
LEMMA AttUser ==
  ASSUME TypeInv, NEW c \in Conns, pc[c] # "idle"
  PROVE  att[c] \in Attempts /\ att[c].user \in Users
  BY DEF TypeInv, Attempts

\* Authenticate keeps the types.
LEMMA TypeAuthenticate ==
  ASSUME TypeInv, NEW c \in Conns, Authenticate(c)
  PROVE  TypeInv'
  <1>0. pc[c] # "idle"
    BY DEF Authenticate, Allow, LookupFails, LookupDisabled, Lookup,
           VerifyFails, Reset, LastLogin
  <1>1. att[c] \in Attempts /\ att[c].user \in Users
    BY <1>0, AttUser
  <1>2. /\ UNCHANGED <<rows, edits, att, okSeen, ranOn>>
        /\ pc' \in [Conns -> Labels]
        /\ \A d \in Conns : pc'[d] # "idle" => pc[d] # "idle"
        /\ said' \in [Conns -> SUBSET AuditEvents]
        /\ snap' \in [Conns -> [match : BOOLEAN, protocol : BOOLEAN]]
    <2>1. CASE Allow(c)
      <3>1. \/ Goto(c, "lookup") /\ UNCHANGED said
            \/ Refuse(c, {"locked_out"})
        BY <2>1 DEF Allow
      <3>2. UNCHANGED <<rows, edits, att, snap, okSeen, ranOn>>
        BY <2>1 DEF Allow
      <3>3. CASE Goto(c, "lookup") /\ UNCHANGED said
        BY <1>0, <3>2, <3>3 DEF TypeInv, Goto, Labels
      <3>4. CASE Refuse(c, {"locked_out"})
        BY <1>0, <3>2, <3>4 DEF TypeInv, Goto, Refuse, Say, Labels, AuditEvents
      <3> QED
        BY <3>1, <3>3, <3>4
    <2>2. CASE LookupFails(c)
      BY <2>2 DEF LookupFails, TypeInv, Goto, Refuse, Say, Labels, AuditEvents
    <2>3. CASE LookupDisabled(c)
      BY <2>3 DEF LookupDisabled, TypeInv, Goto, Refuse, Say, Labels, AuditEvents
    <2>4. CASE Lookup(c)
      <3>1. Protocol(c, Row(c)) \in BOOLEAN
        BY <1>1 DEF Protocol, Row, TypeInv, Rows
      <3>2. (att[c].secret = Row(c).pass) \in BOOLEAN
        OBVIOUS
      <3>3. snap' \in [Conns -> [match : BOOLEAN, protocol : BOOLEAN]]
        BY <2>4, <3>1, <3>2 DEF Lookup, TypeInv
      <3> QED
        BY <2>4, <3>3 DEF Lookup, TypeInv, Goto, Labels
    <2>5. CASE VerifyFails(c)
      BY <2>5 DEF VerifyFails, TypeInv, Goto, Refuse, Say, Labels, AuditEvents
    <2>6. CASE Reset(c)
      BY <2>6 DEF Reset, TypeInv, Goto, Labels
    <2>7. CASE LastLogin(c)
      BY <2>7 DEF LastLogin, TypeInv, Goto, Say, Labels, AuditEvents
    <2> QED
      BY <2>1, <2>2, <2>3, <2>4, <2>5, <2>6, <2>7 DEF Authenticate
  <1>3. \/ UNCHANGED failures
        \/ \E fs \in Seq(Ages) :
              InOrder(fs) /\ failures' = [failures EXCEPT ![att[c].user] = fs]
    BY <1>1, ListsType, EmptyList
       DEF Authenticate, Allow, LookupFails, LookupDisabled, Lookup,
           VerifyFails, Reset, LastLogin
  <1>4. failures' \in [Users -> Seq(Ages)] /\ \A v \in Users : InOrder(failures'[v])
    BY <1>1, <1>3, FailuresType DEF TypeInv
  <1> QED
    BY <1>2, <1>4 DEF TypeInv

\* So do the rest of a connection's actions.
LEMMA TypeConnection ==
  ASSUME TypeInv, NEW c \in Conns,
         Present(c) \/ FTP(c) \/ SFTP(c) \/ Command(c) \/ Disconnect(c)
  PROVE  TypeInv'
  <1>1. CASE Present(c)
    <2>1. PICK a \in Attempts :
             /\ att' = [att EXCEPT ![c] = a]
             /\ Goto(c, IF a.method = "password" THEN "allow" ELSE "pubkey")
             /\ okSeen' = [okSeen EXCEPT ![c] = Authorised(a, c, rows[a.user])]
      BY <1>1 DEF Present
    <2>2. Authorised(a, c, rows[a.user]) \in BOOLEAN
      BY DEF Authorised
    <2>3. okSeen' \in [Conns -> BOOLEAN]
      BY <2>1, <2>2, Zenon DEF TypeInv
    <2>4. att' \in [Conns -> Attempts \union {NoAttempt}]
      BY <2>1 DEF TypeInv
    <2>5. /\ pc' \in [Conns -> Labels]
          /\ \A d \in Conns : pc'[d] # "idle" => att'[d] \in Attempts
      BY <2>1 DEF TypeInv, Goto, Labels
    <2>6. said' \in [Conns -> SUBSET AuditEvents]
      BY <1>1 DEF Present, TypeInv
    <2>7. ranOn' \in [Conns -> {"none", "live", "deleted"}]
      BY <1>1 DEF Present, TypeInv
    <2>8. snap' \in [Conns -> [match : BOOLEAN, protocol : BOOLEAN]]
      BY <1>1 DEF Present, TypeInv
    <2>9. UNCHANGED <<rows, edits, failures>>
      BY <1>1 DEF Present
    <2> QED
      BY <2>3, <2>4, <2>5, <2>6, <2>7, <2>8, <2>9 DEF TypeInv
  <1>2. CASE FTP(c) \/ SFTP(c) \/ Command(c) \/ Disconnect(c)
    <2>1. UNCHANGED <<rows, edits, failures, att, snap, okSeen>>
      BY <1>2 DEF FTP, SFTP, Command, Disconnect, ProtocolDenied, AuthUser,
             AuthUserMountFails, PasswordCallback, PublicKeyUnheard,
             PublicKeyRefused, PublicKeyCallback, Sign, ServeSFTP,
             ServeSFTPFails
    <2>2. ranOn' \in [Conns -> {"none", "live", "deleted"}]
      BY <1>2 DEF TypeInv, FTP, SFTP, Command, Disconnect, ProtocolDenied,
             AuthUser, AuthUserMountFails, PasswordCallback, PublicKeyUnheard,
             PublicKeyRefused, PublicKeyCallback, Sign, ServeSFTP,
             ServeSFTPFails
    <2>3. /\ pc' \in [Conns -> Labels]
          /\ \A d \in Conns : pc'[d] # "idle" => pc[d] # "idle"
      <3>1. CASE UNCHANGED pc
        BY <3>1 DEF TypeInv
      <3>2. CASE \E l \in Labels : pc' = [pc EXCEPT ![c] = l] /\ pc[c] # "idle"
        BY <3>2 DEF TypeInv
      <3> QED
        BY <1>2, <3>1, <3>2 DEF Labels, FTP, SFTP, Command, Disconnect,
             ProtocolDenied, AuthUser, AuthUserMountFails, PasswordCallback,
             PublicKeyUnheard, PublicKeyRefused, PublicKeyCallback, Sign,
             ServeSFTP, ServeSFTPFails, Refuse, Goto
    <2>4. said' \in [Conns -> SUBSET AuditEvents]
      <3>1. CASE UNCHANGED said
        BY <3>1 DEF TypeInv
      <3>2. CASE \E e \in SUBSET AuditEvents : said' = [said EXCEPT ![c] = @ \union e]
        BY <3>2 DEF TypeInv
      <3>3. /\ {"ftp_disabled"} \in SUBSET AuditEvents
            /\ {"sftp_disabled"} \in SUBSET AuditEvents
            /\ {"connected"} \in SUBSET AuditEvents
            /\ {"ok"} \in SUBSET AuditEvents
            /\ {"logout"} \in SUBSET AuditEvents
            /\ {"sftp_pubkey_denied"} \in SUBSET AuditEvents
            /\ {"pubkey_mismatch"} \in SUBSET AuditEvents
        BY DEF AuditEvents
      <3> QED
        BY <1>2, <3>1, <3>2, <3>3 DEF FTP, SFTP, Command, Disconnect,
             ProtocolDenied, AuthUser, AuthUserMountFails, PasswordCallback,
             PublicKeyUnheard, PublicKeyRefused, PublicKeyCallback, Sign,
             ServeSFTP, ServeSFTPFails, Refuse, Goto, Say
    <2> QED
      BY <2>1, <2>2, <2>3, <2>4 DEF TypeInv
  <1> QED
    BY <1>1, <1>2

\* And so do the statements of the admin API.
LEMMA TypeAdmin ==
  ASSUME TypeInv, NEW u \in Users, Admin(u)
  PROVE  TypeInv'
  <1>1. PICK row \in Rows : Edited(u, row)
    <2>0. rows[u] \in Rows
      BY DEF TypeInv
    <2>1. CASE UpdateFTPUser(u)
      BY <2>0, <2>1 DEF UpdateFTPUser, Rows
    <2>2. CASE SetFTPUserPassword(u)
      BY <2>0, <2>2 DEF SetFTPUserPassword, Rows
    <2>3. CASE SetFTPUserSFTPKey(u)
      BY <2>0, <2>3 DEF SetFTPUserSFTPKey, Rows
    <2>4. CASE SoftDeleteFTPUser(u)
      BY <2>0, <2>4 DEF SoftDeleteFTPUser, Rows
    <2> QED
      BY <2>1, <2>2, <2>3, <2>4 DEF Admin
  <1>2. rows' \in [Users -> Rows]
    BY <1>1 DEF Edited, TypeInv
  <1>3. edits' \in 0..MaxEdits
    BY <1>1, LoginAssumption DEF Edited, TypeInv
  <1>4. okSeen' \in [Conns -> BOOLEAN]
    <2>1. \A c \in Conns :
             (\/ okSeen[c]
              \/ pc[c] # "idle" /\ Authorised(att[c], c, rows'[att[c].user])) \in BOOLEAN
      OBVIOUS
    <2> QED
      BY <1>1, <2>1, Zenon DEF Edited
  <1>5. UNCHANGED <<failures, pc, att, snap, said, ranOn>>
    BY <1>1 DEF Edited
  <1> QED
    BY <1>2, <1>3, <1>4, <1>5 DEF TypeInv

\* Every step keeps the types.
LEMMA TypeStep == TypeInv /\ [Next]_vars => TypeInv'
  <1> SUFFICES ASSUME TypeInv, [Next]_vars PROVE TypeInv'
    OBVIOUS
  <1>1. ASSUME NEW c \in Conns, Present(c) \/ FTP(c) \/ SFTP(c) \/ Command(c) \/ Disconnect(c)
        PROVE  TypeInv'
    BY <1>1, TypeConnection
  <1>2. ASSUME NEW c \in Conns, Authenticate(c) PROVE TypeInv'
    BY <1>2, TypeAuthenticate
  <1>3. ASSUME NEW u \in Users, Admin(u) PROVE TypeInv'
    BY <1>3, TypeAdmin
  <1>4. CASE Tick
    <2>1. failures' \in [Users -> Seq(Ages)] /\ \A u \in Users : InOrder(failures'[u])
      BY <1>4, ListsType DEF Tick
    <2> QED
      BY <1>4, <2>1 DEF Tick, TypeInv
  <1>5. CASE UNCHANGED vars
    BY <1>5 DEF vars, TypeInv
  <1> QED
    BY <1>1, <1>2, <1>3, <1>4, <1>5 DEF Next

----
\* The bound on a name's failures

\* A name's attempts in flight are finitely many.
LEMMA InFlightFinite ==
  ASSUME NEW u
  PROVE  /\ IsFiniteSet(InFlight(u))
         /\ Cardinality(InFlight(u)) \in Nat
         /\ Cardinality(InFlight(u)) <= Cardinality(Conns)
         /\ Cardinality(Conns) \in Nat
  <1>1. InFlight(u) \in SUBSET Conns /\ IsFiniteSet(Conns)
    BY LoginAssumption DEF InFlight
  <1> QED
    BY <1>1, FS_Subset, FS_CardinalityType

\* An attempt that leaves, or does not join, makes them no more.
LEMMA InFlightShrinks ==
  ASSUME NEW u, InFlight(u)' \subseteq InFlight(u)
  PROVE  /\ Cardinality(InFlight(u)') \in Nat
         /\ Cardinality(InFlight(u)') <= Cardinality(InFlight(u))
  BY InFlightFinite, FS_Subset, FS_CardinalityType

\* A connection that records a failure leaves: one fewer in flight, one more
\* on record.
LEMMA InFlightLeaves ==
  ASSUME NEW u, NEW c \in InFlight(u), InFlight(u)' = InFlight(u) \ {c}
  PROVE  Cardinality(InFlight(u)') = Cardinality(InFlight(u)) - 1
  BY InFlightFinite, FS_RemoveElement

\* A connection that Allow lets through was not in flight: even with it they
\* are no more than the connections.
LEMMA InFlightJoins ==
  ASSUME NEW u
  PROVE  /\ Cardinality(InFlight(u)') \in Nat
         /\ Cardinality(InFlight(u)') <= Cardinality(Conns)
  <1>1. InFlight(u)' \in SUBSET Conns /\ IsFiniteSet(Conns)
    BY LoginAssumption DEF InFlight
  <1> QED
    BY <1>1, FS_Subset, FS_CardinalityType

\* The bound holds at the start: nobody has failed, nobody is in flight.
LEMMA BoundInit == Init => LockoutBound
  <1> SUFFICES ASSUME Init, NEW u \in Users
               PROVE  Len(failures[u]) + Cardinality(InFlight(u))
                         < Limit + Cardinality(Conns)
    BY DEF LockoutBound
  <1>1. InFlight(u) = {}
    BY DEF Init, InFlight
  <1>2. Cardinality(InFlight(u)) = 0
    BY <1>1, FS_EmptySet
  <1>3. Len(failures[u]) = 0
    BY EmptyList DEF Init
  <1> QED
    BY <1>2, <1>3, InFlightFinite, LockoutAssumption

\* A step that makes neither the failures nor the attempts in flight more
\* keeps the bound.
LEMMA BoundShrinks ==
  ASSUME TypeInv, LockoutBound, NEW u \in Users,
         InFlight(u)' \subseteq InFlight(u),
         Len(failures'[u]) \in Nat, Len(failures'[u]) <= Len(failures[u])
  PROVE  Len(failures'[u]) + Cardinality(InFlight(u)')
            < Limit + Cardinality(Conns)
  <1>1. Len(failures[u]) \in Nat
    BY DEF TypeInv
  <1>2. Len(failures[u]) + Cardinality(InFlight(u)) < Limit + Cardinality(Conns)
    BY DEF LockoutBound
  <1> QED
    BY <1>1, <1>2, InFlightShrinks, InFlightFinite, LockoutAssumption

\* Authenticate keeps the bound.
LEMMA BoundAuthenticate ==
  ASSUME TypeInv, TypeInv', LockoutBound, NEW c \in Conns, Authenticate(c),
         NEW u \in Users
  PROVE  Len(failures'[u]) + Cardinality(InFlight(u)')
            < Limit + Cardinality(Conns)
  <1> USE DEF TypeInv
  <1>0. att' = att
    BY DEF Authenticate, Allow, LookupFails, LookupDisabled, Lookup,
           VerifyFails, Reset, LastLogin
  <1>1. Len(failures[u]) \in Nat /\ Len(failures'[u]) \in Nat
    OBVIOUS
  <1>2. CASE Allow(c)
    <2>1. failures' = [failures EXCEPT ![att[c].user] = Pruned(failures[att[c].user])]
      BY <1>2 DEF Allow
    <2>2. Len(failures'[u]) <= Len(failures[u])
      BY <1>1, <2>1, PrunedList
    <2>3. CASE u = att[c].user /\ Allows(failures[u])
      <3>1. Len(failures'[u]) < Limit
        BY <2>1, <2>3, AllowsList
      <3>2. /\ Cardinality(InFlight(u)') \in Nat
            /\ Cardinality(InFlight(u)') <= Cardinality(Conns)
        BY InFlightJoins
      <3>3. Cardinality(Conns) \in Nat
        BY InFlightFinite
      <3> QED
        BY <1>1, <3>1, <3>2, <3>3, LockoutAssumption
    <2>4. CASE ~(u = att[c].user /\ Allows(failures[u]))
      <3>1. \A d \in Conns : d # c => pc'[d] = pc[d]
        BY <1>2 DEF Allow, Goto, Refuse
      <3>2. att[c].user = u => pc'[c] = "idle"
        BY <1>2, <2>4 DEF Allow, Goto, Refuse
      <3>3. InFlight(u)' \subseteq InFlight(u)
        BY <1>0, <3>1, <3>2 DEF InFlight
      <3> QED
        BY <1>1, <2>2, <3>3, BoundShrinks
    <2> QED
      BY <2>3, <2>4
  <1>3. CASE LookupFails(c) \/ VerifyFails(c)
    <2>1. /\ pc[c] \in {"lookup", "verify"}
          /\ pc' = [pc EXCEPT ![c] = "idle"]
          /\ failures' = [failures EXCEPT ![att[c].user] =
                             RecordFailure(failures[att[c].user])]
      BY <1>3 DEF LookupFails, VerifyFails, Refuse, Goto
    <2>2. CASE u = att[c].user
      <3>1. c \in InFlight(u)
        BY <2>1, <2>2 DEF InFlight
      <3>2. InFlight(u)' = InFlight(u) \ {c}
        BY <1>0, <2>1 DEF InFlight
      <3>3. Cardinality(InFlight(u)') = Cardinality(InFlight(u)) - 1
        BY <3>1, <3>2, InFlightLeaves
      <3>4. Len(failures'[u]) = Len(failures[u]) + 1
        BY <2>1, <2>2, RecordList
      <3>5. Len(failures[u]) + Cardinality(InFlight(u)) < Limit + Cardinality(Conns)
        BY DEF LockoutBound
      <3>6. Cardinality(InFlight(u)) \in Nat
        BY InFlightFinite
      <3> QED
        BY <1>1, <3>3, <3>4, <3>5, <3>6
    <2>3. CASE u # att[c].user
      <3>1. InFlight(u)' \subseteq InFlight(u)
        BY <1>0, <2>1 DEF InFlight
      <3>2. failures'[u] = failures[u]
        BY <2>1, <2>3
      <3> QED
        BY <1>1, <3>1, <3>2, BoundShrinks
    <2> QED
      BY <2>2, <2>3
  <1>4. CASE LookupDisabled(c) \/ Lookup(c) \/ Reset(c) \/ LastLogin(c)
    <2>1. /\ pc'[c] \in {"lookup", "verify"} => pc[c] \in {"lookup", "verify"}
          /\ \A d \in Conns : d # c => pc'[d] = pc[d]
      BY <1>4 DEF LookupDisabled, Lookup, Reset, LastLogin, Goto, Refuse
    <2>2. InFlight(u)' \subseteq InFlight(u)
      BY <1>0, <2>1 DEF InFlight
    <2>3. failures' = failures \/ failures' = [failures EXCEPT ![att[c].user] = <<>>]
      BY <1>4 DEF LookupDisabled, Lookup, Reset, LastLogin
    <2>4. failures'[u] = failures[u] \/ failures'[u] = <<>>
      BY <2>3
    <2>5. Len(failures'[u]) <= Len(failures[u])
      BY <1>1, <2>4, EmptyList
    <2> QED
      BY <1>1, <2>2, <2>5, BoundShrinks
  <1> QED
    BY <1>2, <1>3, <1>4 DEF Authenticate

\* Every step keeps the bound.
LEMMA BoundStep == TypeInv /\ LockoutBound /\ [Next]_vars => LockoutBound'
  <1> SUFFICES ASSUME TypeInv, LockoutBound, [Next]_vars, NEW u \in Users
               PROVE  Len(failures'[u]) + Cardinality(InFlight(u)')
                         < Limit + Cardinality(Conns)
    BY DEF LockoutBound
  <1>0. TypeInv'
    BY TypeStep
  <1>1. Len(failures[u]) \in Nat /\ Len(failures'[u]) \in Nat
    BY <1>0 DEF TypeInv
  <1>2. ASSUME NEW c \in Conns, Authenticate(c)
        PROVE  Len(failures'[u]) + Cardinality(InFlight(u)')
                  < Limit + Cardinality(Conns)
    BY <1>0, <1>2, BoundAuthenticate
  <1>3. ASSUME NEW c \in Conns,
               Present(c) \/ FTP(c) \/ SFTP(c) \/ Command(c) \/ Disconnect(c)
        PROVE  failures' = failures /\ InFlight(u)' \subseteq InFlight(u)
    <2>1. failures' = failures
      BY <1>3 DEF Present, FTP, SFTP, Command, Disconnect, ProtocolDenied,
             AuthUser, AuthUserMountFails, PasswordCallback, PublicKeyUnheard,
             PublicKeyRefused, PublicKeyCallback, Sign, ServeSFTP,
             ServeSFTPFails
    <2>2. /\ \A d \in Conns : d # c => pc'[d] = pc[d] /\ att'[d] = att[d]
          /\ \/ pc'[c] \notin {"lookup", "verify"}
             \/ pc'[c] = pc[c] /\ att'[c] = att[c]
      BY <1>3 DEF TypeInv, Present, FTP, SFTP, Command, Disconnect,
             ProtocolDenied, AuthUser, AuthUserMountFails, PasswordCallback,
             PublicKeyUnheard, PublicKeyRefused, PublicKeyCallback, Sign,
             ServeSFTP, ServeSFTPFails, Goto, Refuse
    <2> QED
      BY <2>1, <2>2 DEF InFlight
  <1>4. ASSUME NEW v \in Users, Admin(v)
        PROVE  failures' = failures /\ InFlight(u)' \subseteq InFlight(u)
    BY <1>4 DEF Admin, UpdateFTPUser, SetFTPUserPassword, SetFTPUserSFTPKey,
           SoftDeleteFTPUser, Edited, InFlight
  <1>5. CASE Tick
    <2>1. InFlight(u)' \subseteq InFlight(u)
      BY <1>5 DEF Tick, InFlight
    <2>2. Len(failures'[u]) = Len(failures[u])
      BY <1>5, AgedList DEF Tick, TypeInv
    <2> QED
      BY <1>1, <2>1, <2>2, BoundShrinks
  <1>6. CASE UNCHANGED vars
    BY <1>1, <1>6, BoundShrinks DEF vars, InFlight
  <1> QED
    BY <1>1, <1>2, <1>3, <1>4, <1>5, <1>6, BoundShrinks DEF Next

----
\* Nobody gets in who never was entitled to

\* Nobody is connected at the start.
LEMMA EntitledInit == Init => Entitled
  BY DEF Init, Entitled

\* What Entitled says of one connection.
EntitledAt(c) ==
    /\ pc[c] # "idle" /\ Authorised(att[c], c, Row(c)) => okSeen[c]
    /\ pc[c] = "verify" /\ snap[c].match /\ snap[c].protocol => okSeen[c]
    /\ pc[c] \in {"lastlogin", "authenticated"} /\ snap[c].protocol => okSeen[c]
    /\ pc[c] \in {"pubkey", "offered"} => c \notin FTPConns
    /\ pc[c] = "pubkey" => att[c].method = "publickey"
    /\ pc[c] \in {"allow", "lookup", "verify"} => att[c].method = "password"
    /\ pc[c] \in {"offered", "handshaken", "session", "marked"} => okSeen[c]

\* A step that leaves the rows, a connection's place, its attempt, what it
\* remembers and its history alone leaves what Entitled says of it alone.
LEMMA EntitledAtUnchanged ==
  ASSUME NEW c, EntitledAt(c), UNCHANGED <<rows, att>>,
         pc'[c] = pc[c], snap'[c] = snap[c], okSeen'[c] = okSeen[c]
  PROVE  EntitledAt(c)'
  BY DEF EntitledAt, Row, Authorised, Protocol

\* What a connection does leaves the others alone; here is what it does to
\* itself: Authenticate ...
LEMMA EntitledAuthenticate ==
  ASSUME TypeInv, NEW c \in Conns, EntitledAt(c), Authenticate(c)
  PROVE  EntitledAt(c)'
  <1>0. UNCHANGED <<rows, att, okSeen>>
    BY DEF Authenticate, Allow, LookupFails, LookupDisabled, Lookup,
           VerifyFails, Reset, LastLogin
  <1>1. Authorised(att[c], c, Row(c))' = Authorised(att[c], c, Row(c))
    BY <1>0 DEF Authorised, Row, Protocol
  <1>2. CASE Lookup(c)
    <2>1. /\ pc[c] = "lookup" /\ pc'[c] = "verify"
          /\ Row(c).live /\ Row(c).enabled
          /\ snap'[c].match <=> (att[c].secret = Row(c).pass)
          /\ snap'[c].protocol <=> Protocol(c, Row(c))
      <3>1. snap'[c] = [match |-> att[c].secret = Row(c).pass,
                        protocol |-> Protocol(c, Row(c))]
        BY <1>2 DEF Lookup, TypeInv
      <3> QED
        BY <1>2, <3>1 DEF Lookup, TypeInv, Goto
    <2>2. att[c].method = "password"
      BY <2>1 DEF EntitledAt
    <2>3. snap'[c].match /\ snap'[c].protocol => Authorised(att[c], c, Row(c))
      BY <2>1, <2>2 DEF Authorised
    <2>4. snap'[c].match /\ snap'[c].protocol => okSeen[c]
      BY <2>1, <2>3 DEF EntitledAt
    <2> QED
      BY <1>0, <1>1, <2>1, <2>2, <2>4 DEF EntitledAt
  <1>3. CASE Reset(c)
    <2>1. /\ pc[c] = "verify" /\ pc'[c] = "lastlogin" /\ snap[c].match
          /\ snap' = snap
      BY <1>3 DEF Reset, Goto, TypeInv
    <2> QED
      BY <1>0, <1>1, <2>1 DEF EntitledAt
  <1>4. CASE LastLogin(c)
    <2>1. /\ pc[c] = "lastlogin" /\ pc'[c] = "authenticated"
          /\ snap' = snap
      BY <1>4 DEF LastLogin, Goto, TypeInv
    <2> QED
      BY <1>0, <1>1, <2>1 DEF EntitledAt
  <1>5. CASE Allow(c) \/ LookupFails(c) \/ LookupDisabled(c) \/ VerifyFails(c)
    <2>1. /\ pc[c] # "idle"
          /\ pc'[c] = "idle" \/ (pc[c] = "allow" /\ pc'[c] = "lookup")
          /\ snap' = snap
      BY <1>5 DEF Allow, LookupFails, LookupDisabled, VerifyFails, Goto,
                  Refuse, TypeInv
    <2> QED
      BY <1>0, <1>1, <2>1 DEF EntitledAt
  <1> QED
    BY <1>2, <1>3, <1>4, <1>5 DEF Authenticate

\* ... and the rest.
LEMMA EntitledConnection ==
  ASSUME TypeInv, NEW c \in Conns, EntitledAt(c),
         Present(c) \/ FTP(c) \/ SFTP(c) \/ Command(c) \/ Disconnect(c)
  PROVE  EntitledAt(c)'
  <1>1. CASE Present(c)
    <2>1. PICK a \in Attempts :
             /\ a.method = "publickey" => c \notin FTPConns
             /\ att' = [att EXCEPT ![c] = a]
             /\ Goto(c, IF a.method = "password" THEN "allow" ELSE "pubkey")
             /\ okSeen' = [okSeen EXCEPT ![c] = Authorised(a, c, rows[a.user])]
      BY <1>1 DEF Present
    <2>2. att'[c] = a /\ rows' = rows
      BY <1>1, <2>1 DEF Present, TypeInv
    <2>3. okSeen'[c] = Authorised(a, c, rows[a.user])
      BY <2>1, Zenon DEF TypeInv
    <2>4. pc'[c] = IF a.method = "password" THEN "allow" ELSE "pubkey"
      BY <2>1 DEF Goto, TypeInv
    <2>5. a.method \in {"password", "publickey"}
      BY DEF Attempts
    <2>6. Authorised(att[c], c, Row(c))' => okSeen'[c]
      BY <2>2, <2>3 DEF Authorised, Row, Protocol
    <2> QED
      BY <2>1, <2>2, <2>4, <2>5, <2>6 DEF EntitledAt
  <1>2. CASE FTP(c) \/ SFTP(c) \/ Command(c) \/ Disconnect(c)
    <2>0. UNCHANGED <<rows, att, snap, okSeen>>
      BY <1>2 DEF FTP, SFTP, Command, Disconnect, ProtocolDenied, AuthUser,
             AuthUserMountFails, PasswordCallback, PublicKeyUnheard,
             PublicKeyRefused, PublicKeyCallback, Sign, ServeSFTP,
             ServeSFTPFails
    <2>1. Authorised(att[c], c, Row(c))' = Authorised(att[c], c, Row(c))
      BY <2>0 DEF Authorised, Row, Protocol
    <2>2. CASE PublicKeyCallback(c)
      <3>1. pc[c] = "pubkey" /\ pc'[c] = "offered"
        BY <2>2 DEF PublicKeyCallback, Goto, TypeInv
      <3>2. c \notin FTPConns /\ att[c].method = "publickey"
        BY <3>1 DEF EntitledAt
      <3>3. Authorised(att[c], c, Row(c))
        BY <2>2, <3>2 DEF PublicKeyCallback, Authorised, Protocol
      <3>4. okSeen[c]
        BY <3>1, <3>3 DEF EntitledAt
      <3> QED
        BY <2>0, <2>1, <3>1, <3>2, <3>4 DEF EntitledAt
    <2>3. CASE AuthUser(c) \/ AuthUserMountFails(c) \/ PasswordCallback(c)
      <3>1. /\ pc[c] = "authenticated" /\ snap[c].protocol
            /\ pc'[c] \in {"session", "marked", "handshaken"}
        BY <2>3 DEF AuthUser, AuthUserMountFails, PasswordCallback, Goto, TypeInv
      <3> QED
        BY <2>0, <2>1, <3>1 DEF EntitledAt
    <2>4. CASE Sign(c) \/ ServeSFTP(c) \/ Disconnect(c)
      <3>1. /\ pc[c] \in {"offered", "handshaken", "session", "marked"}
            /\ pc'[c] \in {"handshaken", "idle", "session"}
        BY <2>4 DEF Sign, ServeSFTP, Disconnect, Goto, TypeInv
      <3> QED
        BY <2>0, <2>1, <3>1 DEF EntitledAt
    <2>5. CASE ProtocolDenied(c) \/ PublicKeyUnheard(c) \/ PublicKeyRefused(c)
               \/ ServeSFTPFails(c)
      <3>1. pc'[c] = "idle"
        BY <2>5 DEF ProtocolDenied, PublicKeyUnheard, PublicKeyRefused,
               ServeSFTPFails, Goto, Refuse, TypeInv
      <3> QED
        BY <2>0, <2>1, <3>1 DEF EntitledAt
    <2>6. CASE Command(c)
      <3>1. pc' = pc
        BY <2>6 DEF Command
      <3> QED
        BY <2>0, <3>1, EntitledAtUnchanged
    <2> QED
      BY <1>2, <2>2, <2>3, <2>4, <2>5, <2>6 DEF FTP, SFTP
  <1> QED
    BY <1>1, <1>2

\* A connection's actions touch its own entries alone.
LEMMA OthersUnchanged ==
  ASSUME TypeInv, NEW c \in Conns, NEW d \in Conns, d # c,
         \/ Present(c) \/ Authenticate(c) \/ FTP(c) \/ SFTP(c) \/ Command(c)
         \/ Disconnect(c)
  PROVE  /\ rows' = rows /\ att'[d] = att[d]
         /\ pc'[d] = pc[d] /\ snap'[d] = snap[d] /\ okSeen'[d] = okSeen[d]
  <1>1. CASE Present(c)
    BY <1>1 DEF TypeInv, Present, Goto
  <1>2. CASE Authenticate(c)
    BY <1>2 DEF TypeInv, Goto, Refuse, Authenticate, Allow, LookupFails,
           LookupDisabled, Lookup, VerifyFails, Reset, LastLogin
  <1>3. CASE FTP(c) \/ SFTP(c) \/ Command(c) \/ Disconnect(c)
    BY <1>3 DEF TypeInv, Goto, Refuse, FTP, SFTP, Command, Disconnect,
           ProtocolDenied, AuthUser, AuthUserMountFails, PasswordCallback,
           PublicKeyUnheard, PublicKeyRefused, PublicKeyCallback, Sign,
           ServeSFTP, ServeSFTPFails
  <1> QED
    BY <1>1, <1>2, <1>3

\* Every step keeps Entitled; an edit of a row looks at every attempt.
LEMMA EntitledStep == TypeInv /\ Entitled /\ [Next]_vars => Entitled'
  <1> SUFFICES ASSUME TypeInv, Entitled, [Next]_vars, NEW d \in Conns
               PROVE  EntitledAt(d)'
    BY DEF Entitled, EntitledAt
  <1>0. EntitledAt(d)
    BY DEF Entitled, EntitledAt
  <1>1. ASSUME NEW c \in Conns,
               \/ Present(c) \/ Authenticate(c) \/ FTP(c) \/ SFTP(c)
               \/ Command(c) \/ Disconnect(c)
        PROVE  EntitledAt(d)'
    <2>1. CASE c = d
      BY <1>0, <1>1, <2>1, EntitledAuthenticate, EntitledConnection
    <2>2. CASE c # d
      <3>1. /\ rows' = rows /\ att'[d] = att[d]
            /\ pc'[d] = pc[d] /\ snap'[d] = snap[d] /\ okSeen'[d] = okSeen[d]
        BY <1>1, <2>2, OthersUnchanged
      <3> QED
        BY <1>0, <3>1 DEF EntitledAt, Row, Authorised, Protocol
    <2> QED
      BY <2>1, <2>2
  <1>2. ASSUME NEW u \in Users, Admin(u) PROVE EntitledAt(d)'
    <2>1. /\ UNCHANGED <<pc, att, snap>>
          /\ okSeen'[d] <=> \/ okSeen[d]
                            \/ pc[d] # "idle" /\ Authorised(att[d], d, rows'[att[d].user])
      BY <1>2 DEF Admin, UpdateFTPUser, SetFTPUserPassword, SetFTPUserSFTPKey,
                  SoftDeleteFTPUser, Edited
    <2>2. Authorised(att[d], d, Row(d))' <=> Authorised(att[d], d, rows'[att[d].user])
      BY <2>1 DEF Authorised, Row, Protocol
    <2> QED
      BY <1>0, <2>1, <2>2 DEF EntitledAt
  <1>3. CASE Tick
    BY <1>0, <1>3, EntitledAtUnchanged DEF Tick
  <1>4. CASE UNCHANGED vars
    BY <1>0, <1>4, EntitledAtUnchanged DEF vars
  <1> QED
    BY <1>1, <1>2, <1>3, <1>4 DEF Next

----
\* What the audit trail was told

\* What AuditFaithful says of one connection, and what it takes to keep it: the
\* success has been logged as soon as the password or the key was accepted.
AuditedAt(c) ==
    /\ pc[c] = "idle" /\ att[c].method = "password" => said[c] \ {"logout"} # {}
    /\ pc[c] \in {"authenticated", "offered", "marked", "handshaken", "session"}
          => "ok" \in said[c]
    /\ "logout" \in said[c] => "ok" \in said[c]

Audited == \A c \in Conns : AuditedAt(c)

\* At the start nobody has made an attempt.
LEMMA AuditedInit == Init => Audited
  BY DEF Init, Audited, AuditedAt, NoAttempt

\* Events are only added to what was said of an attempt.
LEMMA Said ==
  ASSUME TypeInv, NEW c \in Conns, NEW events \in SUBSET AuditEvents, Say(c, events)
  PROVE  said'[c] = said[c] \union events
  BY DEF Say, TypeInv

\* Authenticate ends an attempt with an event of its own, and lets it through
\* with a success.
LEMMA AuditedAuthenticate ==
  ASSUME TypeInv, NEW c \in Conns, AuditedAt(c), Authenticate(c)
  PROVE  AuditedAt(c)'
  <1>0. att' = att
    BY DEF Authenticate, Allow, LookupFails, LookupDisabled, Lookup,
           VerifyFails, Reset, LastLogin
  <1>1. CASE \E e \in AuditEvents \ {"logout"} : Refuse(c, {e})
    <2>1. PICK e \in AuditEvents \ {"logout"} : Goto(c, "idle") /\ Say(c, {e})
      BY <1>1 DEF Refuse
    <2>2. said'[c] = said[c] \union {e} /\ pc'[c] = "idle"
      BY <2>1, Said DEF Goto, TypeInv
    <2> QED
      BY <1>0, <2>1, <2>2 DEF AuditedAt
  <1>2. CASE UNCHANGED said /\ \E l \in {"lookup", "verify", "lastlogin"} : Goto(c, l)
    <2>1. said'[c] = said[c] /\ pc'[c] \in {"lookup", "verify", "lastlogin"}
      BY <1>2 DEF Goto, TypeInv
    <2> QED
      BY <1>0, <2>1 DEF AuditedAt
  <1>3. CASE LastLogin(c)
    <2>1. PICK failed \in {{}, {"last_login_failed"}} : Say(c, failed \union {"ok"})
      BY <1>3 DEF LastLogin
    <2>2. failed \union {"ok"} \in SUBSET AuditEvents
      BY DEF AuditEvents
    <2>3. said'[c] = said[c] \union (failed \union {"ok"})
      BY <2>1, <2>2, Said
    <2>4. pc'[c] = "authenticated"
      BY <1>3 DEF LastLogin, Goto, TypeInv
    <2> QED
      BY <1>0, <2>3, <2>4 DEF AuditedAt
  <1> QED
    BY <1>1, <1>2, <1>3
       DEF Authenticate, Allow, LookupFails, LookupDisabled, Lookup,
           VerifyFails, Reset, AuditEvents

\* The servers log a refusal over the success already logged, and a LOGOUT only
\* where one was; a key that is not heard of is no password attempt.
LEMMA AuditedConnection ==
  ASSUME TypeInv, NEW c \in Conns, EntitledAt(c), AuditedAt(c),
         Present(c) \/ FTP(c) \/ SFTP(c) \/ Command(c) \/ Disconnect(c)
  PROVE  AuditedAt(c)'
  <1>1. CASE Present(c)
    <2>1. said'[c] = {} /\ pc'[c] \in {"allow", "pubkey"}
      BY <1>1 DEF Present, Goto, TypeInv
    <2> QED
      BY <2>1 DEF AuditedAt
  <1>2. CASE PublicKeyUnheard(c) \/ PublicKeyRefused(c)
    <2>1. pc[c] = "pubkey" /\ pc'[c] = "idle" /\ att' = att
      BY <1>2 DEF PublicKeyUnheard, PublicKeyRefused, Refuse, Goto, TypeInv
    <2>2. att'[c].method = "publickey"
      BY <2>1 DEF EntitledAt
    <2>3. \/ said'[c] = said[c]
          \/ \E e \in AuditEvents \ {"logout"} : said'[c] = said[c] \union {e}
      BY <1>2, Said DEF PublicKeyUnheard, PublicKeyRefused, Refuse, AuditEvents
    <2> QED
      BY <2>1, <2>2, <2>3 DEF AuditedAt
  <1>3. CASE PublicKeyCallback(c)
    <2>1. pc'[c] = "offered"
      BY <1>3 DEF PublicKeyCallback, Goto, TypeInv
    <2>2. said'[c] = said[c] \union {"ok"}
      BY <1>3, Said DEF PublicKeyCallback, AuditEvents
    <2> QED
      BY <2>1, <2>2 DEF AuditedAt
  <1>4. CASE \/ FTP(c) \/ PasswordCallback(c) \/ Sign(c) \/ ServeSFTP(c)
             \/ ServeSFTPFails(c) \/ Command(c) \/ Disconnect(c)
    <2>1. "ok" \in said[c]
      BY <1>4 DEF AuditedAt, FTP, ProtocolDenied, AuthUser, AuthUserMountFails,
             PasswordCallback, Sign, ServeSFTP, ServeSFTPFails, Command,
             Disconnect
    <2>2. UNCHANGED said \/ \E events \in SUBSET AuditEvents : Say(c, events)
      BY <1>4 DEF AuditEvents, FTP, ProtocolDenied, AuthUser,
             AuthUserMountFails, PasswordCallback, Sign, ServeSFTP,
             ServeSFTPFails, Command, Disconnect, Refuse
    <2>3. "ok" \in said'[c]
      BY <2>1, <2>2, Said
    <2> QED
      BY <2>3 DEF AuditedAt
  <1> QED
    BY <1>1, <1>2, <1>3, <1>4 DEF SFTP

\* A connection's actions say nothing of the others.
LEMMA OthersUnsaid ==
  ASSUME TypeInv, NEW c \in Conns, NEW d \in Conns, d # c,
         \/ Present(c) \/ Authenticate(c) \/ FTP(c) \/ SFTP(c) \/ Command(c)
         \/ Disconnect(c)
  PROVE  said'[d] = said[d]
  <1>1. CASE Present(c)
    BY <1>1 DEF TypeInv, Present
  <1>2. CASE Authenticate(c)
    BY <1>2 DEF TypeInv, Say, Refuse, Authenticate, Allow, LookupFails,
           LookupDisabled, Lookup, VerifyFails, Reset, LastLogin
  <1>3. CASE FTP(c) \/ SFTP(c) \/ Command(c) \/ Disconnect(c)
    BY <1>3 DEF TypeInv, Say, Refuse, FTP, SFTP, Command, Disconnect,
           ProtocolDenied, AuthUser, AuthUserMountFails, PasswordCallback,
           PublicKeyUnheard, PublicKeyRefused, PublicKeyCallback, Sign,
           ServeSFTP, ServeSFTPFails
  <1> QED
    BY <1>1, <1>2, <1>3

\* Every step keeps Audited.
LEMMA AuditedStep == TypeInv /\ Entitled /\ Audited /\ [Next]_vars => Audited'
  <1> SUFFICES ASSUME TypeInv, Entitled, Audited, [Next]_vars, NEW d \in Conns
               PROVE  AuditedAt(d)'
    BY DEF Audited
  <1>0. EntitledAt(d) /\ AuditedAt(d)
    BY DEF Entitled, EntitledAt, Audited
  <1>1. ASSUME NEW c \in Conns,
               \/ Present(c) \/ Authenticate(c) \/ FTP(c) \/ SFTP(c)
               \/ Command(c) \/ Disconnect(c)
        PROVE  AuditedAt(d)'
    <2>1. CASE c = d
      BY <1>0, <1>1, <2>1, AuditedAuthenticate, AuditedConnection
    <2>2. CASE c # d
      <3>1. att'[d] = att[d] /\ pc'[d] = pc[d] /\ said'[d] = said[d]
        BY <1>1, <2>2, OthersUnchanged, OthersUnsaid
      <3> QED
        BY <1>0, <3>1 DEF AuditedAt
    <2> QED
      BY <2>1, <2>2
  <1>2. ASSUME \/ \E u \in Users : Admin(u)
               \/ Tick
               \/ UNCHANGED vars
        PROVE  AuditedAt(d)'
    <2>1. UNCHANGED <<pc, att, said>>
      BY <1>2 DEF Admin, UpdateFTPUser, SetFTPUserPassword, SetFTPUserSFTPKey,
                  SoftDeleteFTPUser, Edited, Tick, vars
    <2> QED
      BY <1>0, <2>1 DEF AuditedAt
  <1> QED
    BY <1>1, <1>2 DEF Next

----
\* What a list of failures counts

\* Pruning drops no failure that still counts: the old ones of a list in order
\* are its first (Lockout.Allow, auth.go:64-77).
LEMMA PrunedCounts ==
  ASSUME NEW fs \in Seq(Ages), InOrder(fs)
  PROVE  Recent(Pruned(fs)) = Recent(fs)
  <1> DEFINE n == Len(fs)
             old == {i \in 1..n : ~Fresh(fs[i])}
             fresh == {i \in 1..n : Fresh(fs[i])}
             k == Cardinality(old)
             left == {i \in 1..Len(Pruned(fs)) : Fresh(Pruned(fs)[i])}
  <1>1. n \in Nat /\ \A i \in 1..n : fs[i] \in Nat
    BY LockoutAssumption DEF Ages
  <1>2. IsFiniteSet(1..n) /\ Cardinality(1..n) = n
    BY <1>1, FS_Interval, 1 \in Int, n \in Int
  <1>3. IsFiniteSet(old) /\ k \in Nat /\ k <= n
    BY <1>2, FS_Subset, FS_CardinalityType, old \subseteq 1..n
  <1>4. Cardinality(fresh) = n - k
    <2>1. fresh = (1..n) \ old
      OBVIOUS
    <2>2. (1..n) \cap old = old
      OBVIOUS
    <2>3. Cardinality((1..n) \ old)
             = Cardinality(1..n) - Cardinality((1..n) \cap old)
      <3> HIDE DEF n, old
      <3> QED
        BY <1>2, FS_Difference
    <2> HIDE DEF n, old, fresh
    <2> QED
      BY <1>2, <2>1, <2>2, <2>3
  <1>5. ASSUME NEW i \in 1..n, i > k PROVE Fresh(fs[i])
    <2> SUFFICES ASSUME ~Fresh(fs[i]) PROVE FALSE
      OBVIOUS
    <2>1. 1..i \subseteq old
      <3> SUFFICES ASSUME NEW j \in 1..i PROVE ~Fresh(fs[j]) /\ j \in 1..n
        OBVIOUS
      <3>1. j \in 1..n /\ fs[j] >= fs[i]
        BY <1>1 DEF InOrder
      <3> QED
        BY <1>1, <3>1, LockoutAssumption DEF Fresh
    <2>2. Cardinality(1..i) = i
      BY FS_Interval, 1 \in Int, i \in Int
    <2>3. i <= k
      BY <1>3, <2>1, <2>2, FS_Subset
    <2> QED
      BY <1>3, <1>5, <2>3
  <1>6. /\ Len(Pruned(fs)) = n - k
        /\ \A i \in 1..(n - k) : Pruned(fs)[i] = fs[i + k]
    <2>1. Pruned(fs) = SubSeq(fs, k + 1, n)
      BY DEF Pruned
    <2> HIDE DEF k
    <2> QED
      BY <1>1, <1>3, <2>1
  <1> HIDE DEF k
  <1>7. left = 1..(n - k)
    <2>1. ASSUME NEW i \in 1..(n - k) PROVE Fresh(Pruned(fs)[i])
      <3>1. i + k \in 1..n /\ i + k > k
        BY <1>1, <1>3
      <3> QED
        BY <1>5, <1>6, <3>1
    <2> QED
      BY <1>6, <2>1
  <1>8. Cardinality(1..(n - k)) = n - k
    BY <1>1, <1>3, FS_Interval, 1 \in Int, n - k \in Int
  <1> QED
    BY <1>4, <1>7, <1>8 DEF Recent

\* The failures that count shrink only by Reset, and Reset only runs where a
\* password has matched.
LEMMA ForgetStep ==
  ASSUME TypeInv, [Next]_vars, NEW u \in Users,
         Len(failures'[u]) < Len(failures[u]),
         Recent(failures'[u]) < Recent(failures[u])
  PROVE  \E c \in Conns : /\ pc[c] = "verify" /\ pc'[c] = "lastlogin"
                          /\ att[c].user = u /\ snap[c].match
  <1>0. /\ failures \in [Users -> Seq(Ages)]
        /\ failures[u] \in Seq(Ages) /\ InOrder(failures[u])
        /\ Len(failures[u]) \in Nat
    BY DEF TypeInv
  <1>1. failures'[u] # failures[u]
    BY <1>0
  <1>2. failures'[u] # Pruned(failures[u])
    <2>1. Recent(failures[u]) \in Nat
      <3>1. IsFiniteSet(1..Len(failures[u]))
        BY <1>0, FS_Interval, 1 \in Int, Len(failures[u]) \in Int
      <3> QED
        BY <3>1, FS_Subset, FS_CardinalityType DEF Recent
    <2> QED
      BY <1>0, <2>1, PrunedCounts
  <1>3. /\ failures'[u] # RecordFailure(failures[u])
        /\ failures'[u] # Aged(failures[u])
    <2>1. Len(RecordFailure(failures[u])) = Len(failures[u]) + 1
      BY <1>0, RecordList
    <2>2. Len(Aged(failures[u])) = Len(failures[u])
      BY <1>0, AgedList
    <2> QED
      BY <1>0, <2>1, <2>2
  <1>4. PICK c \in Conns : Authenticate(c)
    <2>1. ~ UNCHANGED failures
      BY <1>1
    <2>2. ~ Tick
      BY <1>3 DEF Tick
    <2>3. \A c \in Conns :
             ~(Present(c) \/ FTP(c) \/ SFTP(c) \/ Command(c) \/ Disconnect(c))
      BY <2>1 DEF Present, FTP, SFTP, Command, Disconnect, ProtocolDenied,
             AuthUser, AuthUserMountFails, PasswordCallback, PublicKeyUnheard,
             PublicKeyRefused, PublicKeyCallback, Sign, ServeSFTP,
             ServeSFTPFails
    <2>4. \A v \in Users : ~Admin(v)
      BY <2>1 DEF Admin, UpdateFTPUser, SetFTPUserPassword, SetFTPUserSFTPKey,
             SoftDeleteFTPUser, Edited
    <2> QED
      BY <2>1, <2>2, <2>3, <2>4 DEF Next, vars
  <1>5. Reset(c)
    <2>1. ~(LookupDisabled(c) \/ Lookup(c) \/ LastLogin(c))
      BY <1>1 DEF LookupDisabled, Lookup, LastLogin
    <2>2. ~Allow(c)
      BY <1>0, <1>1, <1>2 DEF Allow
    <2>3. ~(LookupFails(c) \/ VerifyFails(c))
      BY <1>0, <1>1, <1>3 DEF LookupFails, VerifyFails
    <2> QED
      BY <1>4, <2>1, <2>2, <2>3 DEF Authenticate
  <1>6. att[c].user = u
    BY <1>0, <1>1, <1>5 DEF Reset
  <1>7. pc[c] = "verify" /\ pc'[c] = "lastlogin" /\ snap[c].match
    BY <1>5 DEF Reset, Goto, TypeInv
  <1> QED
    BY <1>6, <1>7

----
\* Theorems

\* The state always has its types (all of Login's variables).
THEOREM Typed == SafeSpec => []TypeInv
  BY TypeInit, TypeStep, PTL DEF SafeSpec

\* However many connections try a name at once, the failures on record and
\* those still to come stay below the limit plus the connections
\* (Lockout.Allow and RecordFailure are separate calls, auth.go:64-83).
THEOREM LockoutBounded == SafeSpec => []LockoutBound
  BY Typed, BoundInit, BoundStep, PTL DEF SafeSpec

\* The two together are the type invariant that TLC checks.
THEOREM TypeCorrect == SafeSpec => []TypeOK
  <1>1. TypeInv /\ LockoutBound => TypeOK
    <2> SUFFICES ASSUME TypeInv, LockoutBound PROVE TypeOK
      OBVIOUS
    <2>1. ASSUME NEW u \in Users
          PROVE  Len(failures[u]) < Limit + Cardinality(Conns)
      <3>1. Len(failures[u]) \in Nat
        BY DEF TypeInv
      <3>2. Len(failures[u]) + Cardinality(InFlight(u)) < Limit + Cardinality(Conns)
        BY DEF LockoutBound
      <3> QED
        BY <3>1, <3>2, InFlightFinite, LockoutAssumption
    <2> QED
      BY <2>1 DEF TypeInv, TypeOK
  <1> QED
    BY <1>1, Typed, LockoutBounded, PTL

\* Whoever has a session was entitled to one at some moment of the attempt,
\* whatever the admin API does to the row meanwhile (authenticator.go:43-82,
\* ftpserver/server.go:175-197, sftpserver/server.go:75-130).
THEOREM EntitledLogin == SafeSpec => []NoStaleLogin
  <1>1. Entitled => NoStaleLogin
    BY DEF Entitled, NoStaleLogin
  <1> QED
    BY <1>1, Typed, EntitledInit, EntitledStep, PTL DEF SafeSpec

\* A password attempt never ends unheard of, a session never starts without its
\* success and a LOGOUT never comes without one, for any number of connections
\* (authenticator.go:28-87, ftpserver/server.go:142-225, sftpserver/server.go).
THEOREM EventsFaithful == SafeSpec => []AuditFaithful
  <1>1. Audited => AuditFaithful
    BY DEF Audited, AuditedAt, AuditFaithful
  <1> QED
    BY <1>1, Typed, EntitledInit, EntitledStep, AuditedInit, AuditedStep, PTL
       DEF SafeSpec

\* A failure that still counts is forgotten only in the step where somebody has
\* just shown the user's password, whatever the window (auth.go:64-89).
THEOREM ProofForgives == SafeSpec => ForgivenByProof
  <1>1. TypeInv /\ [Next]_vars
           => [\A u \in Users :
                 (/\ Len(failures'[u]) < Len(failures[u])
                  /\ Recent(failures'[u]) < Recent(failures[u]))
                 => \E c \in Conns : /\ pc[c] = "verify" /\ pc'[c] = "lastlogin"
                                     /\ att[c].user = u /\ snap[c].match]_vars
    BY ForgetStep
  <1> QED
    BY <1>1, Typed, PTL DEF SafeSpec, ForgivenByProof
====
