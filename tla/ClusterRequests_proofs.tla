----------------------- MODULE ClusterRequests_proofs -----------------------
(***************************************************************************)
(* For every set of texts, patterns and requests: what is stored of an     *)
(* accepted request is final, and the application account of a completed    *)
(* job is as asked.                                                        *)
(***************************************************************************)
EXTENDS ClusterRequests, TLAPS, SequenceTheorems

Engines == {"mysql", "pgsql"}

(* Requests that agree in every field are equal. *)
LEMMA SameFields ==
  ASSUME NEW r \in DeployRequest, NEW q \in DeployRequest,
         r.adminUser = q.adminUser, r.clusterName = q.clusterName,
         r.primary = q.primary, r.standbys = q.standbys,
         r.secondaries = q.secondaries, r.newUser = q.newUser,
         r.newDB = q.newDB, r.newUserPassword = q.newUserPassword,
         r.sshPort = q.sshPort, r.dbPort = q.dbPort, r.timeout = q.timeout
  PROVE  r = q
  BY DEF DeployRequest

LEMMA RequestFields ==
  ASSUME NEW r \in DeployRequest
  PROVE  DOMAIN r = {"adminUser", "clusterName", "primary", "standbys",
                     "secondaries", "newUser", "newDB", "newUserPassword",
                     "sshPort", "dbPort", "timeout"}
  BY DEF DeployRequest

(* Trimming a text, and taking the default for it, changes it once. *)
LEMMA TrimOnce ==
  ASSUME NEW t \in Text
  PROVE  /\ TrimSpace(t) \in Text /\ ~TrimSpace(t).padded
         /\ TrimSpace(t).core = t.core
         /\ ~t.padded => TrimSpace(t) = t
         /\ TrimSpace(TrimSpace(t)) = TrimSpace(t)
  BY DEF TrimSpace, Text

LEMMA DefaultOnce ==
  ASSUME NEW t \in Text
  PROVE  LET d == OrDefault(TrimSpace(t))
         IN  d \in Text /\ ~d.padded /\ OrDefault(TrimSpace(d)) = d
  BY TrimOnce, CoreAssumption DEF OrDefault, TrimSpace, Text, Empty

LEMMA TrimmedListOnce ==
  ASSUME NEW q \in Seq(Text)
  PROVE  /\ AllTrimmed(q) \in Seq(Text)
         /\ AllTrimmed(AllTrimmed(q)) = AllTrimmed(q)
         /\ q = <<>> => AllTrimmed(q) = <<>>
  <1>1. q \in [1 .. Len(q) -> Text] /\ DOMAIN q = 1 .. Len(q) /\ Len(q) \in Nat
    OBVIOUS
  <1>2. \A i \in 1 .. Len(q) : TrimSpace(q[i]) \in Text
    BY <1>1, TrimOnce
  <1>3. AllTrimmed(q) \in [1 .. Len(q) -> Text]
    BY <1>1, <1>2 DEF AllTrimmed
  <1>4. AllTrimmed(q) \in Seq(Text)
    BY <1>1, <1>3
  <1>5. AllTrimmed(AllTrimmed(q)) = AllTrimmed(q)
    <2>1. \A i \in 1 .. Len(q) : TrimSpace(TrimSpace(q[i])) = TrimSpace(q[i])
      BY <1>1, TrimOnce
    <2>2. DOMAIN AllTrimmed(q) = 1 .. Len(q)
      BY <1>3
    <2>. QED  BY <1>1, <2>1, <2>2 DEF AllTrimmed
  <1>6. ASSUME q = <<>> PROVE AllTrimmed(q) = <<>>
    <2>1. AllTrimmed(q) \in Seq(Text) /\ DOMAIN AllTrimmed(q) = DOMAIN q
      BY <1>4 DEF AllTrimmed
    <2>2. Len(AllTrimmed(q)) = 0
      BY <1>6, <2>1
    <2>. QED  BY <2>1, <2>2, EmptySeq
  <1>. QED  BY <1>4, <1>5, <1>6

-----------------------------------------------------------------------------
(* What both engines make of a request, field by field. *)
LEMMA NormalizedFields ==
  ASSUME NEW r \in DeployRequest
  PROVE  LET n == Normalized(r)
         IN  /\ n \in DeployRequest
             /\ n.adminUser = r.adminUser
             /\ n.clusterName = OrDefault(TrimSpace(r.clusterName))
             /\ n.primary = TrimSpace(r.primary)
             /\ n.standbys = AllTrimmed(r.standbys)
             /\ n.secondaries = r.secondaries
             /\ n.newUser = TrimSpace(r.newUser)
             /\ n.newDB = TrimSpace(r.newDB)
             /\ n.newUserPassword = r.newUserPassword
             /\ n.sshPort = PortOr(r.sshPort, 22)
             /\ n.dbPort = r.dbPort
             /\ n.timeout = PortOr(r.timeout, 900)
  <1>1. /\ r.clusterName \in Text /\ r.primary \in Text /\ r.newUser \in Text
        /\ r.newDB \in Text /\ r.standbys \in Seq(Text)
        /\ r.sshPort \in Int /\ r.timeout \in Int
    BY DEF DeployRequest
  <1>2. /\ OrDefault(TrimSpace(r.clusterName)) \in Text
        /\ TrimSpace(r.primary) \in Text /\ TrimSpace(r.newUser) \in Text
        /\ TrimSpace(r.newDB) \in Text
    BY <1>1, TrimOnce, DefaultOnce
  <1>3. AllTrimmed(r.standbys) \in Seq(Text)
    BY <1>1, TrimmedListOnce
  <1>4. PortOr(r.sshPort, 22) \in Int /\ PortOr(r.timeout, 900) \in Int
    BY <1>1 DEF PortOr
  <1>5. Normalized(r) =
          [r EXCEPT !.clusterName = OrDefault(TrimSpace(r.clusterName)),
                    !.primary = TrimSpace(r.primary),
                    !.standbys = AllTrimmed(r.standbys),
                    !.newUser = TrimSpace(r.newUser), !.newDB = TrimSpace(r.newDB),
                    !.sshPort = PortOr(r.sshPort, 22),
                    !.timeout = PortOr(r.timeout, 900)]
    BY DEF Normalized, WrittenBack
  <1>6. Normalized(r) \in DeployRequest
    <2>. DEFINE name == OrDefault(TrimSpace(r.clusterName))
                primary == TrimSpace(r.primary)
                hosts == AllTrimmed(r.standbys)
                user == TrimSpace(r.newUser)
                db == TrimSpace(r.newDB)
                port == PortOr(r.sshPort, 22)
                timeout == PortOr(r.timeout, 900)
    <2>1. Normalized(r) =
            [r EXCEPT !.clusterName = name, !.primary = primary, !.standbys = hosts,
                      !.newUser = user, !.newDB = db,
                      !.sshPort = port, !.timeout = timeout]
      BY <1>5
    <2>2. /\ {name, primary, user, db} \subseteq Text /\ hosts \in Seq(Text)
          /\ port \in Int /\ timeout \in Int
      BY <1>2, <1>3, <1>4
    <2>. HIDE DEF name, primary, hosts, user, db, port, timeout
    <2>. QED  BY <2>1, <2>2, Zenon DEF DeployRequest
  <1>. QED  BY <1>5, <1>6, RequestFields

(* What an engine makes of a request, field by field. *)
LEMMA ValidatedFields ==
  ASSUME NEW e \in Engines, NEW r \in DeployRequest
  PROVE  LET n == Validated(e, r)
         IN  /\ n \in DeployRequest
             /\ n.adminUser = IF e = "mysql" THEN OrDefault(TrimSpace(r.adminUser))
                                             ELSE r.adminUser
             /\ n.clusterName = OrDefault(TrimSpace(r.clusterName))
             /\ n.primary = TrimSpace(r.primary)
             /\ n.standbys = IF e = "mysql" /\ r.standbys = <<>>
                             THEN AllTrimmed(r.secondaries)
                             ELSE AllTrimmed(r.standbys)
             /\ n.secondaries = r.secondaries
             /\ n.newUser = TrimSpace(r.newUser)
             /\ n.newDB = TrimSpace(r.newDB)
             /\ n.newUserPassword = r.newUserPassword
             /\ n.sshPort = PortOr(r.sshPort, 22)
             /\ n.dbPort = PortOr(r.dbPort, IF e = "mysql" THEN 3306 ELSE 5432)
             /\ n.timeout = PortOr(r.timeout, 900)
  <1>1. CASE e = "mysql"
    <2>. DEFINE b == [r EXCEPT !.adminUser = OrDefault(TrimSpace(@)),
                               !.standbys = IF @ = <<>> THEN r.secondaries ELSE @,
                               !.dbPort = PortOr(@, 3306)]
    <2>1. /\ OrDefault(TrimSpace(r.adminUser)) \in Text
          /\ (IF r.standbys = <<>> THEN r.secondaries ELSE r.standbys) \in Seq(Text)
          /\ PortOr(r.dbPort, 3306) \in Int
      BY DefaultOnce DEF DeployRequest, PortOr
    <2>2. b \in DeployRequest
      <3>. DEFINE user == OrDefault(TrimSpace(r.adminUser))
                  hosts == IF r.standbys = <<>> THEN r.secondaries ELSE r.standbys
                  port == PortOr(r.dbPort, 3306)
      <3>1. b = [r EXCEPT !.adminUser = user, !.standbys = hosts, !.dbPort = port]
        OBVIOUS
      <3>2. user \in Text /\ hosts \in Seq(Text) /\ port \in Int
        BY <2>1
      <3>. HIDE DEF b, user, hosts, port
      <3>. QED  BY <3>1, <3>2, Zenon DEF DeployRequest
    <2>3. /\ b.adminUser = OrDefault(TrimSpace(r.adminUser))
          /\ b.standbys = IF r.standbys = <<>> THEN r.secondaries ELSE r.standbys
          /\ b.dbPort = PortOr(r.dbPort, 3306)
          /\ b.clusterName = r.clusterName /\ b.primary = r.primary
          /\ b.secondaries = r.secondaries /\ b.newUser = r.newUser
          /\ b.newDB = r.newDB /\ b.newUserPassword = r.newUserPassword
          /\ b.sshPort = r.sshPort /\ b.timeout = r.timeout
      BY RequestFields
    <2>4. Validated(e, r) = Normalized(b)
      BY <1>1 DEF Validated, MySQLNormalized
    <2>. HIDE DEF b
    <2>. QED  BY <1>1, <2>2, <2>3, <2>4, NormalizedFields
  <1>2. CASE e = "pgsql"
    <2>. DEFINE b == [r EXCEPT !.dbPort = PortOr(@, 5432)]
    <2>1. PortOr(r.dbPort, 5432) \in Int
      BY DEF DeployRequest, PortOr
    <2>2. /\ b \in DeployRequest
          /\ b.adminUser = r.adminUser /\ b.standbys = r.standbys
          /\ b.dbPort = PortOr(r.dbPort, 5432)
          /\ b.clusterName = r.clusterName /\ b.primary = r.primary
          /\ b.secondaries = r.secondaries /\ b.newUser = r.newUser
          /\ b.newDB = r.newDB /\ b.newUserPassword = r.newUserPassword
          /\ b.sshPort = r.sshPort /\ b.timeout = r.timeout
      BY <2>1 DEF DeployRequest
    <2>3. Validated(e, r) = Normalized(b)
      BY <1>2 DEF Validated, PgsqlNormalized
    <2>. HIDE DEF b
    <2>. QED  BY <1>2, <2>2, <2>3, NormalizedFields
  <1>. QED  BY <1>1, <1>2 DEF Engines
-----------------------------------------------------------------------------
LEMMA StoredFields ==
  ASSUME NEW n \in DeployRequest
  PROVE  LET s == Stored(n)
         IN  /\ s \in DeployRequest
             /\ s.adminUser = n.adminUser /\ s.clusterName = n.clusterName
             /\ s.primary = n.primary /\ s.standbys = n.standbys
             /\ s.secondaries = <<>> /\ s.newUser = n.newUser
             /\ s.newDB = n.newDB /\ s.newUserPassword = Empty
             /\ s.sshPort = n.sshPort /\ s.dbPort = n.dbPort
             /\ s.timeout = n.timeout
  <1>1. Empty \in Text /\ <<>> \in Seq(Text)
    BY CoreAssumption DEF Empty, Text
  <1>2. Stored(n) \in DeployRequest
    BY <1>1 DEF Stored, DeployRequest
  <1>. QED  BY <1>2, RequestFields DEF Stored

LEMMA WithPasswordFields ==
  ASSUME NEW s \in DeployRequest
  PROVE  LET w == WithPassword(s)
         IN  /\ w \in DeployRequest
             /\ w.adminUser = s.adminUser /\ w.clusterName = s.clusterName
             /\ w.primary = s.primary /\ w.standbys = s.standbys
             /\ w.secondaries = s.secondaries /\ w.newUser = s.newUser
             /\ w.newDB = s.newDB
             /\ s.newUser = Empty => w.newUserPassword = Empty
             /\ s.newUser # Empty => w.newUserPassword.core # NoCore
             /\ w.sshPort = s.sshPort /\ w.dbPort = s.dbPort
             /\ w.timeout = s.timeout
  <1>. DEFINE password == IF s.newUser = Empty THEN Empty
                          ELSE [core |-> DefaultName, padded |-> FALSE]
  <1>1. /\ password \in Text
        /\ s.newUser = Empty => password = Empty
        /\ s.newUser # Empty => password.core # NoCore
    BY CoreAssumption DEF Empty, Text
  <1>2. WithPassword(s) = [s EXCEPT !.newUserPassword = password]
    BY DEF WithPassword
  <1>. HIDE DEF password
  <1>3. WithPassword(s) \in DeployRequest
    BY <1>1, <1>2 DEF DeployRequest
  <1>. QED  BY <1>1, <1>2, <1>3, RequestFields

LEMMA AcceptedFacts ==
  ASSUME NEW e \in Engines, NEW r \in DeployRequest
  PROVE  Accepted(e, r) <=> /\ Valid(Validated(e, r))
                            /\ e = "mysql" => Matches(Validated(e, r).adminUser)
                            /\ e = "pgsql" => PgsqlDecodable(r)
  BY DEF Accepted, Validated, MySQLValid, Engines

(* What is stored of an accepted request is final: the four conjuncts of   *)
(* StoredRequestIsFinal, and the ranges of TypeOK.                         *)
LEMMA StoredIsFinal ==
  ASSUME NEW e \in Engines, NEW r \in DeployRequest, Accepted(e, r)
  PROVE  LET s == Stored(Validated(e, r))
         IN  /\ s \in DeployRequest
             /\ {s.sshPort, s.dbPort} \subseteq PortRange
             /\ s.timeout \in TimeoutRange
             /\ s.newUser = Empty <=> s.newDB = Empty
             /\ s.newUser # Empty => r.newUserPassword.core # NoCore
             /\ AreAddresses(s.standbys)
             /\ HostsAreDistinct(s.primary, s.standbys)
             /\ Accepted(e, WithPassword(s))
             /\ Stored(Validated(e, WithPassword(s))) = s
  <1>. DEFINE n == Validated(e, r)
              s == Stored(n)
              w == WithPassword(s)
              v == Validated(e, w)
  <1>1. /\ n \in DeployRequest /\ s \in DeployRequest
        /\ w \in DeployRequest /\ v \in DeployRequest
    BY ValidatedFields, StoredFields, WithPasswordFields
  <1>2. /\ Valid(n)
        /\ e = "mysql" => Matches(n.adminUser)
        /\ e = "pgsql" => PgsqlDecodable(r)
    BY AcceptedFacts
  <1>3. AllTrimmed(n.standbys) = n.standbys
    <2>1. r.standbys \in Seq(Text) /\ r.secondaries \in Seq(Text)
      BY DEF DeployRequest
    <2>. QED  BY <2>1, ValidatedFields, TrimmedListOnce
  <1>4. v = w
    <2>1. /\ r.adminUser \in Text /\ r.clusterName \in Text /\ r.primary \in Text
          /\ r.newUser \in Text /\ r.newDB \in Text
          /\ r.sshPort \in Int /\ r.dbPort \in Int /\ r.timeout \in Int
      BY DEF DeployRequest
    <2>2. /\ e = "mysql" => OrDefault(TrimSpace(n.adminUser)) = n.adminUser
          /\ OrDefault(TrimSpace(n.clusterName)) = n.clusterName
          /\ TrimSpace(n.primary) = n.primary
          /\ TrimSpace(n.newUser) = n.newUser /\ TrimSpace(n.newDB) = n.newDB
      BY <2>1, ValidatedFields, DefaultOnce, TrimOnce
    <2>3. /\ PortOr(n.sshPort, 22) = n.sshPort
          /\ PortOr(n.dbPort, IF e = "mysql" THEN 3306 ELSE 5432) = n.dbPort
          /\ PortOr(n.timeout, 900) = n.timeout
      BY <2>1, ValidatedFields DEF PortOr
    <2>4. /\ w.adminUser = n.adminUser /\ w.clusterName = n.clusterName
          /\ w.primary = n.primary /\ w.standbys = n.standbys
          /\ w.secondaries = <<>> /\ w.newUser = n.newUser /\ w.newDB = n.newDB
          /\ w.sshPort = n.sshPort /\ w.dbPort = n.dbPort /\ w.timeout = n.timeout
      BY <1>1, StoredFields, WithPasswordFields
    <2>5. (IF e = "mysql" /\ w.standbys = <<>> THEN AllTrimmed(w.secondaries)
           ELSE AllTrimmed(w.standbys)) = w.standbys
      BY <1>1, <1>3, <2>4, TrimmedListOnce DEF DeployRequest
    <2>6. /\ v.adminUser = IF e = "mysql" THEN OrDefault(TrimSpace(w.adminUser))
                                          ELSE w.adminUser
          /\ v.clusterName = OrDefault(TrimSpace(w.clusterName))
          /\ v.primary = TrimSpace(w.primary)
          /\ v.standbys = IF e = "mysql" /\ w.standbys = <<>>
                          THEN AllTrimmed(w.secondaries)
                          ELSE AllTrimmed(w.standbys)
          /\ v.secondaries = w.secondaries
          /\ v.newUser = TrimSpace(w.newUser) /\ v.newDB = TrimSpace(w.newDB)
          /\ v.newUserPassword = w.newUserPassword
          /\ v.sshPort = PortOr(w.sshPort, 22)
          /\ v.dbPort = PortOr(w.dbPort, IF e = "mysql" THEN 3306 ELSE 5432)
          /\ v.timeout = PortOr(w.timeout, 900)
      BY <1>1, ValidatedFields
    <2>. HIDE DEF n, s, w, v
    <2>7. /\ v.adminUser = w.adminUser /\ v.clusterName = w.clusterName
          /\ v.primary = w.primary /\ v.standbys = w.standbys
          /\ v.secondaries = w.secondaries /\ v.newUser = w.newUser
          /\ v.newDB = w.newDB /\ v.newUserPassword = w.newUserPassword
          /\ v.sshPort = w.sshPort /\ v.dbPort = w.dbPort /\ v.timeout = w.timeout
      BY <2>2, <2>3, <2>4, <2>5, <2>6
    <2>. QED  BY <1>1, <2>7, SameFields
  <1>5. /\ s.adminUser = n.adminUser /\ s.clusterName = n.clusterName
        /\ s.primary = n.primary /\ s.standbys = n.standbys /\ s.newUser = n.newUser
        /\ s.newDB = n.newDB /\ s.sshPort = n.sshPort /\ s.dbPort = n.dbPort
        /\ s.timeout = n.timeout /\ s.secondaries = <<>> /\ s.newUserPassword = Empty
    BY <1>1, StoredFields
  <1>6. /\ w.adminUser = n.adminUser /\ w.clusterName = n.clusterName
        /\ w.primary = n.primary /\ w.standbys = n.standbys /\ w.newUser = n.newUser
        /\ w.newDB = n.newDB /\ w.sshPort = n.sshPort /\ w.dbPort = n.dbPort
        /\ w.timeout = n.timeout /\ w.secondaries = <<>>
        /\ n.newUser = Empty => w.newUserPassword = Empty
        /\ n.newUser # Empty => w.newUserPassword.core # NoCore
    BY <1>1, <1>5, WithPasswordFields
  <1>7. /\ n.newUserPassword = r.newUserPassword
        /\ e = "pgsql" => n.adminUser = r.adminUser
    BY ValidatedFields
  <1>8. Stored(v) = s
    <2>1. Stored(w) \in DeployRequest
      BY <1>1, StoredFields
    <2>2. /\ Stored(w).adminUser = w.adminUser /\ Stored(w).clusterName = w.clusterName
          /\ Stored(w).primary = w.primary /\ Stored(w).standbys = w.standbys
          /\ Stored(w).secondaries = <<>> /\ Stored(w).newUser = w.newUser
          /\ Stored(w).newDB = w.newDB /\ Stored(w).newUserPassword = Empty
          /\ Stored(w).sshPort = w.sshPort /\ Stored(w).dbPort = w.dbPort
          /\ Stored(w).timeout = w.timeout
      BY <1>1, StoredFields
    <2>. HIDE DEF n, s, w, v
    <2>3. Stored(w) = s
      BY <1>1, <1>5, <1>6, <2>1, <2>2, SameFields
    <2>. QED  BY <1>4, <2>3
  <1>. HIDE DEF n, s, w, v
  <1>9. Valid(w)
    BY <1>2, <1>6, CoreAssumption DEF Valid, InitDBFieldsComplete, Empty
  <1>10. Accepted(e, w)
    <2>1. Accepted(e, w) <=> /\ Valid(v)
                             /\ e = "mysql" => Matches(v.adminUser)
                             /\ e = "pgsql" => PgsqlDecodable(w)
      BY <1>1, AcceptedFacts DEF v
    <2>2. e = "pgsql" => PgsqlDecodable(w)
      BY <1>2, <1>6, <1>7 DEF PgsqlDecodable
    <2>. QED  BY <1>2, <1>4, <1>6, <1>9, <2>1, <2>2
  <1>11. AreAddresses(s.standbys) /\ HostsAreDistinct(s.primary, s.standbys)
    BY <1>2, <1>3, <1>5 DEF Valid
  <1>12. /\ {s.sshPort, s.dbPort} \subseteq PortRange /\ s.timeout \in TimeoutRange
         /\ s.newUser = Empty <=> s.newDB = Empty
         /\ s.newUser # Empty => r.newUserPassword.core # NoCore
    BY <1>2, <1>5, <1>7 DEF Valid, PortInRange, InitDBFieldsComplete
  <1>. QED  BY <1>1, <1>8, <1>10, <1>11, <1>12 DEF n, s, w, v

-----------------------------------------------------------------------------
(* Where the account of the hosts, the password in memory and the password *)
(* of the last request stand to each other while the job goes on.          *)
AccountInv ==
  /\ status = "none" => account = Empty /\ behind = 0
  /\ status = "failed" => behind < 2
  /\ status = "completed" => behind = 2
  /\ request.newUser = Empty <=> request.newDB = Empty
  /\ status # "none" /\ request.newUser = Empty => account = Empty
  /\ status = "running" /\ request.newUser # Empty =>
       memory.core # NoCore /\ memory.core = asked.core
  /\ status # "none" /\ behind = 2 /\ request.newUser # Empty =>
       account.core # NoCore /\ account.core = asked.core

IInv == TypeOK /\ StoredRequestIsFinal /\ AccountInv

LEMMA InitInv == Init => IInv
  <1>1. Empty \in Text /\ <<>> \in Seq(Text)
    BY CoreAssumption DEF Empty, Text
  <1>. QED
    BY <1>1 DEF Init, IInv, TypeOK, StoredRequestIsFinal, AccountInv, DeployRequest

(* A step that leaves the stored request alone leaves it final. *)
LEMMA RequestKept ==
  ASSUME StoredRequestIsFinal, request' = request, engine' = engine,
         status # "none" \/ status' = "none"
  PROVE  StoredRequestIsFinal'
  BY DEF StoredRequestIsFinal

LEMMA DeployKeeps == ASSUME IInv, Deploy PROVE IInv'
  <1>1. PICK r \in Requests : /\ Accepted(engine, r)
                              /\ request' = Stored(Validated(engine, r))
                              /\ memory' = r.newUserPassword
                              /\ asked' = r.newUserPassword
    BY DEF Deploy
  <1>2. engine \in Engines /\ r \in DeployRequest
    BY RequestAssumption DEF IInv, TypeOK, Engines
  <1>3. r.newUserPassword \in Text
    BY <1>2 DEF DeployRequest
  <1>4. engine' = engine /\ status' = "running" /\ behind' = 0 /\ account' = Empty
    BY DEF Deploy, IInv, AccountInv
  <1>5. /\ request' \in DeployRequest
        /\ {request'.sshPort, request'.dbPort} \subseteq PortRange
        /\ request'.timeout \in TimeoutRange
        /\ request'.newUser = Empty <=> request'.newDB = Empty
        /\ request'.newUser # Empty => r.newUserPassword.core # NoCore
        /\ AreAddresses(request'.standbys)
        /\ HostsAreDistinct(request'.primary, request'.standbys)
        /\ Accepted(engine, WithPassword(request'))
        /\ Stored(Validated(engine, WithPassword(request'))) = request'
    BY <1>1, <1>2, StoredIsFinal
  <1>6. TypeOK'
    <2>1. /\ memory' \in Text /\ asked' \in Text /\ account' \in Text
          /\ engine' \in {"mysql", "pgsql"}
      BY <1>1, <1>2, <1>3, <1>4, CoreAssumption DEF Empty, Text, Engines
    <2>. QED  BY <1>4, <1>5, <2>1 DEF TypeOK
  <1>7. StoredRequestIsFinal'
    BY <1>4, <1>5 DEF StoredRequestIsFinal
  <1>8. AccountInv'
    BY <1>1, <1>4, <1>5 DEF AccountInv
  <1>. QED  BY <1>6, <1>7, <1>8 DEF IInv

LEMMA ResumeKeeps == ASSUME IInv, Resume PROVE IInv'
  <1>1. PICK p \in Given : /\ PasswordSuffices(TrimSpace(p))
                           /\ memory' = TrimSpace(p) /\ asked' = p
    BY DEF Resume
  <1>2. p \in Text /\ TrimSpace(p) \in Text /\ TrimSpace(p).core = p.core
    BY <1>1, RequestAssumption, TrimOnce
  <1>3. TrimSpace(p) # Empty => p.core # NoCore
    BY <1>2, TrimOnce DEF Empty, Text
  <1>4. TypeOK'
    BY <1>1, <1>2 DEF Resume, IInv, TypeOK
  <1>5. StoredRequestIsFinal'
    BY RequestKept DEF Resume, IInv
  <1>6. AccountInv'
    BY <1>1, <1>2, <1>3 DEF Resume, IInv, AccountInv, PasswordSuffices
  <1>. QED  BY <1>4, <1>5, <1>6 DEF IInv

(* The steps of the goroutine: what they make of the account.              *)
LEMMA StepsKeep == ASSUME IInv, StepSucceeds \/ StepFails \/ Complete PROVE IInv'
  <1>1. /\ Empty \in Text /\ behind \in 0 .. 2
        /\ memory \in Text /\ account \in Text /\ asked \in Text
    <2>1. Empty \in Text
      BY CoreAssumption DEF Empty, Text
    <2>. QED  BY <2>1 DEF IInv, TypeOK
  <1>2. /\ status = "running" /\ engine' = engine /\ request' = request /\ asked' = asked
        /\ status' \in {"running", "failed", "completed"}
        /\ memory' \in {memory, Empty}
    BY DEF StepSucceeds, StepFails, Complete
  <1>3. account' \in {account, memory} /\ behind' \in 0 .. 2
    <2>1. CASE StepSucceeds  BY <1>1, <2>1 DEF StepSucceeds
    <2>2. CASE StepFails  BY <1>1, <2>2 DEF StepFails
    <2>3. CASE Complete  BY <1>1, <2>3 DEF Complete
    <2>. QED  BY <2>1, <2>2, <2>3
  <1>4. TypeOK'
    <2>1. memory' \in Text /\ account' \in Text /\ asked' \in Text
      BY <1>1, <1>2, <1>3
    <2>2. /\ engine' \in {"mysql", "pgsql"} /\ request' \in DeployRequest
          /\ {request'.sshPort, request'.dbPort} \subseteq PortRange
          /\ request'.timeout \in TimeoutRange
      BY <1>2 DEF IInv, TypeOK
    <2>. QED  BY <1>2, <1>3, <2>1, <2>2 DEF TypeOK
  <1>5. StoredRequestIsFinal'
    BY <1>2, RequestKept DEF IInv
  <1>6. /\ request.newUser = Empty <=> InitSkipped
        /\ request.newUser = Empty <=> request.newDB = Empty
        /\ request.newUser = Empty => account = Empty
        /\ request.newUser # Empty => memory.core # NoCore /\ memory.core = asked.core
        /\ behind = 2 /\ request.newUser # Empty =>
             account.core # NoCore /\ account.core = asked.core
    BY <1>2 DEF IInv, AccountInv, InitSkipped
  <1>7. CASE StepSucceeds
    <2>1. /\ status' = "running" /\ memory' = memory /\ behind' = behind + 1
          /\ behind < 2
          /\ account' = IF behind = 1 /\ ~InitSkipped THEN memory ELSE account
      BY <1>2, <1>7 DEF StepSucceeds
    <2>. QED  BY <1>1, <1>2, <1>4, <1>5, <1>6, <2>1 DEF IInv, AccountInv
  <1>8. CASE StepFails
    <2>1. /\ status' = "failed" /\ behind' = behind /\ behind < 2
          /\ InitSkipped => account' = account
      BY <1>1, <1>8 DEF StepFails
    <2>. QED  BY <1>1, <1>2, <1>4, <1>5, <1>6, <2>1 DEF IInv, AccountInv
  <1>9. CASE Complete
    <2>1. status' = "completed" /\ behind' = behind /\ behind = 2 /\ account' = account
      BY <1>9 DEF Complete
    <2>. QED  BY <1>1, <1>2, <1>4, <1>5, <1>6, <2>1 DEF IInv, AccountInv
  <1>. QED  BY <1>7, <1>8, <1>9

LEMMA NextInv == IInv /\ [Next]_vars => IInv'
  <1>1. ASSUME IInv, UNCHANGED vars PROVE IInv'
    <2>1. TypeOK' /\ AccountInv'
      BY <1>1 DEF vars, IInv, TypeOK, AccountInv
    <2>2. StoredRequestIsFinal'
      BY <1>1, RequestKept DEF vars, IInv
    <2>. QED  BY <2>1, <2>2 DEF IInv
  <1>. QED  BY <1>1, DeployKeeps, ResumeKeeps, StepsKeep DEF Next

LEMMA Inductive == Spec => []IInv
  BY InitInv, NextInv, PTL DEF Spec

(* Type correctness, with the ranges of the stored numbers. *)
THEOREM TypeCorrect == Spec => []TypeOK
  <1>1. IInv => TypeOK
    BY DEF IInv
  <1>. QED  BY <1>1, Inductive, PTL

(* Whatever a client writes in a request that is accepted, what is stored   *)
(* of it names different hosts by plain addresses and is accepted as it     *)
(* stands (ValidateDeployRequest of both engines).                         *)
THEOREM StoredIsFinalAlways == Spec => []StoredRequestIsFinal
  <1>1. IInv => StoredRequestIsFinal
    BY DEF IInv
  <1>. QED  BY <1>1, Inductive, PTL

(* However often a job fails and is resumed, when it has completed the      *)
(* application account exists if it was asked for, with the password of the *)
(* request that last started the job.                                      *)
THEOREM AccountAsAsked == Spec => []AppAccountIsAsAsked
  <1>1. IInv => AppAccountIsAsAsked
    BY DEF IInv, AccountInv, AppAccountIsAsAsked
  <1>. QED  BY <1>1, Inductive, PTL
=============================================================================
