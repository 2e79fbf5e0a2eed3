------------------------- MODULE HAProxyTable_proofs -------------------------
(***************************************************************************)
(* The HAProxy tenant service keeps the promise of TenantTable, for every   *)
(* set of ports, contents and handlers and every bound, when no two clients *)
(* manage the same port.                                                    *)
(*                                                                         *)
(* The argument: what a request finds, leaves behind and can still put back *)
(* at each of its places (Kept), with the backup that OldConfigIsAtHand     *)
(* gives it, makes each step of a handler an Ask, a Grant, a Refuse or an   *)
(* Interrupt of its own port, or a stutter.                                 *)
(***************************************************************************)
EXTENDS HAProxyTenants_proofs

(* What a request in doubt has done to its file so far. *)
Kept(h) ==
  LET r == handler[h]
      content == file[r.port]
  IN  InDoubt(h) =>
        /\ r.content \in Configs \cup {None}
        /\ r.at = "remove" => r.content = None
        /\ r.at \in {"copy", "copy_write", "truncate", "remove"} => content = r.before
        /\ r.at = "write" => content = Empty
        /\ r.at \in {"reload", "verify", "undo", "undo_verified"} => content = r.content
        /\ r.at \in {"verify", "undo_verified"} => r.content \notin BadConfigs

KInv == IInv /\ \A h \in Handlers : Kept(h)

Doubtful == HandlerPCs \ {"idle", "commit", "reload_again", "reload_only"}

RequestOf(h) == [client |-> h, port |-> handler[h].port, content |-> handler[h].content]

Undamaged == used.torn = 0 /\ used.files = 0 /\ used.crashes = 0

(* A step of the abstract table, where only a torn write, a failed undo or  *)
(* a crash interrupts.                                                     *)
TableStep ==
  \/ UNCHANGED <<Table, Asked>>
  \/ \E r \in Promise!Requests : Promise!Ask(r)
  \/ \E r \in Asked : Promise!Grant(r) \/ Promise!Refuse(r)
  \/ (\E lost \in SUBSET Asked : Promise!Interrupt(lost)) /\ ~Undamaged'

-----------------------------------------------------------------------------
(* The table, with at most one request in doubt for each port. *)
LEMMA DoubtIsWork ==
  ASSUME NEW h \in Handlers, InDoubt(h)
  PROVE  Working(h)
BY DEF InDoubt, Working

LEMMA OneInDoubt ==
  ASSUME OneManagerPerPort, IInv, NEW g \in Handlers, NEW h \in Handlers,
         InDoubt(g), InDoubt(h), handler[g].port = handler[h].port
  PROVE  g = h
BY DoubtIsWork DEF IInv, KeepsToItsPorts, OneManagerPerPort

TableView ==
  /\ Table \in [Ports -> Contents]
  /\ \A h \in Handlers : InDoubt(h) => Table[handler[h].port] = handler[h].before
  /\ \A p \in Ports :
       (\A h \in Handlers : InDoubt(h) => handler[h].port # p) => Table[p] = file[p]

LEMMA TableOf ==
  ASSUME OneManagerPerPort
  PROVE  IInv => TableView
<1> SUFFICES ASSUME IInv PROVE TableView
  OBVIOUS
<1>1. ASSUME NEW p \in Ports, NEW h \in Handlers, InDoubt(h), handler[h].port = p
      PROVE  Table[p] = handler[h].before
  <2> DEFINE g == CHOOSE g \in Handlers : InDoubt(g) /\ handler[g].port = p
  <2>1. g \in Handlers /\ InDoubt(g) /\ handler[g].port = p
    BY <1>1
  <2>2. g = h
    BY <1>1, <2>1, OneInDoubt
  <2>3. Table[p] = handler[g].before
    BY <1>1 DEF Table
  <2> QED BY <2>2, <2>3
<1>2. ASSUME NEW p \in Ports, \A h \in Handlers : InDoubt(h) => handler[h].port # p
      PROVE  Table[p] = file[p]
  BY <1>2 DEF Table
<1>3. ASSUME NEW p \in Ports
      PROVE  Table[p] \in Contents
  <2>1. CASE \E h \in Handlers : InDoubt(h) /\ handler[h].port = p
    BY <1>1, <2>1 DEF IInv, TypeOK, HandlerState
  <2>2. CASE \A h \in Handlers : InDoubt(h) => handler[h].port # p
    BY <1>2, <2>2 DEF IInv, TypeOK
  <2> QED BY <2>1, <2>2
<1>4. Table \in [Ports -> Contents]
  BY <1>3 DEF Table
<1> QED BY <1>1, <1>2, <1>4 DEF IInv, TypeOK, HandlerState, TableView

(* The table before and after a step, both read through TableOf. *)
Looks(h, p) ==
  /\ p \in Manages[h]
  /\ InDoubt(h) => handler[h].port = p
  /\ InDoubt(h)' => handler'[h].port = p
  /\ MovesOnly(h)
  /\ OnlyPort(h, p)

LEMMA TableMoves ==
  ASSUME OneManagerPerPort, IInv, IInv', NEW h \in Handlers, NEW p, Looks(h, p)
  PROVE  /\ p \in Ports
         /\ Table \in [Ports -> Contents] /\ Table' \in [Ports -> Contents]
         /\ \A q \in Ports : q # p => Table'[q] = Table[q]
         /\ InDoubt(h) => Table[p] = handler[h].before
         /\ ~InDoubt(h) => Table[p] = file[p]
         /\ InDoubt(h)' => Table'[p] = handler'[h].before
         /\ ~InDoubt(h)' => Table'[p] = file'[p]
<1>1. TableView /\ TableView'
  <2>1. TableView
    BY TableOf
  <2>2. TableView'
    BY TableOf, PTL
  <2> QED BY <2>1, <2>2
<1>2. p \in Ports
  BY ParameterAssumption DEF Looks
<1>3. \A g \in Handlers : g # h => handler'[g] = handler[g] /\ (InDoubt(g)' <=> InDoubt(g))
  BY DEF Looks, MovesOnly, InDoubt, IInv, TypeOK
<1>4. \A g \in Handlers : g # h /\ InDoubt(g) => handler[g].port # p
  BY DoubtIsWork DEF Looks, OneManagerPerPort, IInv, KeepsToItsPorts
<1>5. ASSUME NEW q \in Ports, q # p
      PROVE  Table'[q] = Table[q]
  <2>1. CASE \E g \in Handlers : InDoubt(g) /\ handler[g].port = q
    <3>1. PICK g \in Handlers : InDoubt(g) /\ handler[g].port = q
      BY <2>1
    <3>2. g # h
      BY <1>5, <3>1 DEF Looks
    <3>3. InDoubt(g)' /\ handler'[g] = handler[g]
      BY <1>3, <3>1, <3>2
    <3> QED BY <1>1, <3>1, <3>3 DEF TableView
  <2>2. CASE \A g \in Handlers : InDoubt(g) => handler[g].port # q
    <3>1. \A g \in Handlers : InDoubt(g)' => handler'[g].port # q
      BY <1>3, <1>5, <2>2 DEF Looks
    <3>2. file'[q] = file[q]
      BY <1>5 DEF Looks, OnlyPort
    <3> QED BY <1>1, <2>2, <3>1, <3>2 DEF TableView
  <2> QED BY <2>1, <2>2
<1>6. ~InDoubt(h) => Table[p] = file[p]
  BY <1>1, <1>2, <1>4 DEF TableView
<1>7. ~InDoubt(h)' => Table'[p] = file'[p]
  BY <1>1, <1>2, <1>3, <1>4 DEF TableView
<1> QED BY <1>1, <1>2, <1>5, <1>6, <1>7 DEF TableView, Looks

LEMMA AskedMoves ==
  ASSUME TypeOK, TypeOK', NEW h \in Handlers, MovesOnly(h)
  PROVE  /\ ~InDoubt(h) /\ ~InDoubt(h)' => UNCHANGED Asked
         /\ InDoubt(h) /\ InDoubt(h)' /\ UNCHANGED RequestOf(h) => UNCHANGED Asked
         /\ ~InDoubt(h) /\ InDoubt(h)' => Asked' = Asked \cup {RequestOf(h)'}
         /\ InDoubt(h) /\ ~InDoubt(h)' =>
              RequestOf(h) \in Asked /\ Asked' = Asked \ {RequestOf(h)}
<1>1. \A g \in Handlers : g # h => RequestOf(g)' = RequestOf(g) /\ (InDoubt(g)' <=> InDoubt(g))
  BY DEF MovesOnly, InDoubt, TypeOK, RequestOf
<1>2. Asked = {RequestOf(g) : g \in {g \in Handlers : InDoubt(g)}}
  BY DEF Asked, RequestOf
<1>3. Asked' = {RequestOf(g)' : g \in {g \in Handlers : InDoubt(g)'}}
  BY DEF Asked, RequestOf
<1>4. \A g \in Handlers : RequestOf(g).client = g
  BY DEF RequestOf
<1> QED BY <1>1, <1>2, <1>3, <1>4

-----------------------------------------------------------------------------
(* The four ways a handler moves, each with what it means for the table. *)
LEMMA OthersKeep ==
  ASSUME OneManagerPerPort, KInv, IInv', NEW h \in Handlers, NEW p, Looks(h, p), Kept(h)'
  PROVE  KInv'
<1> SUFFICES ASSUME NEW g \in Handlers, g # h, InDoubt(g)'
             PROVE  Kept(g)'
  BY DEF KInv, Kept
<1>1. handler'[g] = handler[g] /\ InDoubt(g)
  BY DEF Looks, MovesOnly, InDoubt, KInv, IInv, TypeOK
<1>2. handler[g].port # p /\ handler[g].port \in Ports
  BY <1>1, DoubtIsWork
  DEF Looks, OneManagerPerPort, KInv, IInv, KeepsToItsPorts, TypeOK, HandlerState
<1>3. file'[handler[g].port] = file[handler[g].port]
  BY <1>2 DEF Looks, OnlyPort
<1>4. Kept(g)
  BY DEF KInv
<1> QED BY <1>1, <1>3, <1>4 DEF Kept

LEMMA OwnPort ==
  ASSUME KInv, NEW h \in Handlers, InDoubt(h)
  PROVE  handler[h].port \in Manages[h]
BY DoubtIsWork DEF KInv, IInv, KeepsToItsPorts

LEMMA NoDoubt ==
  ASSUME OneManagerPerPort, KInv, IInv', NEW h \in Handlers,
         ~InDoubt(h), ~InDoubt(h)', MovesOnly(h), UNCHANGED file
  PROVE  KInv' /\ UNCHANGED <<Table, Asked>>
<1>1. \A g \in Handlers : /\ InDoubt(g)' <=> InDoubt(g)
                          /\ InDoubt(g) => handler'[g] = handler[g]
  BY DEF MovesOnly, InDoubt, KInv, IInv, TypeOK
<1>2. \A g \in Handlers : Kept(g)'
  BY <1>1 DEF KInv, Kept
<1>3. TableView /\ TableView'
  <2>1. TableView
    BY TableOf DEF KInv
  <2>2. TableView'
    BY TableOf, PTL
  <2> QED BY <2>1, <2>2
<1>4. ASSUME NEW q \in Ports
      PROVE  Table'[q] = Table[q]
  BY <1>1, <1>3 DEF TableView
<1>5. Table' = Table
  BY <1>3, <1>4 DEF TableView
<1>6. UNCHANGED Asked
  BY AskedMoves DEF KInv, IInv
<1> QED BY <1>2, <1>5, <1>6 DEF KInv

LEMMA DoubtBegins ==
  ASSUME OneManagerPerPort, KInv, IInv', NEW h \in Handlers, NEW p \in Manages[h],
         ~InDoubt(h), InDoubt(h)', MovesOnly(h), UNCHANGED <<file, backup>>,
         handler'[h].port = p, handler'[h].before = file[p], Kept(h)'
  PROVE  KInv' /\ TableStep
<1>1. Looks(h, p)
  BY DEF Looks, OnlyPort, KInv, IInv, TypeOK
<1>2. KInv'
  BY <1>1, OthersKeep
<1>3. /\ p \in Ports
      /\ Table \in [Ports -> Contents] /\ Table' \in [Ports -> Contents]
      /\ \A q \in Ports : q # p => Table'[q] = Table[q]
      /\ Table[p] = file[p] /\ Table'[p] = file[p]
  BY <1>1, TableMoves DEF KInv
<1>4. Table' = Table
  BY <1>3
<1> DEFINE request == [client |-> h, port |-> p, content |-> handler'[h].content]
<1>5. Asked' = Asked \cup {request}
  BY AskedMoves DEF KInv, IInv, RequestOf
<1>6. request \in Promise!Requests
  BY <1>3 DEF Promise!Requests, Kept
<1>7. \A other \in Asked : other.client # h
  BY DEF Asked
<1>8. Promise!Ask(request)
  BY <1>4, <1>5, <1>7 DEF Promise!Ask
<1> HIDE DEF request
<1> QED BY <1>2, <1>6, <1>8 DEF TableStep

LEMMA DoubtGoesOn ==
  ASSUME OneManagerPerPort, KInv, IInv', NEW h \in Handlers, NEW at \in Doubtful,
         InDoubt(h), MovesOnly(h), handler'[h] = [handler[h] EXCEPT !.at = at],
         OnlyPort(h, handler[h].port), Kept(h)'
  PROVE  KInv' /\ TableStep
<1> DEFINE p == handler[h].port
<1>1. /\ handler'[h].at = at /\ handler'[h].port = p
      /\ handler'[h].before = handler[h].before /\ handler'[h].content = handler[h].content
  BY DEF KInv, IInv, TypeOK, HandlerState
<1>2. InDoubt(h)'
  BY <1>1 DEF InDoubt, Doubtful
<1>3. Looks(h, p)
  BY <1>1, OwnPort DEF Looks
<1> HIDE DEF p
<1>4. KInv'
  BY <1>3, OthersKeep
<1>5. /\ p \in Ports
      /\ Table \in [Ports -> Contents] /\ Table' \in [Ports -> Contents]
      /\ \A q \in Ports : q # p => Table'[q] = Table[q]
      /\ Table[p] = handler[h].before /\ Table'[p] = handler'[h].before
  <2>1. IInv
    BY DEF KInv
  <2>2. /\ p \in Ports
        /\ Table \in [Ports -> Contents] /\ Table' \in [Ports -> Contents]
        /\ \A q \in Ports : q # p => Table'[q] = Table[q]
    BY <1>3, <2>1, TableMoves
  <2>3. Table[p] = handler[h].before
    BY <1>3, <2>1, TableMoves
  <2>4. InDoubt(h)' => Table'[p] = handler'[h].before
    BY <1>3, <2>1, TableMoves
  <2> QED BY <1>2, <2>2, <2>3, <2>4
<1>6. Table' = Table
  BY <1>1, <1>5
<1>7. UNCHANGED RequestOf(h)
  BY <1>1 DEF RequestOf
<1>8. UNCHANGED Asked
  BY <1>2, <1>7, AskedMoves DEF KInv, IInv
<1> QED BY <1>4, <1>6, <1>8 DEF TableStep

LEMMA DoubtEnds ==
  ASSUME OneManagerPerPort, KInv, IInv', NEW h \in Handlers,
         InDoubt(h), ~InDoubt(h)', MovesOnly(h),
         OnlyPort(h, handler[h].port),
         LET r == handler[h]
             left == file'[r.port]
         IN  \/ left = r.before
             \/ left = r.content /\ r.content \notin BadConfigs
             \/ left \in {r.content, Empty, Torn} /\ ~Undamaged'
  PROVE  KInv' /\ TableStep
<1> DEFINE r == handler[h]
           p == r.port
           request == RequestOf(h)
<1>1. Looks(h, p)
  BY OwnPort DEF Looks
<1>2. KInv'
  BY <1>1, OthersKeep DEF Kept
<1>3. /\ p \in Ports
      /\ Table \in [Ports -> Contents] /\ Table' \in [Ports -> Contents]
      /\ \A q \in Ports : q # p => Table'[q] = Table[q]
      /\ Table[p] = r.before /\ Table'[p] = file'[p]
  BY <1>1, TableMoves DEF KInv
<1>4. request \in Asked /\ Asked' = Asked \ {request}
  BY AskedMoves DEF KInv, IInv
<1>5. request.port = p /\ request.content = r.content
  BY DEF RequestOf
<1> HIDE DEF r, p, request
<1>6. CASE file'[p] = r.before
  <2>1. Table' = Table
    BY <1>3, <1>6
  <2>2. Promise!Refuse(request)
    BY <1>4, <2>1 DEF Promise!Refuse
  <2> QED BY <1>2, <1>4, <2>2 DEF TableStep
<1>7. CASE file'[p] = r.content /\ r.content \notin BadConfigs
  <2>1. Table' = [Table EXCEPT ![p] = r.content]
    BY <1>3, <1>7
  <2>2. Promise!Grant(request)
    BY <1>4, <1>5, <1>7, <2>1 DEF Promise!Grant
  <2> QED BY <1>2, <1>4, <2>2 DEF TableStep
<1>8. CASE file'[p] \in {r.content, Empty, Torn} /\ ~Undamaged'
  <2> DEFINE lost == {request}
  <2>1. lost \in SUBSET Asked /\ Asked' = Asked \ lost
    BY <1>4
  <2>2. DOMAIN Table' = Ports
    BY <1>3
  <2>3. ASSUME NEW q \in Ports
        PROVE  Table'[q] \in Promise!MayBeLeft(q, lost)
    <3>1. CASE q = p
      BY <1>3, <1>5, <1>8, <3>1 DEF Promise!MayBeLeft
    <3>2. CASE q # p
      BY <1>3, <3>2 DEF Promise!MayBeLeft
    <3> QED BY <3>1, <3>2
  <2>4. Promise!Interrupt(lost)
    BY <2>1, <2>2, <2>3 DEF Promise!Interrupt
  <2> HIDE DEF lost
  <2> QED BY <1>2, <1>8, <2>1, <2>4 DEF TableStep
<1> QED BY <1>6, <1>7, <1>8 DEF r, p

-----------------------------------------------------------------------------
(* One lemma per action. *)
LEMMA AcceptTable ==
  ASSUME OneManagerPerPort, KInv, IInv', NEW h \in Handlers, handler[h].at = "idle",
         NEW p \in Manages[h], NEW content \in Configs \cup {None}, NEW backedUp \in BOOLEAN,
         Accept(h, p, content, backedUp), backedUp <=> file[p] # None,
         UNCHANGED <<file, backup>>
  PROVE  KInv' /\ TableStep
<1>1. MovesOnly(h) /\ handler'[h] = Accepted(p, content, backedUp)
  BY AcceptMoves DEF KInv, IInv
<1>2. /\ handler'[h].port = p /\ handler'[h].before = file[p]
      /\ handler'[h].content = content
      /\ handler'[h].at \in {"truncate", "copy"}
  BY <1>1 DEF Accepted
<1>3. ~InDoubt(h) /\ InDoubt(h)'
  BY <1>2 DEF InDoubt, HandlerPCs
<1>4. Kept(h)'
  BY <1>2 DEF Kept
<1> QED BY <1>1, <1>2, <1>3, <1>4, DoubtBegins

LEMMA RequestTable ==
  ASSUME OneManagerPerPort, KInv, NEW h \in Handlers, Request(h)
  PROVE  KInv' /\ TableStep
<1>1. IInv'
  BY RequestStep DEF KInv
<1>2. CASE CreateRequest(h)
  <2>1. PICK p \in Manages[h], c \in Configs : Accept(h, p, c, file[p] # None)
    BY <1>2 DEF CreateRequest
  <2>2. (file[p] # None) \in BOOLEAN
    OBVIOUS
  <2> QED BY <1>1, <1>2, <2>1, <2>2, AcceptTable DEF CreateRequest
<1>3. CASE DeleteRequest(h)
  BY <1>1, <1>3, AcceptTable DEF DeleteRequest
<1>4. CASE ReloadRequest(h)
  <2>1. MovesOnly(h) /\ handler'[h] = [handler[h] EXCEPT !.at = "reload_only"]
    BY <1>4, GoesMoves DEF ReloadRequest, KInv, IInv, HandlerPCs
  <2>2. handler'[h].at = "reload_only"
    BY <2>1 DEF KInv, IInv, TypeOK, HandlerState
  <2>3. ~InDoubt(h) /\ ~InDoubt(h)'
    BY <1>4, <2>2 DEF ReloadRequest, InDoubt
  <2> QED BY <1>1, <1>4, <2>1, <2>3, NoDoubt DEF ReloadRequest, TableStep
<1> QED BY <1>2, <1>3, <1>4 DEF Request

(* What is known of the request a handler works on. *)
LEMMA RequestFacts ==
  ASSUME KInv, NEW h \in Handlers
  PROVE  /\ IInv /\ TypeOK /\ Kept(h) /\ Own(h)
         /\ handler[h] \in HandlerState /\ handler[h].port \in Ports
         /\ handler[h].content \in Contents
         /\ file \in [Ports -> Contents] /\ backup \in [Ports -> Contents]
         /\ used \in Counters
BY IInvIsOwn DEF KInv, IInv, TypeOK, HandlerState, Counters

LEMMA FaultIsDamage ==
  ASSUME TypeOK, WriteFails \/ FileFault
  PROVE  ~Undamaged'
BY DEF TypeOK, WriteFails, FileFault, Undamaged

LEMMA IdleIsNoDoubt ==
  ASSUME NEW h \in Handlers, handler'[h] = IdleHandler
  PROVE  ~InDoubt(h)'
BY DEF IdleHandler, InDoubt

(* The copy leaves the file alone. *)
LEMMA CopyTable ==
  ASSUME OneManagerPerPort, KInv, IInv', NEW h \in Handlers, CopyOpen(h) \/ CopyWrite(h)
  PROVE  KInv' /\ TableStep
<1> DEFINE r == handler[h]
<1>1. InDoubt(h) /\ r.at \in {"copy", "copy_write"} /\ UNCHANGED file
  BY DEF CopyOpen, CopyWrite, InDoubt, HandlerPCs
<1>2. file[r.port] = r.before
  BY <1>1, RequestFacts DEF Kept
<1>3. OnlyPort(h, r.port)
  BY <1>1, RequestFacts, FilesOnly DEF CopyOpen, CopyWrite, IInv
<1>4. CASE Returns(h)
  <2>1. MovesOnly(h) /\ handler'[h] = IdleHandler
    BY <1>4, RequestFacts, ReturnsMoves
  <2> QED BY <1>1, <1>2, <1>3, <2>1, IdleIsNoDoubt, DoubtEnds
<1>5. CASE /\ HandlerGoes(h, [r EXCEPT !.at = "copy_write", !.before = file[r.port]])
           /\ r.at = "copy" /\ file[r.port] # None
  <2>1. MovesOnly(h) /\ handler'[h] = [r EXCEPT !.at = "copy_write"]
    BY <1>2, <1>5, RequestFacts, OpenMoves DEF HandlerState
  <2>2. Kept(h)'
    BY <1>1, <1>2, <2>1, RequestFacts DEF Kept, HandlerState
  <2> QED BY <1>1, <1>3, <2>1, <2>2, DoubtGoesOn DEF Doubtful, HandlerPCs
<1>6. CASE Goes(h, AfterCopy(r))
  <2>1. PICK at \in {"remove", "truncate"} :
           Goes(h, at) /\ (at = "remove" => r.content = None)
    BY <1>6 DEF AfterCopy
  <2>2. MovesOnly(h) /\ handler'[h] = [r EXCEPT !.at = at]
    BY <2>1, RequestFacts, GoesMoves DEF HandlerPCs
  <2>3. Kept(h)'
    BY <1>1, <1>2, <2>1, <2>2, RequestFacts DEF Kept, HandlerState
  <2> QED BY <1>1, <1>3, <2>2, <2>3, DoubtGoesOn DEF Doubtful, HandlerPCs
<1> QED BY <1>4, <1>5, <1>6 DEF CopyOpen, CopyWrite, ReturnsWithoutCopy

LEMMA TruncateTable ==
  ASSUME OneManagerPerPort, KInv, IInv', NEW h \in Handlers, Truncate(h)
  PROVE  KInv' /\ TableStep
<1> DEFINE r == handler[h]
<1>1. InDoubt(h) /\ r.at = "truncate" /\ UNCHANGED backup
  BY DEF Truncate, InDoubt, HandlerPCs
<1>2. file[r.port] = r.before
  BY <1>1, RequestFacts DEF Kept
<1>3. OnlyPort(h, r.port)
  BY <1>1, RequestFacts, Constants DEF Truncate, OnlyPort, PutFile
<1>4. CASE Returns(h) /\ UNCHANGED file
  <2>1. MovesOnly(h) /\ handler'[h] = IdleHandler
    BY <1>4, RequestFacts, ReturnsMoves
  <2> QED BY <1>1, <1>2, <1>3, <1>4, <2>1, IdleIsNoDoubt, DoubtEnds
<1>5. CASE PutFile(r.port, Empty) /\ Goes(h, "write")
  <2>1. MovesOnly(h) /\ handler'[h] = [r EXCEPT !.at = "write"]
    BY <1>5, RequestFacts, GoesMoves DEF HandlerPCs
  <2>2. file'[r.port] = Empty
    BY <1>5, RequestFacts DEF PutFile
  <2>3. Kept(h)'
    BY <1>1, <2>1, <2>2, RequestFacts DEF Kept, HandlerState
  <2> QED BY <1>1, <1>3, <2>1, <2>3, DoubtGoesOn DEF Doubtful, HandlerPCs
<1> QED BY <1>4, <1>5 DEF Truncate

LEMMA WriteTable ==
  ASSUME OneManagerPerPort, KInv, IInv', NEW h \in Handlers, Write(h)
  PROVE  KInv' /\ TableStep
<1> DEFINE r == handler[h]
<1>1. InDoubt(h) /\ r.at = "write" /\ UNCHANGED backup
  BY DEF Write, InDoubt, HandlerPCs
<1>2. OnlyPort(h, r.port)
  BY <1>1, RequestFacts, Constants DEF Write, OnlyPort, PutFile
<1>3. CASE /\ WriteFails
           /\ \E content \in {Empty, Torn} : PutFile(r.port, content)
           /\ Returns(h)
  <2>1. MovesOnly(h) /\ handler'[h] = IdleHandler
    BY <1>3, RequestFacts, ReturnsMoves
  <2>2. file'[r.port] \in {Empty, Torn} /\ ~Undamaged'
    BY <1>3, RequestFacts, FaultIsDamage DEF PutFile
  <2> QED BY <1>1, <1>2, <2>1, <2>2, IdleIsNoDoubt, DoubtEnds
<1>4. CASE PutFile(r.port, r.content) /\ Goes(h, "reload")
  <2>1. MovesOnly(h) /\ handler'[h] = [r EXCEPT !.at = "reload"]
    BY <1>4, RequestFacts, GoesMoves DEF HandlerPCs
  <2>2. file'[r.port] = r.content
    BY <1>4, RequestFacts DEF PutFile
  <2>3. Kept(h)'
    BY <1>1, <2>1, <2>2, RequestFacts DEF Kept, HandlerState
  <2> QED BY <1>1, <1>2, <2>1, <2>3, DoubtGoesOn DEF Doubtful, HandlerPCs
<1> QED BY <1>3, <1>4 DEF Write

LEMMA RemoveTable ==
  ASSUME OneManagerPerPort, KInv, IInv', NEW h \in Handlers, Remove(h)
  PROVE  KInv' /\ TableStep
<1> DEFINE r == handler[h]
<1>1. InDoubt(h) /\ r.at = "remove" /\ UNCHANGED backup
  BY DEF Remove, InDoubt, HandlerPCs
<1>2. OnlyPort(h, r.port)
  BY <1>1, RequestFacts, FilesOnly DEF Remove, IInv
<1>3. CASE Returns(h) /\ UNCHANGED file
  <2>1. MovesOnly(h) /\ handler'[h] = IdleHandler
    BY <1>3, RequestFacts, ReturnsMoves
  <2>2. file'[r.port] = r.before
    BY <1>1, <1>3, RequestFacts DEF Kept
  <2> QED BY <1>1, <1>2, <2>1, <2>2, IdleIsNoDoubt, DoubtEnds
<1>4. CASE PutFile(r.port, None) /\ Goes(h, "reload")
  <2>1. MovesOnly(h) /\ handler'[h] = [r EXCEPT !.at = "reload"]
    BY <1>4, RequestFacts, GoesMoves DEF HandlerPCs
  <2>2. file'[r.port] = None
    BY <1>4, RequestFacts DEF PutFile
  <2>3. Kept(h)'
    BY <1>1, <2>1, <2>2, RequestFacts DEF Kept, HandlerState
  <2> QED BY <1>1, <1>2, <2>1, <2>3, DoubtGoesOn DEF Doubtful, HandlerPCs
<1> QED BY <1>3, <1>4 DEF Remove

(* Only a reload that passed HAProxy's check leads to the verification.    *)
LEMMA ReloadTable ==
  ASSUME OneManagerPerPort, KInv, IInv', NEW h \in Handlers, Reload(h)
  PROVE  KInv' /\ TableStep
<1> DEFINE r == handler[h]
<1>1. InDoubt(h) /\ r.at = "reload" /\ UNCHANGED <<file, backup>>
  BY DEF Reload, InDoubt, HandlerPCs
<1>2. OnlyPort(h, r.port)
  BY <1>1, RequestFacts DEF OnlyPort
<1>3. file[r.port] = r.content
  BY <1>1, RequestFacts DEF Kept
<1>4. PICK at \in {"verify", "undo"} :
        Goes(h, at) /\ (at = "verify" => file[r.port] \notin BadConfigs)
  BY RequestFacts DEF Reload, ReloadSucceeds, AllPass, Refused
<1>5. MovesOnly(h) /\ handler'[h] = [r EXCEPT !.at = at]
  BY <1>4, RequestFacts, GoesMoves DEF HandlerPCs
<1>6. Kept(h)'
  BY <1>1, <1>3, <1>4, <1>5, RequestFacts DEF Kept, HandlerState
<1> QED BY <1>1, <1>2, <1>5, <1>6, DoubtGoesOn DEF Doubtful, HandlerPCs

LEMMA VerifyTable ==
  ASSUME OneManagerPerPort, KInv, IInv', NEW h \in Handlers, Verify(h)
  PROVE  KInv' /\ TableStep
<1> DEFINE r == handler[h]
<1>1. InDoubt(h) /\ r.at = "verify" /\ UNCHANGED <<file, backup>>
  BY DEF Verify, InDoubt, HandlerPCs
<1>2. OnlyPort(h, r.port)
  BY <1>1, RequestFacts DEF OnlyPort
<1>3. file[r.port] = r.content /\ r.content \notin BadConfigs
  BY <1>1, RequestFacts DEF Kept
<1>4. CASE Returns(h)
  <2>1. MovesOnly(h) /\ handler'[h] = IdleHandler
    BY <1>4, RequestFacts, ReturnsMoves
  <2> QED BY <1>1, <1>2, <1>3, <2>1, IdleIsNoDoubt, DoubtEnds
<1>5. CASE Goes(h, "commit")
  <2>1. MovesOnly(h) /\ handler'[h] = [r EXCEPT !.at = "commit"]
    BY <1>5, RequestFacts, GoesMoves DEF HandlerPCs
  <2>2. ~InDoubt(h)'
    BY <2>1, RequestFacts DEF HandlerState, InDoubt
  <2> QED BY <1>1, <1>2, <1>3, <2>1, <2>2, DoubtEnds
<1>6. CASE Goes(h, "undo_verified")
  <2>1. MovesOnly(h) /\ handler'[h] = [r EXCEPT !.at = "undo_verified"]
    BY <1>6, RequestFacts, GoesMoves DEF HandlerPCs
  <2>2. Kept(h)'
    BY <1>1, <1>3, <2>1, RequestFacts DEF Kept, HandlerState
  <2> QED BY <1>1, <1>2, <2>1, <2>2, DoubtGoesOn DEF Doubtful, HandlerPCs
<1> QED BY <1>4, <1>5, <1>6 DEF Verify

(* The undo puts back what the file was, the backup or nothing, unless the  *)
(* rename or the removal fails.                                            *)
LEMMA UndoTable ==
  ASSUME OneManagerPerPort, KInv, IInv', NEW h \in Handlers, Undo(h)
  PROVE  KInv' /\ TableStep
<1> DEFINE r == handler[h]
<1>1. InDoubt(h) /\ r.at \in {"undo", "undo_verified"}
  BY DEF Undo, InDoubt, HandlerPCs
<1>2. OnlyPort(h, r.port)
  BY RequestFacts, FilesOnly DEF Undo, IInv
<1>3. \/ file'[r.port] = r.before
      \/ file'[r.port] = r.content /\ ~Undamaged'
  <2>1. CASE PutBack(r)
    <3>1. r.backedUp => backup[r.port] = r.before
      BY <1>1, RequestFacts DEF Own, Undoable
    <3>2. r.backedUp <=> r.before # None
      BY RequestFacts DEF TypeOK, BackupFound
    <3> QED BY <2>1, <3>1, <3>2, RequestFacts DEF PutBack, RenameBackup, PutFile
  <2>2. CASE FileFault /\ UNCHANGED <<file, backup>>
    <3>1. file[r.port] = r.content
      BY <1>1, RequestFacts DEF Kept
    <3> QED BY <2>2, <3>1, RequestFacts, FaultIsDamage
  <2> QED BY <2>1, <2>2 DEF Undo
<1>4. CASE Returns(h)
  <2>1. MovesOnly(h) /\ handler'[h] = IdleHandler
    BY <1>4, RequestFacts, ReturnsMoves
  <2> QED BY <1>1, <1>2, <1>3, <2>1, IdleIsNoDoubt, DoubtEnds
<1>5. CASE Goes(h, "reload_again")
  <2>1. MovesOnly(h) /\ handler'[h] = [r EXCEPT !.at = "reload_again"]
    BY <1>5, RequestFacts, GoesMoves DEF HandlerPCs
  <2>2. ~InDoubt(h)'
    BY <2>1, RequestFacts DEF HandlerState, InDoubt
  <2> QED BY <1>1, <1>2, <1>3, <2>1, <2>2, DoubtEnds
<1> QED BY <1>4, <1>5 DEF Undo

LEMMA HandleTable ==
  ASSUME OneManagerPerPort, KInv, NEW h \in Handlers, Handle(h)
  PROVE  KInv' /\ TableStep
<1>1. IInv'
  BY HandleStep DEF KInv
<1>2. CASE ReloadAgain(h) \/ Commit(h)
  <2>1. ~InDoubt(h) /\ UNCHANGED file /\ Returns(h)
    BY <1>2 DEF ReloadAgain, Commit, InDoubt
  <2>2. MovesOnly(h) /\ handler'[h] = IdleHandler
    BY <2>1, RequestFacts, ReturnsMoves
  <2> QED BY <1>1, <2>1, <2>2, IdleIsNoDoubt, NoDoubt DEF TableStep
<1> QED BY <1>1, <1>2, CopyTable, TruncateTable, WriteTable, RemoveTable, ReloadTable,
           VerifyTable, UndoTable
        DEF Handle

(* Nothing is in doubt after a crash; each port has what its file is left  *)
(* with.                                                                   *)
LEMMA CrashTable ==
  ASSUME OneManagerPerPort, KInv, Crash
  PROVE  KInv' /\ TableStep
<1>1. IInv'
  BY CrashStep DEF KInv
<1>2. /\ \A h \in Handlers : ~InDoubt(h)'
      /\ UNCHANGED file
  BY DEF Crash, InDoubt, IdleHandler
<1>3. KInv'
  BY <1>1, <1>2 DEF KInv, Kept
<1>4. TableView /\ TableView'
  <2>1. TableView
    BY TableOf DEF KInv
  <2>2. TableView'
    BY <1>1, TableOf, PTL
  <2> QED BY <2>1, <2>2
<1>5. ASSUME NEW p \in Ports
      PROVE  Table'[p] \in Promise!MayBeLeft(p, Asked)
  <2>1. Table'[p] = file[p]
    BY <1>2, <1>4 DEF TableView
  <2>2. CASE \E h \in Handlers : InDoubt(h) /\ handler[h].port = p
    <3>1. PICK h \in Handlers : InDoubt(h) /\ handler[h].port = p
      BY <2>2
    <3> DEFINE request == RequestOf(h)
    <3>2. request \in Asked /\ request.port = p /\ request.content = handler[h].content
      BY <3>1 DEF Asked, RequestOf
    <3>3. Table[p] = handler[h].before
      BY <1>4, <3>1 DEF TableView
    <3>4. file[p] \in {handler[h].before, Empty, handler[h].content}
      BY <3>1, RequestFacts DEF Kept, InDoubt, HandlerState, HandlerPCs
    <3> HIDE DEF request
    <3> QED BY <2>1, <3>2, <3>3, <3>4 DEF Promise!MayBeLeft
  <2>3. CASE \A h \in Handlers : InDoubt(h) => handler[h].port # p
    BY <1>4, <2>1, <2>3 DEF TableView, Promise!MayBeLeft
  <2> QED BY <2>2, <2>3
<1>6. Asked' = Asked \ Asked
  BY <1>2 DEF Asked
<1>7. DOMAIN Table' = Ports
  BY <1>4 DEF TableView
<1>8. Promise!Interrupt(Asked)
  BY <1>5, <1>6, <1>7 DEF Promise!Interrupt
<1>9. ~Undamaged'
  BY DEF KInv, IInv, TypeOK, Crash, Undamaged
<1> QED BY <1>3, <1>8, <1>9 DEF TableStep

LEMMA UnmovedTable ==
  ASSUME KInv, HAProxyLoads \/ UNCHANGED vars
  PROVE  KInv' /\ UNCHANGED <<Table, Asked>>
<1>1. UNCHANGED <<file, handler>>
  BY DEF HAProxyLoads, vars
<1>2. IInv'
  BY HAProxyStep
  DEF KInv, vars, haproxy, IInv, TypeOK, KeepsToItsPorts, Working, CopyIsDue, OldConfigIsAtHand
<1>3. \A h \in Handlers : InDoubt(h)' <=> InDoubt(h)
  BY <1>1 DEF InDoubt
<1>4. \A h \in Handlers : Kept(h)'
  BY <1>1, <1>3 DEF KInv, Kept
<1> QED BY <1>1, <1>2, <1>4 DEF KInv, Table, Asked, InDoubt

LEMMA TableInit ==
  ASSUME Init
  PROVE  KInv /\ Promise!Init
<1>1. \A h \in Handlers : ~InDoubt(h)
  BY DEF Init, IdleHandler, InDoubt
<1>2. KInv
  BY <1>1, InitInv DEF KInv, Kept
<1>3. Table = [p \in Ports |-> None]
  BY <1>1 DEF Init, Table
<1>4. Asked = {}
  BY <1>1 DEF Asked
<1> QED BY <1>2, <1>3, <1>4 DEF Promise!Init

LEMMA TableNext ==
  ASSUME OneManagerPerPort, KInv, [Next]_vars
  PROVE  KInv' /\ TableStep
<1>1. CASE HAProxyLoads \/ UNCHANGED vars
  BY <1>1, UnmovedTable DEF TableStep
<1> QED BY <1>1, RequestTable, HandleTable, CrashTable DEF Next

(* Without a torn write, a failed rename or removal, or a crash, no entry   *)
(* of the table is one that HAProxy refuses.                               *)
Servable == Undamaged => \A p \in Ports : Table[p] \notin Refused

LEMMA ServableStep ==
  ASSUME OneManagerPerPort, KInv, Servable, [Next]_vars
  PROVE  Servable'
<1> SUFFICES ASSUME Undamaged', NEW p \in Ports
             PROVE  Table'[p] \notin Refused
  BY DEF Servable
<1>1. Undamaged
  <2>1. \/ used' = used
        \/ Requested \/ WriteFails \/ FileFault \/ Fault
        \/ used' = [used EXCEPT !.crashes = @ + 1]
    BY DEF Next, Request, CreateRequest, DeleteRequest, ReloadRequest, Handle, CopyOpen,
           CopyWrite, Truncate, Write, Remove, Reload, ReloadSucceeds, ReloadFails, Verify, Undo, ReloadAgain,
           Commit, HAProxyLoads, Crash, vars, haproxy
  <2> QED BY <2>1 DEF Undamaged, KInv, IInv, TypeOK, Requested, WriteFails, FileFault, Fault
<1>2. Table[p] \notin Refused
  BY <1>1 DEF Servable
<1>3. TableStep
  BY TableNext
<1>4. CASE UNCHANGED Table
  BY <1>2, <1>4
<1>5. CASE \E r \in Asked : Promise!Grant(r)
  <2>1. PICK r \in Asked : Promise!Grant(r)
    BY <1>5
  <2>2. r.content \in (Configs \cup {None}) \ BadConfigs
    <3>1. PICK h \in Handlers : InDoubt(h) /\ r.content = handler[h].content
      BY DEF Asked
    <3>2. handler[h].content \in Configs \cup {None}
      BY <3>1, RequestFacts DEF Kept
    <3> QED BY <2>1, <3>1, <3>2 DEF Promise!Grant
  <2>3. r.content \notin Refused
    BY <2>2, ParameterAssumption DEF Refused
  <2>4. Table \in [Ports -> Contents]
    BY TableOf DEF TableView, KInv
  <2> QED BY <1>2, <2>1, <2>3, <2>4 DEF Promise!Grant
<1> QED BY <1>3, <1>4, <1>5 DEF TableStep, Promise!Ask, Promise!Refuse

LEMMA KInvHolds ==
  ASSUME OneManagerPerPort
  PROVE  Spec => [](KInv /\ Servable)
<1>1. Init => KInv /\ Servable
  <2>1. Init => KInv /\ Promise!Init
    BY TableInit
  <2> QED BY <2>1, ParameterAssumption DEF Promise!Init, Servable, Refused
<1>2. KInv /\ Servable /\ [Next]_vars => (KInv /\ Servable)'
  BY TableNext, ServableStep
<1> QED BY <1>1, <1>2, PTL DEF Spec

-----------------------------------------------------------------------------
(* When no port is managed by two clients, the service is a table: a        *)
(* request takes effect all at once, as what HAProxy has checked, or not at *)
(* all, although it is many steps on two files and a reload in between      *)
(* (service.go:117-201), which fail or are cut off at any point; a crash,   *)
(* a torn write or an undo that fails harms only the ports worked on.       *)
THEOREM TablePromised ==
  ASSUME OneManagerPerPort
  PROVE  Spec => ImplementsTable
<1>1. Init => Promise!Init
  BY TableInit
<1>2. KInv /\ [Next]_vars => [Promise!Next]_<<Table, Asked>>
  BY TableNext DEF TableStep, Promise!Next
<1> QED BY <1>1, <1>2, KInvHolds, PTL DEF Spec, ImplementsTable, Promise!Spec

(* And as long as no write is torn, no rename or removal fails and the API  *)
(* does not die, the files at rest are files that HAProxy loads: no failed  *)
(* change of one tenant is left to block the reload of the others.         *)
THEOREM RestServable ==
  ASSUME OneManagerPerPort
  PROVE  Spec => []RestIsServable
<1>1. KInv /\ Servable => RestIsServable
  <2> SUFFICES ASSUME KInv, Servable, used.torn = 0, used.files = 0, used.crashes = 0,
                      \A h \in Handlers : handler[h].at = "idle"
               PROVE  \A p \in Ports : file[p] \notin Refused
    BY DEF RestIsServable
  <2>1. \A p \in Ports : Table[p] = file[p]
    BY TableOf DEF TableView, KInv, InDoubt
  <2> QED BY <2>1 DEF Servable, Undamaged
<1> QED BY <1>1, KInvHolds, PTL
=============================================================================
