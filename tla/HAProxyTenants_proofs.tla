------------------------ MODULE HAProxyTenants_proofs ------------------------
(***************************************************************************)
(* Proofs about HAProxyTenants, for every set of ports, contents and        *)
(* handlers and every bound.                                                *)
(*                                                                         *)
(* When no two clients manage the same port, a request always has the file *)
(* it is to restore in its .bak, whatever torn writes, failed renames and   *)
(* crashes went before: nobody else touches either file.                   *)
(*                                                                         *)
(* When nothing fails, HAProxy at rest serves what is on disk, also when    *)
(* clients change each other's ports: from the first change of a file its  *)
(* request goes on to a reload, and the reload reads all files.            *)
(***************************************************************************)
EXTENDS HAProxyTenants, TLAPS

Counters == [requests : Nat, faults : Nat, files : Nat, torn : Nat, crashes : Nat]

LEMMA Constants ==
  /\ AnyPort \in Ports
  /\ None \in Contents /\ Empty \in Contents /\ Torn \in Contents
  /\ Configs \subseteq Contents
  /\ IdleHandler \in HandlerState /\ BackupFound(IdleHandler)
<1>1. AnyPort \in Ports
  BY ParameterAssumption DEF AnyPort
<1> QED BY <1>1 DEF Contents, IdleHandler, HandlerState, HandlerPCs, BackupFound

LEMMA BoundsStep ==
  ASSUME TypeOK, Requested \/ WriteFails \/ FileFault \/ Fault \/ UNCHANGED used
  PROVE  used' \in Counters
BY DEF TypeOK, Requested, WriteFails, FileFault, Fault, Counters

LEMMA SectionTypes ==
  ASSUME TypeOK, AllPass, NEW p \in Ports
  PROVE  Section(file[p]) \in (Configs \ BadConfigs) \cup {None}
BY DEF TypeOK, AllPass, Refused, Section

(* A reload, in whatever way it ends, leaves the types of HAProxy's state. *)
LEMMA ReloadTypes ==
  ASSUME TypeOK, ReloadSucceeds \/ ReloadFails
  PROVE  /\ served' = served
         /\ reloading' \in BOOLEAN
         /\ used' \in Counters
<1>1. CASE ReloadSucceeds
  BY <1>1, BoundsStep DEF TypeOK, ReloadSucceeds
<1>2. CASE ReloadFails
  <2>1. CASE ~AllPass /\ UNCHANGED <<haproxy, used>>
    BY <2>1, BoundsStep DEF TypeOK, haproxy
  <2>2. CASE Fault /\ reloading' \in {reloading, reloading \/ AllPass} /\ UNCHANGED served
    <3>1. AllPass \in BOOLEAN
      BY DEF AllPass
    <3> QED BY <2>2, <3>1, BoundsStep DEF TypeOK
  <2> QED BY <1>2, <2>1, <2>2 DEF ReloadFails
<1> QED BY <1>1, <1>2

-----------------------------------------------------------------------------
(* What the step of one handler leaves of the others. *)
MovesOnly(h) ==
  /\ handler' = [handler EXCEPT ![h] = handler'[h]]
  /\ handler'[h] \in HandlerState

LEMMA GoesMoves ==
  ASSUME TypeOK, NEW h \in Handlers, NEW at \in HandlerPCs, Goes(h, at)
  PROVE  /\ MovesOnly(h)
         /\ handler'[h] = [handler[h] EXCEPT !.at = at]
<1>1. handler[h] \in HandlerState
  BY DEF TypeOK
<1>2. [handler[h] EXCEPT !.at = at] \in HandlerState
  BY <1>1 DEF HandlerState
<1>3. handler' = [handler EXCEPT ![h] = [handler[h] EXCEPT !.at = at]]
  BY DEF Goes
<1> QED BY <1>2, <1>3 DEF MovesOnly, TypeOK

LEMMA ReturnsMoves ==
  ASSUME TypeOK, NEW h \in Handlers, Returns(h)
  PROVE  MovesOnly(h) /\ handler'[h] = IdleHandler
BY Constants DEF Returns, HandlerGoes, MovesOnly, TypeOK

(* The request that Accept starts. *)
Accepted(p, content, backedUp) ==
  [at |-> IF backedUp THEN "copy" ELSE "truncate", port |-> p, content |-> content,
   backedUp |-> backedUp, before |-> file[p]]

LEMMA AcceptMoves ==
  ASSUME TypeOK, NEW h \in Handlers, NEW p \in Manages[h],
         NEW content \in Configs \cup {None}, NEW backedUp \in BOOLEAN,
         Accept(h, p, content, backedUp), backedUp <=> file[p] # None
  PROVE  /\ MovesOnly(h) /\ p \in Ports
         /\ handler'[h] = Accepted(p, content, backedUp)
         /\ BackupFound(handler'[h])
<1>1. p \in Ports /\ file[p] \in Contents
  BY ParameterAssumption DEF TypeOK
<1>2. Accepted(p, content, backedUp) \in HandlerState
  BY <1>1, Constants DEF Accepted, HandlerState, HandlerPCs
<1>3. handler' = [handler EXCEPT ![h] = Accepted(p, content, backedUp)]
  BY DEF Accept, HandlerGoes, Accepted
<1>4. BackupFound(Accepted(p, content, backedUp))
  <2>1. CASE backedUp
    BY <2>1 DEF BackupFound, Accepted
  <2>2. CASE ~backedUp
    BY <2>2 DEF BackupFound, Accepted
  <2> QED BY <2>1, <2>2
<1> QED BY <1>1, <1>2, <1>3, <1>4 DEF MovesOnly, TypeOK

(* The request that goes on to write the copy it opened. *)
LEMMA OpenMoves ==
  ASSUME TypeOK, NEW h \in Handlers, handler[h].at = "copy", file[handler[h].port] # None,
         HandlerGoes(h, [handler[h] EXCEPT !.at = "copy_write",
                                           !.before = file[handler[h].port]])
  PROVE  /\ MovesOnly(h)
         /\ handler'[h] = [handler[h] EXCEPT !.at = "copy_write",
                                             !.before = file[handler[h].port]]
         /\ BackupFound(handler'[h])
<1> DEFINE state == [handler[h] EXCEPT !.at = "copy_write", !.before = file[handler[h].port]]
<1>1. handler[h] \in HandlerState /\ BackupFound(handler[h])
  BY DEF TypeOK
<1>2. file[handler[h].port] \in Contents
  BY <1>1 DEF TypeOK, HandlerState
<1>3. state \in HandlerState
  BY <1>1, <1>2 DEF HandlerState, HandlerPCs
<1>4. /\ state.at = "copy_write" /\ state.before = file[handler[h].port]
      /\ state.backedUp = handler[h].backedUp
  BY <1>1 DEF HandlerState
<1>5. handler' = [handler EXCEPT ![h] = state]
  BY DEF HandlerGoes
<1>6. handler'[h] = state
  BY <1>5 DEF TypeOK
<1>7. handler[h].backedUp
  BY <1>1 DEF BackupFound
<1> HIDE DEF state
<1>8. BackupFound(state)
  BY <1>4, <1>7 DEF BackupFound
<1>9. MovesOnly(h)
  BY <1>3, <1>5, <1>6 DEF MovesOnly
<1> QED BY <1>6, <1>8, <1>9 DEF state

-----------------------------------------------------------------------------
(* The types, which do not depend on who manages which port. *)
LEMMA HandlerTypes ==
  ASSUME TypeOK, NEW h \in Handlers, MovesOnly(h), BackupFound(handler'[h])
  PROVE  /\ handler' \in [Handlers -> HandlerState]
         /\ \A g \in Handlers : BackupFound(handler'[g])
BY DEF MovesOnly, TypeOK

LEMMA GoesTypes ==
  ASSUME TypeOK, NEW h \in Handlers, NEW at \in HandlerPCs, Goes(h, at),
         at \in {"copy", "copy_write", "remove", "commit"} => handler[h].backedUp
  PROVE  /\ handler' \in [Handlers -> HandlerState]
         /\ \A g \in Handlers : BackupFound(handler'[g])
<1>1. MovesOnly(h) /\ handler'[h] = [handler[h] EXCEPT !.at = at]
  BY GoesMoves
<1>2. handler[h] \in HandlerState /\ BackupFound(handler[h])
  BY DEF TypeOK
<1>3. /\ handler'[h].at = at /\ handler'[h].backedUp = handler[h].backedUp
      /\ handler'[h].before = handler[h].before
  BY <1>1, <1>2 DEF HandlerState
<1>4. BackupFound(handler'[h])
  BY <1>2, <1>3 DEF BackupFound
<1> QED BY <1>1, <1>4, HandlerTypes

LEMMA ReturnsTypes ==
  ASSUME TypeOK, NEW h \in Handlers, Returns(h)
  PROVE  /\ handler' \in [Handlers -> HandlerState]
         /\ \A g \in Handlers : BackupFound(handler'[g])
BY ReturnsMoves, HandlerTypes, Constants

LEMMA RequestTypes ==
  ASSUME TypeOK, NEW h \in Handlers, Request(h)
  PROVE  TypeOK'
<1>1. Requested /\ UNCHANGED <<file, backup, haproxy>>
  BY DEF Request, CreateRequest, DeleteRequest, ReloadRequest
<1>2. /\ handler' \in [Handlers -> HandlerState]
      /\ \A g \in Handlers : BackupFound(handler'[g])
  <2>1. CASE CreateRequest(h)
    BY <2>1, AcceptMoves, HandlerTypes DEF CreateRequest
  <2>2. CASE DeleteRequest(h)
    BY <2>2, AcceptMoves, HandlerTypes DEF DeleteRequest
  <2>3. CASE ReloadRequest(h)
    BY <2>3, GoesTypes DEF ReloadRequest, HandlerPCs
  <2> QED BY <2>1, <2>2, <2>3 DEF Request
<1> QED BY <1>1, <1>2, BoundsStep DEF TypeOK, haproxy, Counters

LEMMA HandleTypes ==
  ASSUME TypeOK, NEW h \in Handlers, Handle(h)
  PROVE  TypeOK'
<1> DEFINE r == handler[h]
<1>1. /\ r.port \in Ports /\ r.content \in Contents /\ r.before \in Contents
      /\ file[r.port] \in Contents /\ backup[r.port] \in Contents
      /\ BackupFound(r)
  BY DEF TypeOK, HandlerState
<1>2. ASSUME NEW content \in Contents
      PROVE  /\ PutFile(r.port, content) => file' \in [Ports -> Contents]
             /\ PutBackup(r.port, content) => backup' \in [Ports -> Contents]
  BY <1>1 DEF PutFile, PutBackup, TypeOK
<1>3. /\ handler' \in [Handlers -> HandlerState]
      /\ \A g \in Handlers : BackupFound(handler'[g])
  <2>1. CASE CopyOpen(h)
    BY <2>1, ReturnsTypes, OpenMoves, HandlerTypes DEF CopyOpen, ReturnsWithoutCopy
  <2>2. CASE CopyWrite(h)
    BY <1>1, <2>2, ReturnsTypes, GoesTypes
       DEF CopyWrite, ReturnsWithoutCopy, AfterCopy, BackupFound, HandlerPCs
  <2>3. CASE Verify(h)
    BY <2>3, ReturnsTypes, GoesTypes DEF Verify, HandlerPCs
  <2>4. CASE Truncate(h) \/ Write(h) \/ Remove(h) \/ Reload(h) \/ Undo(h)
             \/ ReloadAgain(h) \/ Commit(h)
    <3>1. \/ Returns(h)
          \/ \E at \in {"write", "reload", "verify", "undo", "reload_again"} : Goes(h, at)
      BY <2>4 DEF Truncate, Write, Remove, Reload, Undo, ReloadAgain, Commit
    <3> QED BY <3>1, ReturnsTypes, GoesTypes DEF HandlerPCs
  <2> QED BY <2>1, <2>2, <2>3, <2>4 DEF Handle
<1>4. CASE CopyOpen(h) \/ CopyWrite(h)
  <2>1. UNCHANGED <<file, haproxy>> /\ (WriteFails \/ UNCHANGED used)
    BY <1>4 DEF CopyOpen, CopyWrite
  <2>2. backup' \in [Ports -> Contents]
    BY <1>1, <1>2, <1>4, Constants DEF CopyOpen, CopyWrite, TypeOK
  <2> QED BY <1>3, <2>1, <2>2, BoundsStep DEF TypeOK, haproxy, Counters
<1>5. CASE Truncate(h)
  BY <1>2, <1>3, <1>5, BoundsStep, Constants DEF Truncate, TypeOK, haproxy, Counters
<1>6. CASE Write(h)
  BY <1>1, <1>2, <1>3, <1>6, BoundsStep, Constants DEF Write, TypeOK, haproxy, Counters
<1>7. CASE Remove(h)
  BY <1>2, <1>3, <1>7, BoundsStep, Constants DEF Remove, TypeOK, haproxy, Counters
<1>8. CASE Reload(h) \/ ReloadAgain(h)
  <2>1. UNCHANGED <<file, backup>> /\ (ReloadSucceeds \/ ReloadFails)
    BY <1>8 DEF Reload, ReloadAgain
  <2> QED BY <1>3, <2>1, ReloadTypes DEF TypeOK, Counters
<1>9. CASE Verify(h)
  BY <1>3, <1>9, BoundsStep DEF Verify, TypeOK, haproxy, Counters
<1>10. CASE Undo(h)
  <2>1. UNCHANGED haproxy /\ (FileFault \/ UNCHANGED used)
    BY <1>10 DEF Undo
  <2>2. file' \in [Ports -> Contents] /\ backup' \in [Ports -> Contents]
    BY <1>1, <1>2, <1>10, Constants DEF Undo, PutBack, RenameBackup, TypeOK
  <2> QED BY <1>3, <2>1, <2>2, BoundsStep DEF TypeOK, haproxy, Counters
<1>11. CASE Commit(h)
  BY <1>2, <1>3, <1>11, BoundsStep, Constants DEF Commit, TypeOK, haproxy, Counters
<1> QED BY <1>4, <1>5, <1>6, <1>7, <1>8, <1>9, <1>10, <1>11 DEF Handle

LEMMA TypeInit ==
  ASSUME Init
  PROVE  TypeOK
<1>1. [requests |-> 0, faults |-> 0, files |-> 0, torn |-> 0, crashes |-> 0] \in Counters
  BY DEF Counters
<1> QED BY <1>1, Constants DEF Init, TypeOK, Counters

LEMMA TypeStep ==
  ASSUME TypeOK, [Next]_vars
  PROVE  TypeOK'
<1>1. CASE HAProxyLoads
  BY <1>1, SectionTypes DEF TypeOK, HAProxyLoads
<1>2. CASE Crash
  BY <1>2, Constants DEF Crash, TypeOK, haproxy
<1>3. CASE UNCHANGED vars
  BY <1>3 DEF vars, haproxy, TypeOK
<1> QED BY <1>1, <1>2, <1>3, HandleTypes, RequestTypes DEF Next

(* Every variable keeps its type; a HAProxy worker never runs with contents *)
(* HAProxy refuses, and a request has a backup exactly when it found a      *)
(* file, whoever manages which port.                                       *)
THEOREM TypeCorrect == Spec => []TypeOK
<1>1. Init => TypeOK
  BY TypeInit
<1> QED BY <1>1, TypeStep, PTL DEF Spec

-----------------------------------------------------------------------------
(* The backup that an undo restores. *)
OneManagerPerPort ==
  \A g, h \in Handlers : g # h => Manages[g] \cap Manages[h] = {}

(* A handler touches only ports its client manages. *)
Working(h) == handler[h].at \notin {"idle", "reload_only"}

KeepsToItsPorts ==
  \A h \in Handlers : Working(h) => handler[h].port \in Manages[h]

(* Until the copy is made, the file is what it was when the request came. *)
CopyIsDue ==
  \A h \in Handlers :
    handler[h].at \in {"copy", "copy_write"} => file[handler[h].port] = handler[h].before

IInv == TypeOK /\ KeepsToItsPorts /\ CopyIsDue /\ OldConfigIsAtHand

(* A step that changes at most the file and the backup of the port a        *)
(* handler manages preserves IInv, when it does so for that handler.        *)
OnlyPort(h, p) ==
  /\ file' \in [Ports -> Contents] /\ backup' \in [Ports -> Contents]
  /\ \A q \in Ports : q # p => file'[q] = file[q] /\ backup'[q] = backup[q]

Undoable == {"truncate", "write", "remove", "reload", "verify", "undo", "undo_verified"}

Own(h) ==
  LET r == handler[h]
  IN  /\ Working(h) => r.port \in Manages[h]
      /\ r.at \in {"copy", "copy_write"} => file[r.port] = r.before
      /\ r.backedUp /\ r.at \in Undoable => backup[r.port] = r.before

LEMMA IInvIsOwn ==
  IInv <=> TypeOK /\ \A h \in Handlers : Own(h)
BY DEF IInv, Own, KeepsToItsPorts, CopyIsDue, OldConfigIsAtHand, Undoable

LEMMA HandlerStep ==
  ASSUME OneManagerPerPort, IInv, NEW h \in Handlers, NEW p \in Manages[h],
         MovesOnly(h), OnlyPort(h, p), TypeOK', Own(h)'
  PROVE  IInv'
<1>1. p \in Ports
  BY ParameterAssumption
<1> SUFFICES ASSUME NEW g \in Handlers, g # h
             PROVE  Own(g)'
  <2>1. \A g \in Handlers : Own(g)'
    OBVIOUS
  <2> QED BY <2>1 DEF IInv, Own, KeepsToItsPorts, CopyIsDue, OldConfigIsAtHand, Undoable
<1>2. handler'[g] = handler[g]
  BY DEF MovesOnly, IInv, TypeOK
<1>3. Own(g)
  BY IInvIsOwn
<1>4. handler[g].port \in Ports
  BY DEF IInv, TypeOK, HandlerState
<1>5. CASE Working(g)
  <2>1. handler[g].port # p
    BY <1>3, <1>5 DEF OneManagerPerPort, Own
  <2>2. file'[handler[g].port] = file[handler[g].port]
        /\ backup'[handler[g].port] = backup[handler[g].port]
    BY <1>4, <2>1 DEF OnlyPort
  <2> QED BY <1>2, <1>3, <2>2 DEF Own, Working
<1>6. CASE ~Working(g)
  BY <1>2, <1>6 DEF Own, Working, Undoable
<1> QED BY <1>5, <1>6

-----------------------------------------------------------------------------
(* One step per action of a handler. *)
LEMMA AcceptStep ==
  ASSUME OneManagerPerPort, IInv, TypeOK', NEW h \in Handlers,
         NEW p \in Manages[h], NEW content \in Configs \cup {None}, NEW backedUp \in BOOLEAN,
         Accept(h, p, content, backedUp), backedUp <=> file[p] # None,
         UNCHANGED <<file, backup>>
  PROVE  IInv'
<1>1. MovesOnly(h) /\ handler'[h] = Accepted(p, content, backedUp)
  BY AcceptMoves DEF IInv
<1>2. OnlyPort(h, p)
  BY DEF OnlyPort, IInv, TypeOK
<1>3. /\ handler'[h].port = p /\ handler'[h].before = file[p]
      /\ handler'[h].backedUp = backedUp
      /\ handler'[h].at = IF backedUp THEN "copy" ELSE "truncate"
  BY <1>1 DEF Accepted
<1>4. Own(h)'
  <2>1. CASE backedUp
    BY <1>3, <2>1 DEF Own, Working, Undoable
  <2>2. CASE ~backedUp
    BY <1>3, <2>2 DEF Own, Working, Undoable
  <2> QED BY <2>1, <2>2
<1> QED BY <1>1, <1>2, <1>4, HandlerStep

LEMMA RequestStep ==
  ASSUME OneManagerPerPort, IInv, NEW h \in Handlers, Request(h)
  PROVE  IInv'
<1>1. TypeOK'
  BY RequestTypes DEF IInv
<1>2. CASE CreateRequest(h)
  <2>1. PICK p \in Manages[h], c \in Configs : Accept(h, p, c, file[p] # None)
    BY <1>2 DEF CreateRequest
  <2>2. (file[p] # None) \in BOOLEAN
    OBVIOUS
  <2> QED BY <1>1, <1>2, <2>1, <2>2, AcceptStep DEF CreateRequest
<1>3. CASE DeleteRequest(h)
  BY <1>1, <1>3, AcceptStep DEF DeleteRequest
<1>4. CASE ReloadRequest(h)
  <2>1. Goes(h, "reload_only") /\ UNCHANGED <<file, backup>>
    BY <1>4 DEF ReloadRequest
  <2>2. MovesOnly(h) /\ handler'[h] = [handler[h] EXCEPT !.at = "reload_only"]
    BY <2>1, GoesMoves DEF IInv, HandlerPCs
  <2>3. handler[h] \in HandlerState
    BY DEF IInv, TypeOK
  <2>4. \A g \in Handlers : Own(g)'
    <3> SUFFICES ASSUME NEW g \in Handlers PROVE Own(g)'
      OBVIOUS
    <3>1. Own(g)
      BY IInvIsOwn
    <3>2. CASE g = h
      BY <2>2, <2>3, <3>2 DEF Own, Working, Undoable, HandlerState
    <3>3. CASE g # h
      BY <2>1, <2>2, <3>1, <3>3 DEF Own, Working, MovesOnly, IInv, TypeOK
    <3> QED BY <3>2, <3>3
  <2> QED BY <1>1, <2>4 DEF IInv, Own, KeepsToItsPorts, CopyIsDue, OldConfigIsAtHand, Undoable
<1> QED BY <1>2, <1>3, <1>4 DEF Request

(* A step of a handler that works on a port. *)
LEMMA WorkingStep ==
  ASSUME OneManagerPerPort, IInv, TypeOK', NEW h \in Handlers, Working(h),
         MovesOnly(h), OnlyPort(h, handler[h].port), Own(h)'
  PROVE  IInv'
<1>1. handler[h].port \in Manages[h]
  BY DEF IInv, KeepsToItsPorts
<1> QED BY <1>1, HandlerStep

(* What a handler writes is its port's. *)
LEMMA FilesOnly ==
  ASSUME TypeOK, TypeOK', NEW h \in Handlers
  PROVE  LET p == handler[h].port
         IN  /\ p \in Ports
             /\ UNCHANGED <<file, backup>> => OnlyPort(h, p)
             /\ \A content : PutFile(p, content) /\ UNCHANGED backup => OnlyPort(h, p)
             /\ \A content : PutBackup(p, content) /\ UNCHANGED file => OnlyPort(h, p)
             /\ PutBack(handler[h]) => OnlyPort(h, p)
<1>1. handler[h].port \in Ports
  BY DEF TypeOK, HandlerState
<1>2. /\ file \in [Ports -> Contents] /\ backup \in [Ports -> Contents]
      /\ file' \in [Ports -> Contents] /\ backup' \in [Ports -> Contents]
  BY DEF TypeOK
<1> QED BY <1>1, <1>2 DEF OnlyPort, PutFile, PutBackup, PutBack, RenameBackup

(* A handler that returns owes nothing any more. *)
LEMMA ReturnedStep ==
  ASSUME OneManagerPerPort, IInv, TypeOK', NEW h \in Handlers, Working(h),
         Returns(h), OnlyPort(h, handler[h].port)
  PROVE  IInv'
<1>1. MovesOnly(h) /\ handler'[h] = IdleHandler
  BY ReturnsMoves DEF IInv
<1>2. Own(h)'
  BY <1>1 DEF IdleHandler, Own, Working, Undoable
<1> QED BY <1>1, <1>2, WorkingStep

(* A handler that goes on with the files as they are, or that changes only  *)
(* the file, keeps its backup.                                             *)
LEMMA WentOnStep ==
  ASSUME OneManagerPerPort, IInv, TypeOK', NEW h \in Handlers, Working(h),
         NEW at \in HandlerPCs \ {"copy", "copy_write"}, Goes(h, at),
         OnlyPort(h, handler[h].port),
         handler[h].at \in Undoable \/ at \notin Undoable,
         at \in Undoable => backup' = backup
  PROVE  IInv'
<1>1. MovesOnly(h) /\ handler'[h] = [handler[h] EXCEPT !.at = at]
  BY GoesMoves DEF IInv
<1>2. handler[h] \in HandlerState
  BY DEF IInv, TypeOK
<1>3. Own(h)
  BY IInvIsOwn
<1>4. /\ handler'[h].at = at /\ handler'[h].port = handler[h].port
      /\ handler'[h].before = handler[h].before
      /\ handler'[h].backedUp = handler[h].backedUp
  BY <1>1, <1>2 DEF HandlerState
<1>5. Own(h)'
  BY <1>3, <1>4 DEF Own, Working
<1> QED BY <1>1, <1>5, WorkingStep

(* The copy holds what the request found, for nobody changed the file. *)
LEMMA CopyStep ==
  ASSUME OneManagerPerPort, IInv, TypeOK', NEW h \in Handlers, CopyOpen(h) \/ CopyWrite(h)
  PROVE  IInv'
<1> DEFINE r == handler[h]
<1>1. TypeOK /\ Own(h) /\ r \in HandlerState /\ r.port \in Ports
  BY IInvIsOwn DEF IInv, TypeOK, HandlerState
<1>2. Working(h) /\ UNCHANGED file /\ r.at \in {"copy", "copy_write"}
  BY DEF CopyOpen, CopyWrite, Working
<1>3. file[r.port] = r.before
  BY <1>1, <1>2 DEF Own
<1>4. OnlyPort(h, r.port)
  BY <1>1, <1>2, FilesOnly DEF CopyOpen, CopyWrite
<1>5. CASE Returns(h)
  BY <1>2, <1>4, <1>5, ReturnedStep
<1>6. CASE /\ HandlerGoes(h, [r EXCEPT !.at = "copy_write", !.before = file[r.port]])
           /\ r.at = "copy" /\ file[r.port] # None
  <2>1. /\ MovesOnly(h)
        /\ handler'[h] = [r EXCEPT !.at = "copy_write", !.before = file[r.port]]
    BY <1>1, <1>6, OpenMoves
  <2>2. /\ handler'[h].at = "copy_write" /\ handler'[h].port = r.port
        /\ handler'[h].before = file[r.port]
    BY <1>1, <2>1 DEF HandlerState
  <2>3. Own(h)'
    BY <1>1, <1>2, <2>2 DEF Own, Working, Undoable
  <2> QED BY <1>2, <1>4, <2>1, <2>3, WorkingStep
<1>7. CASE /\ \E content \in {r.before, file[r.port]} \ {None} : PutBackup(r.port, content)
           /\ Goes(h, AfterCopy(r))
  <2>1. AfterCopy(r) \in {"remove", "truncate"}
    BY DEF AfterCopy
  <2>2. MovesOnly(h) /\ handler'[h] = [r EXCEPT !.at = AfterCopy(r)]
    BY <1>1, <1>7, <2>1, GoesMoves DEF HandlerPCs
  <2>3. /\ handler'[h].at \in {"remove", "truncate"} /\ handler'[h].port = r.port
        /\ handler'[h].before = r.before
    BY <1>1, <2>1, <2>2 DEF HandlerState
  <2>4. backup'[r.port] = r.before
    BY <1>1, <1>3, <1>7 DEF PutBackup, TypeOK
  <2>5. Own(h)'
    BY <1>1, <1>2, <2>3, <2>4 DEF Own, Working
  <2> QED BY <1>2, <1>4, <2>2, <2>5, WorkingStep
<1> QED BY <1>5, <1>6, <1>7 DEF CopyOpen, CopyWrite, ReturnsWithoutCopy

LEMMA HandleStep ==
  ASSUME OneManagerPerPort, IInv, NEW h \in Handlers, Handle(h)
  PROVE  IInv'
<1> DEFINE r == handler[h]
<1> USE DEF Undoable, HandlerPCs
<1>1. TypeOK /\ TypeOK'
  BY HandleTypes DEF IInv
<1>2. CASE CopyOpen(h) \/ CopyWrite(h)
  BY <1>1, <1>2, CopyStep
<1>3. CASE Truncate(h) \/ Write(h) \/ Remove(h)
  <2>1. /\ Working(h) /\ UNCHANGED backup /\ r.at \in Undoable
        /\ Returns(h) \/ Goes(h, "write") \/ Goes(h, "reload")
    BY <1>3 DEF Truncate, Write, Remove, Working
  <2>2. OnlyPort(h, r.port)
    BY <1>1, <1>3, FilesOnly DEF Truncate, Write, Remove
  <2> QED BY <1>1, <2>1, <2>2, ReturnedStep, WentOnStep
<1>4. CASE Reload(h) \/ Verify(h)
  <2>1. /\ Working(h) /\ UNCHANGED <<file, backup>> /\ r.at \in Undoable
        /\ Returns(h) \/ \E at \in {"verify", "undo", "commit", "undo_verified"} : Goes(h, at)
    BY <1>4 DEF Reload, Verify, Working
  <2>2. OnlyPort(h, r.port)
    BY <1>1, <2>1, FilesOnly
  <2> QED BY <1>1, <2>1, <2>2, ReturnedStep, WentOnStep
<1>5. CASE Undo(h)
  <2>1. Working(h) /\ (Returns(h) \/ Goes(h, "reload_again"))
    BY <1>5 DEF Undo, Working
  <2>2. OnlyPort(h, r.port)
    BY <1>1, <1>5, FilesOnly DEF Undo
  <2> QED BY <1>1, <2>1, <2>2, ReturnedStep, WentOnStep
<1>6. CASE ReloadAgain(h)
  <2>1. UNCHANGED <<file, backup>> /\ Returns(h)
    BY <1>6 DEF ReloadAgain
  <2>2. MovesOnly(h) /\ handler'[h] = IdleHandler
    BY <1>1, <2>1, ReturnsMoves
  <2>3. \A g \in Handlers : Own(g)'
    <3> SUFFICES ASSUME NEW g \in Handlers PROVE Own(g)'
      OBVIOUS
    <3>1. CASE g = h
      BY <2>2, <3>1 DEF IdleHandler, Own, Working
    <3>2. CASE g # h
      <4>1. handler'[g] = handler[g] /\ Own(g)
        BY <2>2, <3>2, IInvIsOwn DEF MovesOnly, IInv, TypeOK
      <4> QED BY <2>1, <4>1 DEF Own, Working
    <3> QED BY <3>1, <3>2
  <2> QED BY <1>1, <2>3 DEF IInv, Own, KeepsToItsPorts, CopyIsDue, OldConfigIsAtHand
<1>7. CASE Commit(h)
  <2>1. Working(h) /\ Returns(h)
    BY <1>7 DEF Commit, Working
  <2>2. OnlyPort(h, r.port)
    BY <1>1, <1>7, FilesOnly DEF Commit
  <2> QED BY <1>1, <2>1, <2>2, ReturnedStep
<1> QED BY <1>2, <1>3, <1>4, <1>5, <1>6, <1>7 DEF Handle

LEMMA HAProxyStep ==
  ASSUME IInv, HAProxyLoads
  PROVE  IInv'
<1>1. TypeOK'
  BY TypeStep DEF IInv, Next
<1> QED BY <1>1 DEF HAProxyLoads, IInv, KeepsToItsPorts, Working, CopyIsDue, OldConfigIsAtHand

LEMMA CrashStep ==
  ASSUME IInv, Crash
  PROVE  IInv'
<1>1. TypeOK'
  BY TypeStep DEF IInv, Next
<1>2. \A h \in Handlers : handler'[h].at = "idle"
  BY DEF Crash, IdleHandler
<1> QED BY <1>1, <1>2 DEF IInv, KeepsToItsPorts, Working, CopyIsDue, OldConfigIsAtHand

LEMMA InitInv ==
  ASSUME Init
  PROVE  IInv
<1>1. \A h \in Handlers : handler[h].at = "idle"
  BY DEF Init, IdleHandler
<1> QED BY <1>1, TypeInit DEF IInv, KeepsToItsPorts, Working, CopyIsDue, OldConfigIsAtHand

LEMMA InvStep ==
  ASSUME OneManagerPerPort, IInv, [Next]_vars
  PROVE  IInv'
<1>1. CASE UNCHANGED vars
  BY <1>1 DEF vars, haproxy, IInv, TypeOK, KeepsToItsPorts, Working, CopyIsDue, OldConfigIsAtHand
<1> QED BY <1>1, RequestStep, HandleStep, HAProxyStep, CrashStep DEF Next

-----------------------------------------------------------------------------
(* When no port is managed by two clients, a request that is to undo its    *)
(* change (service.go:146, 154, 190, 194) finds in the .bak what the file   *)
(* was before it, after any number of torn writes, failed renames and       *)
(* reloads and crashes, its own predecessors' included.                    *)
THEOREM OldConfigKept ==
  ASSUME OneManagerPerPort
  PROVE  Spec => []OldConfigIsAtHand
<1>1. Init => IInv
  BY InitInv
<1>2. IInv /\ [Next]_vars => IInv'
  BY InvStep
<1>3. IInv => OldConfigIsAtHand
  BY DEF IInv
<1> QED BY <1>1, <1>2, <1>3, PTL DEF Spec

-----------------------------------------------------------------------------
(* Any number of clients, who may change each other's ports, but nothing    *)
(* that fails: then each change of a file is followed by a reload.         *)
NothingFails ==
  /\ BadConfigs = {} /\ MaxFaults = 0
  /\ MaxFileFaults = 0 /\ MaxTornWrites = 0 /\ MaxCrashes = 0

WholeFiles == \A p \in Ports : file[p] # Torn /\ backup[p] # Torn

SoundHandler(r) ==
  r.content \in Configs \cup {None} /\ r.before # Torn /\ r.at # "undo"

(* The places from which a request goes on to a reload. *)
Reloads == {"write", "reload", "undo_verified", "reload_again"}
ReloadDue == reloading \/ \E h \in Handlers : handler[h].at \in Reloads

ServedInv ==
  /\ TypeOK /\ WholeFiles
  /\ \A h \in Handlers : SoundHandler(handler[h])
  /\ ReloadDue \/ \A p \in Ports : served[p] = Section(file[p])

LEMMA NothingHappens ==
  ASSUME TypeOK, NothingFails
  PROVE  ~WriteFails /\ ~FileFault /\ ~Fault /\ ~Crash
BY DEF TypeOK, NothingFails, WriteFails, FileFault, Fault, Crash

LEMMA ReloadsPass ==
  ASSUME ServedInv, NothingFails
  PROVE  AllPass /\ ~ReloadFails
<1>1. AllPass
  BY DEF ServedInv, WholeFiles, NothingFails, AllPass, Refused
<1> QED BY <1>1, NothingHappens DEF ReloadFails, ServedInv

(* The step of a handler that leaves a reload due, or the files alone.      *)
LEMMA ServedStep ==
  ASSUME ServedInv, TypeOK', NEW h \in Handlers, NEW state,
         HandlerGoes(h, state), SoundHandler(state), WholeFiles',
         \/ reloading' \/ state.at \in Reloads
         \/ UNCHANGED <<file, haproxy>> /\ handler[h].at \notin Reloads
  PROVE  ServedInv'
<1>1. handler' = [handler EXCEPT ![h] = state] /\ handler \in [Handlers -> HandlerState]
  BY DEF HandlerGoes, ServedInv, TypeOK
<1>2. \A g \in Handlers : SoundHandler(handler'[g])
  BY <1>1 DEF ServedInv
<1>3. handler'[h] = state /\ \A g \in Handlers \ {h} : handler'[g] = handler[g]
  BY <1>1
<1>4. ReloadDue' \/ \A p \in Ports : served'[p] = Section(file'[p])
  <2>1. CASE reloading' \/ state.at \in Reloads
    BY <1>3, <2>1 DEF ReloadDue
  <2>2. CASE UNCHANGED <<file, haproxy>> /\ handler[h].at \notin Reloads
    <3>1. ReloadDue => ReloadDue'
      BY <1>3, <2>2 DEF ReloadDue, haproxy
    <3> QED BY <2>2, <3>1 DEF ServedInv, haproxy
  <2> QED BY <2>1, <2>2
<1> QED BY <1>2, <1>4 DEF ServedInv, SoundHandler

LEMMA HandleServed ==
  ASSUME NothingFails, ServedInv, TypeOK', NEW h \in Handlers, Handle(h)
  PROVE  ServedInv'
<1> DEFINE r == handler[h]
<1>1. /\ TypeOK /\ WholeFiles /\ SoundHandler(r) /\ r \in HandlerState /\ r.port \in Ports
      /\ file \in [Ports -> Contents] /\ backup \in [Ports -> Contents]
  BY DEF ServedInv, TypeOK, HandlerState
<1>2. ~WriteFails /\ ~FileFault /\ ~Fault /\ ~ReloadFails
  BY <1>1, NothingHappens, ReloadsPass
<1>3. ASSUME NEW at \in HandlerPCs \ {"undo"}, Goes(h, at), WholeFiles',
             \/ reloading' \/ at \in Reloads
             \/ UNCHANGED <<file, haproxy>> /\ r.at \notin Reloads
      PROVE  ServedInv'
  <2> DEFINE state == [r EXCEPT !.at = at]
  <2>1. HandlerGoes(h, state)
    BY <1>3 DEF Goes, HandlerGoes
  <2>2. SoundHandler(state) /\ state.at = at
    BY <1>1, <1>3 DEF SoundHandler, HandlerState
  <2> HIDE DEF state
  <2> QED BY <1>3, <2>1, <2>2, ServedStep
<1>4. ASSUME Returns(h), WholeFiles',
             reloading' \/ (UNCHANGED <<file, haproxy>> /\ r.at \notin Reloads)
      PROVE  ServedInv'
  <2>1. SoundHandler(IdleHandler)
    BY ParameterAssumption DEF SoundHandler, IdleHandler
  <2> QED BY <1>4, <2>1, ServedStep DEF Returns
<1>5. ASSUME NEW content, content # Torn
      PROVE  /\ PutFile(r.port, content) /\ UNCHANGED backup => WholeFiles'
             /\ PutBackup(r.port, content) /\ UNCHANGED file => WholeFiles'
  BY <1>1, <1>5 DEF WholeFiles, PutFile, PutBackup
<1>6. UNCHANGED <<file, backup>> => WholeFiles'
  BY <1>1 DEF WholeFiles
<1>7. None # Torn /\ Empty # Torn /\ r.content # Torn
  BY <1>1, ParameterAssumption DEF SoundHandler
<1>8. CASE CopyOpen(h)
  <2>1. r.at = "copy" /\ UNCHANGED <<file, haproxy>>
    BY <1>8 DEF CopyOpen
  <2>2. CASE Returns(h) /\ UNCHANGED backup
    BY <1>4, <1>6, <2>1, <2>2 DEF Reloads
  <2>3. CASE /\ PutBackup(r.port, Empty)
             /\ HandlerGoes(h, [r EXCEPT !.at = "copy_write", !.before = file[r.port]])
    <3> DEFINE state == [r EXCEPT !.at = "copy_write", !.before = file[r.port]]
    <3>1. WholeFiles'
      BY <1>5, <1>7, <2>1, <2>3
    <3>2. state.content = r.content /\ state.before = file[r.port] /\ state.at = "copy_write"
      BY <1>1 DEF HandlerState
    <3>3. HandlerGoes(h, state)
      BY <2>3
    <3> HIDE DEF state
    <3>4. SoundHandler(state)
      BY <1>1, <3>2 DEF SoundHandler, WholeFiles
    <3> QED BY <2>1, <3>1, <3>3, <3>4, ServedStep DEF Reloads
  <2> QED BY <1>2, <1>8, <2>2, <2>3 DEF CopyOpen
<1>9. CASE CopyWrite(h)
  <2>1. /\ r.at = "copy_write" /\ UNCHANGED <<file, haproxy>>
        /\ \E content \in {r.before, file[r.port]} : PutBackup(r.port, content)
        /\ Goes(h, AfterCopy(r))
    BY <1>2, <1>9 DEF CopyWrite
  <2>2. WholeFiles'
    BY <1>1, <1>5, <2>1 DEF WholeFiles, SoundHandler
  <2>3. AfterCopy(r) \in {"remove", "truncate"}
    BY DEF AfterCopy
  <2> QED BY <1>3, <2>1, <2>2, <2>3 DEF Reloads, HandlerPCs
<1>10. CASE Truncate(h)
  <2>1. PutFile(r.port, Empty) /\ Goes(h, "write") /\ UNCHANGED backup
    BY <1>2, <1>10 DEF Truncate
  <2> QED BY <1>3, <1>5, <1>7, <2>1 DEF Reloads, HandlerPCs
<1>11. CASE Write(h)
  <2>1. PutFile(r.port, r.content) /\ Goes(h, "reload") /\ UNCHANGED backup
    BY <1>2, <1>11 DEF Write
  <2> QED BY <1>3, <1>5, <1>7, <2>1 DEF Reloads, HandlerPCs
<1>12. CASE Remove(h)
  <2>1. r.at = "remove" /\ UNCHANGED <<backup, haproxy>>
    BY <1>12 DEF Remove
  <2>2. CASE Returns(h) /\ UNCHANGED file
    BY <1>4, <1>6, <2>1, <2>2 DEF Reloads
  <2>3. CASE PutFile(r.port, None) /\ Goes(h, "reload")
    BY <1>3, <1>5, <1>7, <2>1, <2>3 DEF Reloads, HandlerPCs
  <2> QED BY <1>2, <1>12, <2>2, <2>3 DEF Remove
<1>13. CASE Reload(h)
  <2>1. reloading' /\ Goes(h, "verify") /\ UNCHANGED <<file, backup>>
    BY <1>2, <1>13 DEF Reload, ReloadSucceeds
  <2> QED BY <1>3, <1>6, <2>1 DEF HandlerPCs
<1>14. CASE Verify(h)
  <2>1. /\ r.at = "verify" /\ UNCHANGED <<file, backup, haproxy>>
        /\ Returns(h) \/ \E at \in {"commit", "undo_verified"} : Goes(h, at)
    BY <1>14 DEF Verify
  <2> QED BY <1>3, <1>4, <1>6, <2>1 DEF Reloads, HandlerPCs
<1>15. CASE Undo(h)
  <2>1. r.at = "undo_verified" /\ Goes(h, "reload_again") /\ PutBack(r)
    BY <1>1, <1>2, <1>15 DEF Undo, SoundHandler
  <2>2. WholeFiles'
    BY <1>1, <1>7, <2>1 DEF PutBack, RenameBackup, PutFile, PutBackup, WholeFiles
  <2> QED BY <1>3, <2>1, <2>2 DEF Reloads, HandlerPCs
<1>16. CASE ReloadAgain(h)
  <2>1. reloading' /\ Returns(h) /\ UNCHANGED <<file, backup>>
    BY <1>2, <1>16 DEF ReloadAgain, ReloadSucceeds
  <2> QED BY <1>4, <1>6, <2>1
<1>17. CASE Commit(h)
  <2>1. /\ r.at = "commit" /\ PutBackup(r.port, None) /\ Returns(h)
        /\ UNCHANGED <<file, haproxy>>
    BY <1>2, <1>17 DEF Commit
  <2> QED BY <1>4, <1>5, <1>7, <2>1 DEF Reloads
<1> QED BY <1>8, <1>9, <1>10, <1>11, <1>12, <1>13, <1>14, <1>15, <1>16, <1>17
        DEF Handle

LEMMA RequestServed ==
  ASSUME ServedInv, TypeOK', NEW h \in Handlers, Request(h)
  PROVE  ServedInv'
<1>1. /\ handler[h].at = "idle" /\ UNCHANGED <<file, backup, haproxy>>
      /\ handler[h] \in HandlerState /\ SoundHandler(handler[h])
  BY DEF Request, CreateRequest, DeleteRequest, ReloadRequest, ServedInv, TypeOK
<1>2. WholeFiles'
  BY <1>1 DEF ServedInv, WholeFiles
<1>3. ASSUME NEW p \in Ports, NEW content \in Configs \cup {None}, NEW backedUp \in BOOLEAN,
             Accept(h, p, content, backedUp)
      PROVE  ServedInv'
  <2> DEFINE state == Accepted(p, content, backedUp)
  <2>1. HandlerGoes(h, state)
    BY <1>3 DEF Accept, Accepted
  <2>2. SoundHandler(state)
    BY DEF SoundHandler, Accepted, ServedInv, WholeFiles
  <2> HIDE DEF state
  <2> QED BY <1>1, <1>2, <2>1, <2>2, ServedStep DEF Reloads
<1>4. CASE ReloadRequest(h)
  <2> DEFINE state == [handler[h] EXCEPT !.at = "reload_only"]
  <2>1. HandlerGoes(h, state)
    BY <1>4 DEF ReloadRequest, Goes, HandlerGoes
  <2>2. SoundHandler(state)
    BY <1>1 DEF SoundHandler, HandlerState
  <2> HIDE DEF state
  <2> QED BY <1>1, <1>2, <2>1, <2>2, ServedStep DEF Reloads
<1>5. Manages[h] \subseteq Ports
  BY ParameterAssumption
<1>6. \A p \in Ports : (file[p] # None) \in BOOLEAN
  OBVIOUS
<1> QED BY <1>3, <1>4, <1>5, <1>6 DEF Request, CreateRequest, DeleteRequest

LEMMA ServedInvStep ==
  ASSUME NothingFails, ServedInv, [Next]_vars
  PROVE  ServedInv'
<1>1. TypeOK'
  BY TypeStep DEF ServedInv
<1>2. CASE HAProxyLoads
  <2>1. UNCHANGED <<file, backup, handler>> /\ served' = [p \in Ports |-> Section(file[p])]
    BY <1>2, ReloadsPass DEF HAProxyLoads
  <2>2. \A p \in Ports : served'[p] = Section(file'[p])
    BY <2>1
  <2> QED BY <1>1, <2>1, <2>2 DEF ServedInv, WholeFiles
<1>3. CASE UNCHANGED vars
  BY <1>1, <1>3 DEF vars, haproxy, ServedInv, WholeFiles, ReloadDue
<1>4. ~Crash
  BY NothingHappens DEF ServedInv
<1> QED BY <1>1, <1>2, <1>3, <1>4, HandleServed, RequestServed DEF Next

(* While HAProxy accepts what the clients ask for and nothing fails, it     *)
(* serves what is on disk whenever no request is being worked on and no    *)
(* reload is due: any number of clients may create, update and delete the  *)
(* same ports at once, and undo what another has done.                     *)
THEOREM ServedFollowsDisk ==
  ASSUME NothingFails
  PROVE  Spec => []ServedIsOnDisk
<1>1. Init => ServedInv
  <2>1. ASSUME Init
        PROVE  WholeFiles /\ (\A h \in Handlers : SoundHandler(handler[h]))
               /\ \A p \in Ports : served[p] = Section(file[p])
    BY <2>1, ParameterAssumption DEF Init, WholeFiles, SoundHandler, IdleHandler, Section
  <2> QED BY <2>1, TypeInit DEF ServedInv
<1>2. ServedInv => ServedIsOnDisk
  BY DEF ServedInv, ReloadDue, Reloads, ServedIsOnDisk
<1> QED BY <1>1, <1>2, ServedInvStep, PTL DEF Spec
=============================================================================
