---------------------------- MODULE HAProxyTenants ----------------------------
(***************************************************************************)
(* The HAProxy tenant service (internal/haproxy/service.go): one file per   *)
(* port in the tenants directory, a .bak beside it while a request works   *)
(* on the port, and a reload command.  There is no lock: a request is a    *)
(* sequence of actions, cut at every operation on a file and at the reload *)
(* command.                                                                *)
(*                                                                         *)
(* HAProxy is external.  The installed reload command checks all the files *)
(* (haproxy -c) and then signals the master process, which reads the files *)
(* again when it gets to it; it keeps its old workers when they no longer  *)
(* pass.  A worker listens on a port when the port's file has a section.   *)
(***************************************************************************)
EXTENDS Integers

CONSTANTS
  Ports,
  Configs,      \* contents CreateConfig can build
  BadConfigs,   \* those HAProxy refuses, as with a host that does not resolve
  None,         \* no file
  Empty, Torn,  \* a file before, and after part of, a write
  Handlers,     \* HTTP requests the server works on at a time
  Manages,      \* the ports that the client behind a handler manages
  MaxRequests,
  MaxFaults,      \* bound: reloads and looks at /proc that fail
  MaxFileFaults,  \* bound: renames and removals of a file that fail
  MaxTornWrites,  \* bound: writes that fail
  MaxCrashes      \* bound

ASSUME ParameterAssumption ==
  /\ Ports # {} /\ Configs # {} /\ BadConfigs \subseteq Configs
  /\ {None, Empty, Torn} \cap Configs = {}
  /\ None # Empty /\ None # Torn /\ Empty # Torn
  /\ Manages \in [Handlers -> SUBSET Ports]
ASSUME BoundAssumption ==
  /\ MaxRequests \in Nat /\ MaxFaults \in Nat /\ MaxFileFaults \in Nat
  /\ MaxTornWrites \in Nat /\ MaxCrashes \in Nat

Contents == Configs \cup {None, Empty, Torn}
Refused == BadConfigs \cup {Torn}

(* backup is "" in the code when backedUp is FALSE; before is the file as   *)
(* the request found it, by its stat or when it opened it to copy it.      *)
HandlerPCs == {"idle", "copy", "copy_write", "truncate", "write", "remove",
               "reload", "verify", "undo", "undo_verified", "reload_again",
               "commit", "reload_only"}
HandlerState == [at : HandlerPCs, port : Ports, content : Contents,
                 backedUp : BOOLEAN, before : Contents]

AnyPort == CHOOSE p \in Ports : TRUE
IdleHandler == [at |-> "idle", port |-> AnyPort, content |-> None,
                backedUp |-> FALSE, before |-> None]

VARIABLES
  file, backup,  \* <port>.cfg and <port>.cfg.bak
  served,        \* what the HAProxy worker was started with, None: not listening
  reloading,     \* HAProxy was signalled and has not read the files yet
  handler,
  used           \* the bounds' counters

haproxy == <<served, reloading>>
vars == <<file, backup, haproxy, handler, used>>

(* A request has a backup when it found a file, and only then. *)
BackupFound(r) ==
  /\ r.backedUp <=> r.before # None
  /\ r.at \in {"copy", "copy_write", "remove", "commit"} => r.backedUp

(* The variables hold what the code and HAProxy can put there; a worker     *)
(* never runs with contents that HAProxy refuses, and a request that found  *)
(* no file has nothing to restore and removes none (service.go:117, 174).  *)
TypeOK ==
  /\ file \in [Ports -> Contents]
  /\ backup \in [Ports -> Contents]
  /\ served \in [Ports -> (Configs \ BadConfigs) \cup {None}]
  /\ reloading \in BOOLEAN
  /\ handler \in [Handlers -> HandlerState]
  /\ \A h \in Handlers : BackupFound(handler[h])
  /\ used \in [requests : Nat, faults : Nat, files : Nat, torn : Nat, crashes : Nat]

Init ==
  /\ file = [p \in Ports |-> None]
  /\ backup = [p \in Ports |-> None]
  /\ served = [p \in Ports |-> None]
  /\ reloading = FALSE
  /\ handler = [h \in Handlers |-> IdleHandler]
  /\ used = [requests |-> 0, faults |-> 0, files |-> 0, torn |-> 0, crashes |-> 0]

-----------------------------------------------------------------------------
(* Files.  Below, some definitions the properties guard are preceded by the *)
(* slips they tell from it (the mutants of PROJECT.json; nothing else       *)
(* refers to them).                                                        *)
PutFile(p, content) == file' = [file EXCEPT ![p] = content]
PutBackup(p, content) == backup' = [backup EXCEPT ![p] = content]

(* os.Rename(backup, filename), which fails when there is no backup. *)
RenameBackup(p) ==
  IF backup[p] = None THEN UNCHANGED <<file, backup>>
                      ELSE PutFile(p, backup[p]) /\ PutBackup(p, None)

(* A full disk, or the like, ends a write early. *)
WriteFails ==
  /\ used.torn < MaxTornWrites
  /\ used' = [used EXCEPT !.torn = @ + 1]

(* os.Rename or os.Remove fails although the file is there. *)
FileFault ==
  /\ used.files < MaxFileFaults
  /\ used' = [used EXCEPT !.files = @ + 1]

(* A reload or a look at /proc fails for a reason outside the files. *)
Fault ==
  /\ used.faults < MaxFaults
  /\ used' = [used EXCEPT !.faults = @ + 1]

-----------------------------------------------------------------------------
(* HAProxy and the reload command. *)
AllPass == \A p \in Ports : file[p] \notin Refused

Section(content) == IF content \in Configs THEN content ELSE None

HAProxyLoads ==
  /\ reloading
  /\ reloading' = FALSE
  /\ served' = IF AllPass THEN [p \in Ports |-> Section(file[p])] ELSE served
  /\ UNCHANGED <<file, backup, handler, used>>

ReloadSucceeds == AllPass /\ reloading' = TRUE /\ UNCHANGED <<served, used>>

(* Refused by the check, or killed at the timeout or when the client goes  *)
(* away: sudo and systemd may have sent the signal all the same.           *)
ReloadFails ==
  \/ ~AllPass /\ UNCHANGED <<haproxy, used>>
  \/ /\ Fault
     /\ reloading' \in {reloading, reloading \/ AllPass}
     /\ UNCHANGED served

-----------------------------------------------------------------------------
(* The requests. *)
HandlerGoes(h, state) == handler' = [handler EXCEPT ![h] = state]
Goes(h, at) == handler' = [handler EXCEPT ![h].at = at]
Returns(h) == HandlerGoes(h, IdleHandler)

Requested ==
  /\ used.requests < MaxRequests
  /\ used' = [used EXCEPT !.requests = @ + 1]

(* Validation and the stat of the file come first. *)
Accept(h, p, content, backedUp) ==
  HandlerGoes(h, [at |-> IF backedUp THEN "copy" ELSE "truncate",
                  port |-> p, content |-> content,
                  backedUp |-> backedUp, before |-> file[p]])

CreateRequest(h) ==
  /\ handler[h].at = "idle" /\ Requested
  /\ \E p \in Manages[h], c \in Configs : Accept(h, p, c, file[p] # None)
  /\ UNCHANGED <<file, backup, haproxy>>

DeleteUnseen(h) ==
  /\ handler[h].at = "idle" /\ Requested
  /\ \E p \in Manages[h] : Accept(h, p, None, TRUE)
  /\ UNCHANGED <<file, backup, haproxy>>
DeleteRequest(h) ==
  /\ handler[h].at = "idle" /\ Requested
  /\ \E p \in Manages[h] : file[p] # None /\ Accept(h, p, None, TRUE)
  /\ UNCHANGED <<file, backup, haproxy>>

ReloadRequest(h) ==
  /\ handler[h].at = "idle" /\ Requested
  /\ Goes(h, "reload_only")
  /\ UNCHANGED <<file, backup, haproxy>>

(* copyFile opens the file, which another request may have removed since    *)
(* the stat, truncates the copy and writes it; an error ends the request.   *)
(* What it reads is the file as it was opened or as it is by then.         *)
AfterCopy(r) == IF r.content = None THEN "remove" ELSE "truncate"
GoesOnWithoutCopy(h) == Goes(h, AfterCopy(handler[h]))
ReturnsWithoutCopy(h) == Returns(h)

CopyOpen(h) ==
  LET r == handler[h]
  IN  /\ r.at = "copy"
      /\ \/ file[r.port] = None /\ Returns(h) /\ UNCHANGED <<backup, used>>
         \/ /\ file[r.port] # None
            /\ PutBackup(r.port, Empty)
            /\ HandlerGoes(h, [r EXCEPT !.at = "copy_write", !.before = file[r.port]])
            /\ UNCHANGED used
         \/ WriteFails /\ ReturnsWithoutCopy(h) /\ UNCHANGED backup
      /\ UNCHANGED <<file, haproxy>>

CopyWrite(h) ==
  LET r == handler[h]
  IN  /\ r.at = "copy_write"
      /\ \/ /\ \E content \in {r.before, file[r.port]} \ {None} :
                 PutBackup(r.port, content)
            /\ Goes(h, AfterCopy(r))
            /\ UNCHANGED used
         \/ /\ WriteFails
            /\ \E content \in {Empty, Torn} : PutBackup(r.port, content)
            /\ ReturnsWithoutCopy(h)
      /\ UNCHANGED <<file, haproxy>>

(* os.WriteFile: open and truncate, then write.  An error returns at once. *)
Truncate(h) ==
  LET r == handler[h]
  IN  /\ r.at = "truncate"
      /\ \/ PutFile(r.port, Empty) /\ Goes(h, "write") /\ UNCHANGED used
         \/ WriteFails /\ Returns(h) /\ UNCHANGED file
      /\ UNCHANGED <<backup, haproxy>>

Write(h) ==
  LET r == handler[h]
  IN  /\ r.at = "write"
      /\ \/ PutFile(r.port, r.content) /\ Goes(h, "reload") /\ UNCHANGED used
         \/ /\ WriteFails
            /\ \E content \in {Empty, Torn} : PutFile(r.port, content)
            /\ Returns(h)
      /\ UNCHANGED <<backup, haproxy>>

(* os.Remove fails, too, when another request removed the file. *)
Remove(h) ==
  LET r == handler[h]
  IN  /\ r.at = "remove"
      /\ \/ file[r.port] = None /\ Returns(h) /\ UNCHANGED <<file, used>>
         \/ /\ file[r.port] # None
            /\ PutFile(r.port, None)
            /\ Goes(h, "reload")
            /\ UNCHANGED used
         \/ FileFault /\ Returns(h) /\ UNCHANGED file
      /\ UNCHANGED <<backup, haproxy>>

Reload(h) ==
  /\ handler[h].at = "reload"
  /\ \/ ReloadSucceeds /\ Goes(h, "verify")
     \/ ReloadFails /\ Goes(h, "undo")
  /\ UNCHANGED <<file, backup>>

(* waitForPortState: a create waits until the port listens, a delete until *)
(* it does not, for five seconds, less than a reload may take.             *)
Verified(r) == IF r.content = None THEN served[r.port] = None
                                   ELSE served[r.port] # None

Verify(h) ==
  LET r == handler[h]
  IN  /\ r.at = "verify"
      /\ \/ /\ Verified(r)
            /\ IF r.backedUp THEN Goes(h, "commit") ELSE Returns(h)
            /\ UNCHANGED used
         \/ ~Verified(r) /\ Goes(h, "undo_verified") /\ UNCHANGED used
         \/ Fault /\ Goes(h, "undo_verified")
      /\ UNCHANGED <<file, backup, haproxy>>

(* The old file comes back, or the new one goes, unless the rename or the   *)
(* removal fails, which is ignored; after a reload that reported failure    *)
(* HAProxy is left alone.                                                  *)
PutBackOldOnly(r) ==
  IF r.backedUp THEN RenameBackup(r.port) ELSE UNCHANGED <<file, backup>>
RemoveNew(r) == PutFile(r.port, None) /\ UNCHANGED backup
PutBack(r) ==
  IF r.backedUp THEN RenameBackup(r.port)
                ELSE PutFile(r.port, None) /\ UNCHANGED backup

UndoOnDisk(h) ==
  /\ handler[h].at \in {"undo", "undo_verified"}
  /\ PutBack(handler[h])
  /\ Returns(h)
  /\ UNCHANGED <<haproxy, used>>
Undo(h) ==
  LET r == handler[h]
  IN  /\ r.at \in {"undo", "undo_verified"}
      /\ \/ PutBack(r) /\ UNCHANGED used
         \/ FileFault /\ UNCHANGED <<file, backup>>
      /\ IF r.at = "undo" THEN Returns(h) ELSE Goes(h, "reload_again")
      /\ UNCHANGED haproxy

(* The second reload, whose error is ignored, or the reload a client asked *)
(* for: nothing follows it.                                                *)
ReloadAgain(h) ==
  /\ handler[h].at \in {"reload_again", "reload_only"}
  /\ ReloadSucceeds \/ ReloadFails
  /\ Returns(h)
  /\ UNCHANGED <<file, backup>>

(* The error of this removal is ignored, too. *)
Commit(h) ==
  /\ handler[h].at = "commit"
  /\ \/ PutBackup(handler[h].port, None) /\ UNCHANGED used
     \/ FileFault /\ UNCHANGED backup
  /\ Returns(h)
  /\ UNCHANGED <<file, haproxy>>

Handle(h) ==
  \/ CopyOpen(h) \/ CopyWrite(h) \/ Truncate(h) \/ Write(h) \/ Remove(h)
  \/ Reload(h) \/ Verify(h) \/ Undo(h) \/ ReloadAgain(h) \/ Commit(h)

Request(h) == CreateRequest(h) \/ DeleteRequest(h) \/ ReloadRequest(h)

(* The API process dies between two operations and is started again. *)
Crash ==
  /\ used.crashes < MaxCrashes
  /\ used' = [used EXCEPT !.crashes = @ + 1]
  /\ handler' = [h \in Handlers |-> IdleHandler]
  /\ UNCHANGED <<file, backup, haproxy>>

Next ==
  \/ \E h \in Handlers : Handle(h) \/ Request(h)
  \/ HAProxyLoads
  \/ Crash

Spec == Init /\ [][Next]_vars

-----------------------------------------------------------------------------
(* When no request is being worked on, and no crash, torn write or failed   *)
(* rename or removal came in between, every file on disk passes HAProxy's   *)
(* check, so that the next reload, of whichever tenant, can succeed: a      *)
(* request that put a refused file there has taken it back.                *)
RestIsServable ==
  /\ used.torn = 0 /\ used.files = 0 /\ used.crashes = 0
  /\ \A h \in Handlers : handler[h].at = "idle"
  => \A p \in Ports : file[p] \notin Refused

(* From the first change of a file to the answer, its .bak holds what the   *)
(* file was when the request came: whatever torn writes, leftover copies    *)
(* and crashes went before, it is that content which the undo renames into  *)
(* place (service.go:146, 154, 190, 194).                                  *)
OldConfigIsAtHand ==
  \A h \in Handlers :
    LET r == handler[h]
    IN  r.backedUp /\ r.at \in {"truncate", "write", "remove", "reload",
                                "verify", "undo", "undo_verified"}
        => backup[r.port] = r.before

(* When no request is being worked on and no reload is due, HAProxy serves  *)
(* what the files say: no order of writes, undos and reloads leaves a       *)
(* change behind that no reload follows.                                   *)
ServedIsOnDisk ==
  (\A h \in Handlers : handler[h].at = "idle") /\ ~reloading
  => \A p \in Ports : served[p] = Section(file[p])

(* A request is in doubt until it verified its change, or has undone it; a  *)
(* port keeps its entry in the table until then.                           *)
InDoubt(h) ==
  handler[h].at \in HandlerPCs \ {"idle", "commit", "reload_again", "reload_only"}

Table == [p \in Ports |->
            IF \E h \in Handlers : InDoubt(h) /\ handler[h].port = p
            THEN handler[CHOOSE h \in Handlers : InDoubt(h) /\ handler[h].port = p].before
            ELSE file[p]]

Asked == {[client |-> h, port |-> handler[h].port, content |-> handler[h].content] :
            h \in {h \in Handlers : InDoubt(h)}}

Promise == INSTANCE TenantTable
             WITH Clients <- Handlers, Damaged <- {Empty, Torn},
                  table <- Table, asked <- Asked

(* The service keeps the promise of TenantTable: creates, updates and       *)
(* deletes take effect completely or, when the reload or its verification   *)
(* fails, not at all, although each is several steps on files; and a crash, *)
(* a torn write or an undo that fails harms only the ports being worked on. *)
ImplementsTable == Promise!Spec
=============================================================================
