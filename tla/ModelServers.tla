---------------------------- MODULE ModelServers ----------------------------
(***************************************************************************)
(* The models that run in a subprocess: the manager of the chat model      *)
(* (model_manager.py), the requests that lease it (api/chat.py,            *)
(* api/minutes.py), the translator of a live session (core/pipeline.py),   *)
(* and the llama-server each of them starts, records in a file, reclaims   *)
(* and stops (core/llama_server.py).                                       *)
(*                                                                         *)
(* A host is a backend object that may hold one server: the chat backends  *)
(* that follow one another in the manager, and one translator per session. *)
(* A step runs from one suspension of its coroutine to the next.  The time *)
(* a model has been idle is not counted: the reaper may come at any time.  *)
(***************************************************************************)
EXTENDS Naturals, Sequences, FiniteSets, SequencesExt

CONSTANTS
    Requests,       \* chat questions, title suggestions, minutes jobs
    Sessions,       \* live sessions with a local translator
    MaxSwaps,       \* bound: swaps of the chat backend, each makes a new object
    MaxEvents,      \* bound: swaps and faults together
    MaxServers,     \* bound: processes spawned
    MaxFaults,      \* bound: the engine killed, a server exiting
    StartAttempts   \* START_ATTEMPTS

ASSUME ModelServersAssumption ==
    /\ MaxSwaps \in Nat /\ MaxEvents \in Nat /\ MaxServers \in Nat /\ MaxFaults \in Nat
    /\ StartAttempts \in Nat \ {0}
    /\ Requests \cap Sessions = {}
    /\ (Requests \cup Sessions) \cap Nat = {}
    /\ "swap" \notin Requests

VARIABLES
    engine,     \* "up", "down", or "reclaiming" in its lifespan
    backend,    \* the manager's chat backend, 0 when the feature is off
    loaded,     \* _chat_loaded
    lock,       \* _chat_lock: its holder, then its waiters
    swaps, faults,
    request,    \* what each request is doing
    session,    \* what each live session does with its translator
    endpoint,   \* the server each host holds, 0 for none
    boot, halt, \* a start and a stop under way, per host
    os,         \* every process ever spawned
    file,       \* the state file of each label: the server it names, or 0
    left, owed  \* alive when the engine was killed; answering and on file then

managerVars == <<backend, loaded, lock, swaps>>
vars == <<engine, managerVars, faults, request, session, endpoint, boot, halt,
          os, file, left, owed>>

ChatHosts == 1..MaxSwaps + 1
Hosts == ChatHosts \cup Sessions
Servers == 1..MaxServers
Labels == {"chat", "translator"}
Label(h) == IF h \in ChatHosts THEN "chat" ELSE "translator"
None == 0
Engine == MaxSwaps + 2   \* the lifespan, which reclaims before it serves
Swap == "swap"      \* the handler that replaces the backend

InBounds == swaps + faults < MaxEvents
Live(s) == s # None /\ os[s] \in {"starting", "up"}

(* lease: does the request hold one; host and server: what it asks.         *)
RequestPc == {"idle", "ask", "lock", "load", "gap", "using",
              "done", "refused", "failed", "crashed"}
Ends == {"done", "refused", "failed", "crashed"}
Fresh == [pc |-> "idle", lease |-> FALSE, host |-> None, server |-> None]

NoBoot == [pc |-> "off", todo |-> {}, label |-> "chat", sees |-> None,
           server |-> None, tries |-> 0]
NoHalt == [pc |-> "off", server |-> None]
BootPc == {"off", "reclaim", "kill", "spawn", "record", "wait", "stop", "clear",
           "opened", "raised"}

TypeOK ==
    /\ engine \in {"up", "down", "reclaiming"}
    /\ backend \in ChatHosts \cup {None} /\ loaded \in BOOLEAN
    /\ lock \in Seq(Requests \cup {Swap})
    /\ \A i, j \in DOMAIN lock : lock[i] = lock[j] => i = j
    /\ swaps \in 0..MaxSwaps /\ faults \in 0..MaxFaults
    /\ request \in [Requests -> [pc : RequestPc, lease : BOOLEAN,
                        host : ChatHosts \cup {None}, server : Servers \cup {None}]]
    /\ session \in [Sessions -> {"new", "loading", "on", "abandoned", "ended"}]
    /\ endpoint \in [Hosts -> Servers \cup {None}]
    /\ boot \in [Hosts \cup {Engine} -> [pc : BootPc, todo : SUBSET Labels, label : Labels,
                     sees : Servers \cup {None}, server : Servers \cup {None},
                     tries : 0..StartAttempts]]
    /\ halt \in [Hosts -> [pc : {"off", "wait", "clear"}, server : Servers \cup {None}]]
    /\ os \in [Servers -> {"none", "starting", "up", "stopped", "reclaimed", "exited"}]
    /\ file \in [Labels -> Servers \cup {None}]
    /\ left \subseteq Servers /\ owed \subseteq left

Init ==
    /\ engine = "up"
    /\ backend = 1 /\ loaded = FALSE /\ lock = <<>> /\ swaps = 0 /\ faults = 0
    /\ request = [r \in Requests |-> Fresh]
    /\ session = [s \in Sessions |-> "new"]
    /\ endpoint = [h \in Hosts |-> None]
    /\ boot = [h \in Hosts \cup {Engine} |-> NoBoot]
    /\ halt = [h \in Hosts |-> NoHalt]
    /\ os = [s \in Servers |-> "none"]
    /\ file = [l \in Labels |-> None]
    /\ left = {} /\ owed = {}

(***************************************************************************)
(* reclaim_orphans, in a thread: of the files there are, read one, ask the *)
(* port it names, kill what answers with 200 (a server that still reads    *)
(* its weights answers 503) and unlink the file, whatever it holds by now. *)
(***************************************************************************)
OnFile == {l \in Labels : file[l] # None}
Reclaiming == [NoBoot EXCEPT !.pc = "reclaim", !.todo = OnFile]

bootFrame == <<engine, managerVars, faults, request, session, endpoint, halt,
               left, owed>>

ReadFile(h) ==
    /\ boot[h].pc = "reclaim"
    /\ IF boot[h].todo = {}
       THEN boot' = [boot EXCEPT ![h].pc = IF h = Engine THEN "opened" ELSE "spawn"]
       ELSE LET l == IF "chat" \in boot[h].todo THEN "chat" ELSE "translator"
            IN boot' = [boot EXCEPT ![h].pc = "kill", ![h].todo = @ \ {l},
                                    ![h].label = l, ![h].sees = file[l]]
    /\ UNCHANGED <<bootFrame, os, file>>

KillAndUnlink(h) ==
    /\ boot[h].pc = "kill"
    /\ LET s == boot[h].sees
       IN os' = IF s # None /\ os[s] = "up" THEN [os EXCEPT ![s] = "reclaimed"] ELSE os
    /\ file' = [file EXCEPT ![boot[h].label] = None]
    /\ boot' = [boot EXCEPT ![h].pc = "reclaim", ![h].sees = None]
    /\ UNCHANGED bootFrame

(***************************************************************************)
(* LlamaServerProcess.start                                                *)
(***************************************************************************)
Unused == {s \in Servers : os[s] = "none"}

(* The process exists before anything about it is written down.            *)
Spawn(h) ==
    /\ boot[h].pc = "spawn"
    /\ \/ Unused = {} /\ boot' = [boot EXCEPT ![h].pc = "raised"] /\ UNCHANGED os
       \/ \E s \in Unused :
             /\ \A t \in Unused : s <= t
             /\ os' = [os EXCEPT ![s] = "starting"]
             /\ boot' = [boot EXCEPT ![h].pc = "record", ![h].server = s, ![h].tries = @ + 1]
    /\ UNCHANGED <<bootFrame, file>>

(* No model file, no binary, or one that cannot be run. *)
SpawnRaises(h) ==
    /\ boot[h].pc = "spawn" /\ boot[h].tries = 0
    /\ boot' = [boot EXCEPT ![h].pc = "raised"]
    /\ UNCHANGED <<bootFrame, os, file>>

Record(h) ==
    /\ boot[h].pc = "record"
    /\ file' = [file EXCEPT ![Label(h)] = boot[h].server]
    /\ boot' = [boot EXCEPT ![h].pc = "wait"]
    /\ UNCHANGED <<bootFrame, os>>

SeesReady(h) ==
    /\ boot[h].pc = "wait" /\ os[boot[h].server] = "up"
    /\ boot' = [boot EXCEPT ![h].pc = "opened"]
    /\ UNCHANGED <<bootFrame, os, file>>

(* LlamaServerExited: stop() has only the file to remove, then once more.  *)
SeesExit(h) ==
    /\ boot[h].pc = "wait" /\ ~Live(boot[h].server)
    /\ file' = [file EXCEPT ![Label(h)] = None]
    /\ boot' = [boot EXCEPT ![h].pc = IF boot[h].tries < StartAttempts THEN "spawn" ELSE "raised",
                            ![h].server = None]
    /\ UNCHANGED <<bootFrame, os>>

(* Not ready in time, or whoever waited was cancelled: stop it, and raise.  *)
(* Mutant: the exception alone. *)
GivesUpAtOnce(h) ==
    /\ boot[h].pc = "wait" /\ os[boot[h].server] = "starting"
    /\ boot' = [boot EXCEPT ![h].pc = "raised", ![h].server = None]
    /\ UNCHANGED <<bootFrame, os, file>>
GivesUp(h) ==
    /\ boot[h].pc = "wait" /\ os[boot[h].server] = "starting"
    /\ boot' = [boot EXCEPT ![h].pc = "stop"]
    /\ UNCHANGED <<bootFrame, os, file>>

Terminated(s) == IF Live(s) THEN [os EXCEPT ![s] = "stopped"] ELSE os

StopStarted(h) ==
    \/ /\ boot[h].pc = "stop"
       /\ os' = Terminated(boot[h].server)
       /\ boot' = [boot EXCEPT ![h].pc = "clear", ![h].server = None]
       /\ UNCHANGED <<bootFrame, file>>
    \/ /\ boot[h].pc = "clear"
       /\ file' = [file EXCEPT ![Label(h)] = None]
       /\ boot' = [boot EXCEPT ![h].pc = "raised"]
       /\ UNCHANGED <<bootFrame, os>>

BootStep(h) == Spawn(h) \/ SpawnRaises(h) \/ Record(h) \/ SeesReady(h) \/ SeesExit(h)
               \/ GivesUp(h) \/ StopStarted(h)

(***************************************************************************)
(* unload: the endpoint is forgotten at once; then the process is stopped   *)
(* and, when it is gone, the file of its label removed.  One stop of a host *)
(* is over before the next begins: fifteen idle minutes lie between them.   *)
(***************************************************************************)
BeginHalt(h) ==
    IF endpoint[h] = None THEN UNCHANGED <<endpoint, halt>>
    ELSE /\ halt[h].pc = "off"
         /\ endpoint' = [endpoint EXCEPT ![h] = None]
         /\ halt' = [halt EXCEPT ![h] = [pc |-> "wait", server |-> endpoint[h]]]

HaltStep(h) ==
    /\ \/ /\ halt[h].pc = "wait"
          /\ os' = Terminated(halt[h].server)
          /\ halt' = [halt EXCEPT ![h] = [pc |-> "clear", server |-> None]]
          /\ UNCHANGED file
       \/ /\ halt[h].pc = "clear"
          /\ file' = [file EXCEPT ![Label(h)] = None]
          /\ halt' = [halt EXCEPT ![h] = NoHalt]
          /\ UNCHANGED os
    /\ UNCHANGED <<engine, managerVars, faults, request, session, endpoint, boot,
          left, owed>>

(***************************************************************************)
(* ModelManager: ensure_chat_loaded on behalf of a request                 *)
(***************************************************************************)
Leases == {r \in Requests : request[r].lease}
Unlock == lock' = Tail(lock)
End(r, how) == request' = [request EXCEPT ![r] = [Fresh EXCEPT !.pc = how]]

(* What ensure_chat_loaded returns is the backend of this moment.  The      *)
(* check before the stream holds no lease and asks nothing.                 *)
Answered(r, held) ==
    request' = [request EXCEPT ![r] =
        IF ~request[r].lease THEN [Fresh EXCEPT !.pc = "gap"]
        ELSE IF backend = None \/ held = None THEN [Fresh EXCEPT !.pc = "failed"]
        ELSE [pc |-> "using", lease |-> TRUE, host |-> backend, server |-> held]]

requestFrame == <<engine, swaps, faults, session, halt, os, file, left, owed>>

(* A question is checked first; a title or minutes ask with their lease.    *)
Begin(r) ==
    /\ request[r].pc \in {"idle", "gap"}
    /\ \E lease \in IF request[r].pc = "gap" THEN {TRUE} ELSE BOOLEAN :
          request' = [request EXCEPT ![r] = [Fresh EXCEPT !.pc = "ask", !.lease = lease]]
    /\ UNCHANGED <<requestFrame, backend, loaded, lock, endpoint, boot>>

Ask(r) ==
    /\ request[r].pc = "ask"
    /\ \/ backend = None /\ End(r, "refused") /\ UNCHANGED lock
       \/ backend # None /\ loaded /\ Answered(r, endpoint[backend]) /\ UNCHANGED lock
       \/ /\ backend # None /\ ~loaded
          /\ request' = [request EXCEPT ![r].pc = "lock"]
          /\ lock' = Append(lock, r)
    /\ UNCHANGED <<requestFrame, backend, loaded, endpoint, boot>>

(* With the lock: what was true before the wait is not asked again, so the  *)
(* load may be called on no backend at all.                                 *)
HasLock(r) ==
    /\ request[r].pc = "lock" /\ Head(lock) = r
    /\ \/ loaded /\ Answered(r, endpoint[backend]) /\ Unlock /\ UNCHANGED boot
       \/ ~loaded /\ backend = None /\ End(r, "crashed") /\ Unlock /\ UNCHANGED boot
       \/ /\ ~loaded /\ backend # None
          /\ request' = [request EXCEPT ![r].pc = "load", ![r].host = backend]
          /\ boot' = [boot EXCEPT ![backend] = Reclaiming]
          /\ UNCHANGED lock
    /\ UNCHANGED <<requestFrame, backend, loaded, endpoint>>

LoadDone(r) ==
    /\ request[r].pc = "load" /\ boot[request[r].host].pc = "opened"
    /\ LET h == request[r].host
       IN /\ endpoint' = [endpoint EXCEPT ![h] = boot[h].server]
          /\ boot' = [boot EXCEPT ![h] = NoBoot]
          /\ Answered(r, boot[h].server)
    /\ loaded' = TRUE /\ Unlock
    /\ UNCHANGED <<requestFrame, backend>>

(* Mutant: the lock is taken without a with. *)
LoadRaisedLocked(r) ==
    /\ request[r].pc = "load" /\ boot[request[r].host].pc = "raised"
    /\ boot' = [boot EXCEPT ![request[r].host] = NoBoot]
    /\ End(r, "failed")
    /\ UNCHANGED <<requestFrame, backend, loaded, lock, endpoint>>
LoadRaised(r) ==
    /\ request[r].pc = "load" /\ boot[request[r].host].pc = "raised"
    /\ boot' = [boot EXCEPT ![request[r].host] = NoBoot]
    /\ End(r, "failed") /\ Unlock
    /\ UNCHANGED <<requestFrame, backend, loaded, endpoint>>

(* The client of a stream leaves while it waits for the lock. *)
Leave(r) ==
    /\ request[r].pc = "lock" /\ request[r].lease
    /\ End(r, "failed")
    /\ \E i \in DOMAIN lock : lock[i] = r /\ lock' = RemoveAt(lock, i)
    /\ UNCHANGED <<requestFrame, backend, loaded, endpoint, boot>>

(* The answer ends, well or because its server has gone; then the lease.    *)
Finish(r) ==
    /\ request[r].pc = "using"
    /\ End(r, IF os[request[r].server] = "up" THEN "done" ELSE "failed")
    /\ UNCHANGED <<requestFrame, managerVars, endpoint, boot>>

RequestStep(r) == Ask(r) \/ HasLock(r) \/ LoadDone(r) \/ LoadRaised(r) \/ Finish(r)
                  \/ (request[r].pc = "gap" /\ Begin(r))

(***************************************************************************)
(* The reaper, and the handlers that choose a model or switch chat off      *)
(***************************************************************************)
Unload(h) == BeginHalt(h) /\ loaded' = FALSE
swapFrame == <<engine, faults, request, session, boot, os, file, left, owed>>

(* Mutant: nobody asks who is at work. *)
ReapLeased ==
    /\ lock = <<>> /\ loaded
    /\ Unload(backend)
    /\ UNCHANGED <<swapFrame, backend, lock, swaps>>
Reap ==
    /\ lock = <<>> /\ loaded /\ Leases = {}
    /\ Unload(backend)
    /\ UNCHANGED <<swapFrame, backend, lock, swaps>>

BeginSwap ==
    /\ swaps < MaxSwaps /\ InBounds /\ swaps' = swaps + 1
    /\ Swap \notin Range(lock) /\ lock' = Append(lock, Swap)
    /\ UNCHANGED <<swapFrame, backend, loaded, endpoint, halt>>

Replace ==
    /\ lock # <<>> /\ Head(lock) = Swap /\ Unlock
    /\ backend' \in {None, swaps + 1}
    /\ IF loaded THEN Unload(backend) ELSE UNCHANGED <<endpoint, halt, loaded>>
    /\ UNCHANGED <<swapFrame, swaps>>

(***************************************************************************)
(* A live session's translator: loaded by Pipeline.start, beside the other  *)
(* models and in one gather, and unloaded by Pipeline.stop                  *)
(***************************************************************************)
sessionFrame == <<engine, managerVars, faults, request, os, file, left, owed>>

SessionStarts(s) ==
    /\ session[s] = "new" /\ session' = [session EXCEPT ![s] = "loading"]
    /\ boot' = [boot EXCEPT ![s] = Reclaiming]
    /\ UNCHANGED <<sessionFrame, endpoint, halt>>

(* Another model would not load: the gather raises, stop() finds no         *)
(* endpoint to unload, and the load under way is left to itself.            *)
SessionAbandons(s) ==
    /\ session[s] = "loading" /\ session' = [session EXCEPT ![s] = "abandoned"]
    /\ UNCHANGED <<sessionFrame, endpoint, boot, halt>>

SessionLoaded(s) ==
    /\ boot[s].pc \in {"opened", "raised"}
    /\ boot' = [boot EXCEPT ![s] = NoBoot]
    /\ endpoint' = [endpoint EXCEPT ![s] = boot[s].server]
    /\ session' = [session EXCEPT ![s] =
           IF boot[s].pc = "raised" THEN "ended" ELSE IF @ = "loading" THEN "on" ELSE @]
    /\ UNCHANGED <<sessionFrame, halt>>

SessionStops(s) ==
    /\ session[s] = "on" /\ session' = [session EXCEPT ![s] = "ended"]
    /\ BeginHalt(s)
    /\ UNCHANGED <<sessionFrame, boot>>

(***************************************************************************)
(* The processes and the engine                                            *)
(***************************************************************************)
ServerStep(s) ==
    /\ \/ /\ os[s] = "starting" /\ UNCHANGED faults
          /\ os' \in {[os EXCEPT ![s] = "up"], [os EXCEPT ![s] = "exited"]}
       \/ /\ os[s] = "up" /\ os' = [os EXCEPT ![s] = "exited"]
          /\ faults < MaxFaults /\ InBounds /\ faults' = faults + 1
    /\ UNCHANGED <<engine, managerVars, request, session, endpoint, boot, halt,
          file, left, owed>>

(* Killed outright.  The servers are in process groups of their own.        *)
Crash ==
    /\ faults < MaxFaults /\ InBounds /\ faults' = faults + 1
    /\ engine' = "down"
    /\ backend' = 1 /\ loaded' = FALSE /\ lock' = <<>>
    /\ request' = [r \in Requests |->
           IF request[r].pc \in Ends \cup {"idle"} THEN request[r]
           ELSE [Fresh EXCEPT !.pc = "failed"]]
    /\ session' = [s \in Sessions |-> IF session[s] = "new" THEN "new" ELSE "ended"]
    /\ endpoint' = [h \in Hosts |-> None]
    /\ boot' = [h \in Hosts \cup {Engine} |-> NoBoot]
    /\ halt' = [h \in Hosts |-> NoHalt]
    /\ left' = {s \in Servers : Live(s)}
    /\ owed' = {s \in Servers : os[s] = "up" /\ s \in {file[l] : l \in Labels}}
    /\ UNCHANGED <<swaps, os, file>>

Restart ==
    /\ engine = "down" /\ engine' = "reclaiming"
    /\ boot' = [boot EXCEPT ![Engine] = Reclaiming]
    /\ UNCHANGED <<managerVars, faults, request, session, endpoint, halt, os, file,
          left, owed>>

Serves ==
    /\ engine = "reclaiming" /\ boot[Engine].pc = "opened" /\ engine' = "up"
    /\ boot' = [boot EXCEPT ![Engine] = NoBoot]
    /\ UNCHANGED <<managerVars, faults, request, session, endpoint, halt, os, file,
          left, owed>>

-----------------------------------------------------------------------------
(* What runs by itself once it has been asked for.                          *)
Work ==
    \/ \E h \in Hosts \cup {Engine} : ReadFile(h) \/ KillAndUnlink(h)
    \/ \E h \in Hosts : BootStep(h) \/ HaltStep(h)
    \/ \E r \in Requests : RequestStep(r)
    \/ \E s \in Sessions : SessionLoaded(s)
    \/ Replace \/ Restart \/ Serves

Next ==
    \/ Work
    \/ /\ engine = "up"
       /\ \/ \E r \in Requests : Begin(r) \/ Leave(r)
          \/ \E s \in Sessions : SessionStarts(s) \/ SessionAbandons(s) \/ SessionStops(s)
          \/ Reap \/ BeginSwap
    \/ \E s \in Servers : ServerStep(s)
    \/ engine # "down" /\ Crash

(* Every part of the bounded system that can move does: nothing is asked of *)
(* clients, of servers that are up, or of the idle timer.  A server that    *)
(* never becomes ready runs into READY_TIMEOUT_S, which is GivesUp.         *)
Fairness == WF_vars(Work)
Spec == Init /\ [][Next]_vars /\ Fairness

-----------------------------------------------------------------------------
(* The flag and the backend agree (model_manager.py:123, 150, 179): a       *)
(* loaded manager has a backend, and that backend has an endpoint to ask.   *)
LoadedHasEndpoint == loaded => backend # None /\ endpoint[backend] # None

(* A lease keeps the reaper away for the whole of the work                  *)
(* (model_manager.py:16): the server an answer comes from is stopped under  *)
(* it only when the user has chosen another model or none.                  *)
LeasedIsNotStopped ==
    \A r \in Requests :
        request[r].pc = "using" /\ os[request[r].server] = "stopped"
            => request[r].host # backend

(* `Nothing may leak a 2.5 GB process' (llama_server.py:12): a live server  *)
(* is one that the current backend or a running session holds, that is      *)
(* being started or stopped, that outlived a crash, or (the exception, see  *)
(* SessionAbandons) whose session was given up while it was loading.        *)
Held ==
    {endpoint[h] : h \in {h \in Hosts : h = backend \/ (h \in Sessions /\ session[h] = "on")}}
    \cup {boot[h].server : h \in Hosts} \cup {halt[h].server : h \in Hosts}
NothingLeaks ==
    engine = "up" => \A s \in Servers \ left :
        Live(s) => s \in Held \/ \E h \in Sessions : session[h] = "abandoned" /\ endpoint[h] = s

(* What was answering, and written down, when the engine was killed is gone *)
(* before the next run serves (llama_server.py:352).                        *)
OwedIsReclaimed == engine = "up" => \A s \in owed : ~Live(s)

(* Whatever asks for the lock gets its turn, and a request that begins      *)
(* ends: no raise, swap, reclaim or crash leaves the lock with nobody       *)
(* (model_manager.py:147).                                                  *)
RequestEnds ==
    /\ \A r \in Requests : request[r].pc # "idle" ~> request[r].pc \in Ends
    /\ Swap \in Range(lock) ~> Swap \notin Range(lock)

(* Who holds a server can use it: a loaded manager has one to ask, and a    *)
(* lease is not taken away by the reaper (model_manager.py:123).            *)
HeldIsUsable ==
    /\ TypeOK
    /\ LoadedHasEndpoint
    /\ LeasedIsNotStopped

(* A process of gigabytes is always in somebody's hands, over the failures  *)
(* of this run and over the death of the last (llama_server.py:12).         *)
NoOrphans ==
    /\ NothingLeaks
    /\ OwedIsReclaimed
=============================================================================
