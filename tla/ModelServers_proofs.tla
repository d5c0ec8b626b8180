------------------------- MODULE ModelServers_proofs -------------------------
(***************************************************************************)
(* That a loaded model can be used and that no server is left to itself,   *)
(* for any number of requests, sessions, swaps, crashes and servers.       *)
(*                                                                         *)
(* The argument: a live server is in exactly one pair of hands, a host's   *)
(* endpoint, its start or its stop (Disjoint, Alive, NoLeak); the hands of *)
(* the chat model are the current backend's (ChatHands, ChatBoot), because *)
(* the one request that loads it holds the lock (LockInv) and a backend    *)
(* that replaces another is an object nobody has seen (SwapInv).  After a  *)
(* crash nothing moves but the reclaim (Quiet), which has every file it    *)
(* owes still to read (Owed).                                              *)
(***************************************************************************)
EXTENDS ModelServers, SequenceTheorems, TLAPS

Has(q, x) == \E i \in DOMAIN q : q[i] = x

(* Who is about to load or waits to is in the lock, and who loads is first.*)
LockInv ==
    /\ \A r \in Requests : request[r].pc \in {"lock", "load"} <=> Has(lock, r)
    /\ \A r \in Requests : request[r].pc = "load" =>
          lock # <<>> /\ lock[1] = r /\ ~loaded /\ backend # None /\ request[r].host = backend

(* A start has a process in hand from the spawn to the end of it.           *)
BootOk(h) ==
    /\ boot[h].server # None
          <=> h # Engine /\ boot[h].pc \in {"record", "wait", "stop", "opened"}
    /\ boot[h].pc \in {"off", "reclaim", "kill"} => boot[h].tries = 0
    /\ boot[h].pc = "spawn" => boot[h].tries < StartAttempts
EngineBoot ==
    /\ boot[Engine].pc \in {"off", "reclaim", "kill", "opened"}
    /\ boot[Engine].pc # "off" <=> engine = "reclaiming"
    /\ boot[Engine].pc = "opened" => boot[Engine].todo = {}
ChatBoot ==
    \A h \in ChatHosts : boot[h].pc # "off" =>
        h = backend /\ \E r \in Requests : request[r].pc = "load"
SessionBoot ==
    \A s \in Sessions :
        /\ boot[s].pc # "off" => session[s] \in {"loading", "abandoned"} /\ endpoint[s] = None
        /\ session[s] \in {"new", "loading"} => endpoint[s] = None
BootInv ==
    /\ \A h \in Hosts \cup {Engine} : BootOk(h)
    /\ \A h \in Hosts : halt[h].pc = "wait" <=> halt[h].server # None
    /\ EngineBoot /\ ChatBoot /\ SessionBoot

(* Of the chat hosts the backend has an endpoint, when it is loaded; and no *)
(* server is in two hands, nor stopped while a host can still ask it.       *)
ChatHands ==
    /\ \A h \in ChatHosts : endpoint[h] # None => h = backend /\ loaded
    /\ LoadedHasEndpoint
Disjoint ==
    \A h, g \in Hosts :
        /\ endpoint[h] # None =>
              /\ endpoint[g] = endpoint[h] => g = h
              /\ boot[g].server # endpoint[h] /\ halt[g].server # endpoint[h]
        /\ boot[h].server # None =>
              /\ boot[g].server = boot[h].server => g = h
              /\ halt[g].server # boot[h].server
Alive ==
    \A h \in Hosts :
        /\ endpoint[h] # None => os[endpoint[h]] \notin {"none", "stopped"}
        /\ boot[h].server # None => os[boot[h].server] \notin {"none", "stopped"}
        /\ halt[h].server # None => os[halt[h].server] # "none"

(* The number of swaps numbers the objects: the next one is new to all.     *)
SwapInv ==
    /\ backend <= swaps + 1 /\ \A r \in Requests : request[r].host <= swaps + 1
    /\ Has(lock, Swap) => backend <= swaps /\ \A r \in Requests : request[r].host <= swaps

(* A request uses the server it was given: the backend's, while that is     *)
(* the backend it asked.                                                    *)
UsingInv ==
    \A r \in Requests : request[r].pc = "using" =>
        /\ request[r].lease /\ request[r].server # None /\ request[r].host # None
        /\ request[r].host = backend => loaded /\ request[r].server = endpoint[backend]

HeldBy(s, h) ==
    \/ endpoint[h] = s /\ (h = backend \/ (h \in Sessions /\ session[h] \in {"on", "abandoned"}))
    \/ boot[h].server = s
    \/ halt[h].server = s
NoLeak == \A s \in Servers \ left : Live(s) => \E h \in Hosts : HeldBy(s, h)

Quiet ==
    engine # "up" =>
        /\ \A h \in Hosts : boot[h].pc = "off" /\ halt[h].pc = "off"
        /\ \A r \in Requests : request[r].pc \in Ends \cup {"idle"}
        /\ lock = <<>>
(* What the reclaim owes is on a file it has yet to read, or being killed.  *)
Owed ==
    \A s \in owed :
        /\ os[s] \notin {"none", "starting"}
        /\ engine = "up" => ~Live(s)
        /\ engine = "down" /\ Live(s) => \E l \in Labels : file[l] = s
        /\ engine = "reclaiming" /\ Live(s) =>
              \/ \E l \in boot[Engine].todo : file[l] = s
              \/ boot[Engine].pc = "kill" /\ boot[Engine].sees = s
(* The file being unlinked is not among those still to be read.             *)
NotAgain == boot[Engine].pc = "kill" => boot[Engine].label \notin boot[Engine].todo

IInv ==
    /\ TypeOK /\ LockInv /\ BootInv /\ ChatHands /\ Disjoint /\ Alive
    /\ SwapInv /\ UsingInv /\ NoLeak /\ Quiet /\ Owed /\ NotAgain

-----------------------------------------------------------------------------
(* Sequences: what the lock holds after each thing done to it.              *)
Lock == Seq(Requests \cup {Swap})
Distinct(q) == \A i, j \in DOMAIN q : q[i] = q[j] => i = j

(* One more waits: in the lock, behind the others.                          *)
LEMMA AppendLock ==
    ASSUME NEW q \in Lock, NEW x \in Requests \cup {Swap}, Distinct(q), ~Has(q, x)
    PROVE  /\ Append(q, x) \in Lock /\ Distinct(Append(q, x))
           /\ Append(q, x) # <<>> /\ (q # <<>> => Append(q, x)[1] = q[1])
           /\ \A y : Has(Append(q, x), y) <=> Has(q, y) \/ y = x
<1>1. Append(q, x) \in Lock /\ Append(q, x) # <<>> /\ (q # <<>> => Append(q, x)[1] = q[1])
  BY DEF Lock
<1>2. /\ DOMAIN Append(q, x) = 1..Len(q) + 1 /\ DOMAIN q = 1..Len(q) /\ Len(q) \in Nat
      /\ \A i \in 1..Len(q) : Append(q, x)[i] = q[i]
      /\ Append(q, x)[Len(q) + 1] = x
  BY DEF Lock
<1>3. Distinct(Append(q, x))
  BY <1>2 DEF Distinct, Has
<1>4. \A y : Has(Append(q, x), y) <=> Has(q, y) \/ y = x
  BY <1>2 DEF Has
<1> QED BY <1>1, <1>3, <1>4

(* The holder gives it up: everybody else is still in it.                   *)
LEMMA TailLock ==
    ASSUME NEW q \in Lock, q # <<>>, Distinct(q)
    PROVE  /\ Tail(q) \in Lock /\ Distinct(Tail(q))
           /\ \A y : Has(Tail(q), y) <=> Has(q, y) /\ y # q[1]
<1>1. Tail(q) \in Lock
  BY DEF Lock
<1>2. /\ DOMAIN Tail(q) = 1..Len(q) - 1 /\ DOMAIN q = 1..Len(q) /\ Len(q) \in Nat \ {0}
      /\ \A i \in 1..Len(q) - 1 : Tail(q)[i] = q[i + 1]
  BY DEF Lock
<1>3. Distinct(Tail(q))
  BY <1>2 DEF Distinct
<1>4. ASSUME NEW y PROVE Has(Tail(q), y) <=> Has(q, y) /\ y # q[1]
  <2>1. Has(Tail(q), y) => Has(q, y) /\ y # q[1]
    BY <1>2 DEF Has, Distinct
  <2>2. ASSUME NEW i \in DOMAIN q, q[i] = y, y # q[1] PROVE Has(Tail(q), y)
    <3>1. i - 1 \in 1..Len(q) - 1 /\ Tail(q)[i - 1] = q[i]
      BY <1>2, <2>2
    <3> QED BY <1>2, <2>2, <3>1 DEF Has
  <2> QED BY <2>1, <2>2 DEF Has
<1> QED BY <1>1, <1>3, <1>4

(* One that waits goes away: the holder and the others stay.                *)
LEMMA LeaveLock ==
    ASSUME NEW q \in Lock, NEW k \in DOMAIN q, Distinct(q)
    PROVE  /\ RemoveAt(q, k) \in Lock /\ Distinct(RemoveAt(q, k))
           /\ \A y : Has(RemoveAt(q, k), y) <=> Has(q, y) /\ y # q[k]
           /\ k # 1 => RemoveAt(q, k) # <<>> /\ RemoveAt(q, k)[1] = q[1]
<1> DEFINE p == RemoveAt(q, k)
<1>1. DOMAIN q = 1..Len(q) /\ Len(q) \in Nat \ {0} /\ k \in 1..Len(q)
  BY DEF Lock
<1>2. /\ p \in Lock /\ DOMAIN p = 1..Len(q) - 1
      /\ \A i \in 1..Len(q) - 1 : p[i] = IF i < k THEN q[i] ELSE q[i + 1]
  <2>1. \E a, b \in Lock :
           /\ p = a \o b
           /\ Len(a) = k - 1 /\ \A i \in 1..k - 1 : a[i] = q[i]
           /\ Len(b) = Len(q) - k /\ \A i \in 1..Len(q) - k : b[i] = q[k + i]
    <3>1. /\ SubSeq(q, 1, k - 1) \in Lock /\ SubSeq(q, k + 1, Len(q)) \in Lock
          /\ Len(SubSeq(q, 1, k - 1)) = k - 1 /\ Len(SubSeq(q, k + 1, Len(q))) = Len(q) - k
      BY <1>1 DEF Lock
    <3>2. \A i \in 1..k - 1 : SubSeq(q, 1, k - 1)[i] = q[i]
      BY <1>1 DEF Lock
    <3>3. \A i \in 1..Len(q) - k : SubSeq(q, k + 1, Len(q))[i] = q[k + i]
      BY <1>1 DEF Lock
    <3> QED BY <3>1, <3>2, <3>3 DEF RemoveAt
  <2> HIDE DEF p
  <2>2. PICK a, b \in Lock :
           /\ p = a \o b
           /\ Len(a) = k - 1 /\ \A i \in 1..k - 1 : a[i] = q[i]
           /\ Len(b) = Len(q) - k /\ \A i \in 1..Len(q) - k : b[i] = q[k + i]
    BY <2>1
  <2>3. p \in Lock /\ Len(p) = Len(q) - 1 /\ DOMAIN p = 1..Len(q) - 1
    <3>1. p \in Lock /\ Len(p) = Len(a) + Len(b)
      BY <2>2, ConcatProperties DEF Lock
    <3>2. Len(p) = Len(q) - 1
      BY <3>1, <2>2, <1>1
    <3> QED BY <3>1, <3>2 DEF Lock
  <2>4. ASSUME NEW i \in 1..Len(q) - 1 PROVE p[i] = IF i < k THEN q[i] ELSE q[i + 1]
    <3>1. CASE i < k
      BY <2>2, <1>1, <3>1 DEF Lock
    <3>2. CASE ~(i < k)
      <4>1. i - (k - 1) \in 1..Len(q) - k /\ k + (i - (k - 1)) = i + 1
        BY <1>1, <3>2
      <4>2. p[i] = b[i - (k - 1)]
        BY <2>2, <1>1, <3>2 DEF Lock
      <4> QED BY <4>1, <4>2, <2>2, <3>2
    <3> QED BY <3>1, <3>2
  <2> QED BY <2>3, <2>4
<1> HIDE DEF p
<1>3. Distinct(p)
  <2> DEFINE At(i) == IF i < k THEN i ELSE i + 1
  <2>1. \A i \in 1..Len(q) - 1 : At(i) \in 1..Len(q) /\ At(i) # k /\ p[i] = q[At(i)]
    BY <1>1, <1>2
  <2>2. \A i, j \in 1..Len(q) - 1 : At(i) = At(j) => i = j
    BY <1>1
  <2> HIDE DEF At
  <2> QED BY <1>1, <1>2, <2>1, <2>2 DEF Distinct
<1>4. ASSUME NEW y PROVE Has(p, y) <=> Has(q, y) /\ y # q[k]
  <2>1. Has(p, y) => Has(q, y) /\ y # q[k]
    <3> SUFFICES ASSUME NEW i \in 1..Len(q) - 1, p[i] = y PROVE Has(q, y) /\ y # q[k]
      BY <1>2 DEF Has
    <3> DEFINE j == IF i < k THEN i ELSE i + 1
    <3>1. j \in DOMAIN q /\ j # k /\ q[j] = y
      BY <1>1, <1>2
    <3> HIDE DEF j
    <3> QED BY <3>1, <1>1 DEF Has, Distinct
  <2>2. ASSUME NEW i \in DOMAIN q, q[i] = y, y # q[k] PROVE Has(p, y)
    <3> DEFINE j == IF i < k THEN i ELSE i - 1
    <3>1. i \in 1..Len(q) /\ i \in Nat /\ k \in Nat /\ i # k
      BY <1>1, <2>2
    <3>2. j \in 1..Len(q) - 1 /\ (j < k => j = i) /\ (~(j < k) => j + 1 = i)
      BY <3>1, <1>1
    <3>3. p[j] = q[i]
      BY <3>2, <1>2
    <3> HIDE DEF j
    <3> QED BY <3>2, <3>3, <1>2, <2>2 DEF Has
  <2> QED BY <2>1, <2>2 DEF Has
<1>5. k # 1 => p # <<>> /\ p[1] = q[1]
  BY <1>1, <1>2 DEF Lock
<1> QED BY <1>2, <1>3, <1>4, <1>5 DEF p

-----------------------------------------------------------------------------
(* Hosts, their kinds, and the lifespan, which is none of them.             *)
LEMMA HostKinds ==
    /\ None \notin Hosts /\ Engine \notin Hosts /\ Swap \notin Requests
    /\ ChatHosts \cap Sessions = {} /\ ChatHosts \subseteq Nat /\ 1 \in ChatHosts
    /\ MaxSwaps \in Nat /\ \A s \in Servers : s # None /\ s \in Nat
BY ModelServersAssumption DEF None, Hosts, ChatHosts, Engine, Swap, Servers

BootRecord == [pc : BootPc, todo : SUBSET Labels, label : Labels,
               sees : Servers \cup {None}, server : Servers \cup {None},
               tries : 0..StartAttempts]
RequestRecord == [pc : RequestPc, lease : BOOLEAN,
                  host : ChatHosts \cup {None}, server : Servers \cup {None}]
HaltRecord == [pc : {"off", "wait", "clear"}, server : Servers \cup {None}]
OsPc == {"none", "starting", "up", "stopped", "reclaimed", "exited"}

(* The types, one by one. *)
LEMMA Types ==
    ASSUME TypeOK
    PROVE  /\ engine \in {"up", "down", "reclaiming"}
           /\ backend \in ChatHosts \cup {None} /\ loaded \in BOOLEAN
           /\ lock \in Lock /\ Distinct(lock)
           /\ swaps \in 0..MaxSwaps
           /\ request \in [Requests -> RequestRecord]
           /\ endpoint \in [Hosts -> Servers \cup {None}]
           /\ boot \in [Hosts \cup {Engine} -> BootRecord]
           /\ halt \in [Hosts -> HaltRecord]
           /\ os \in [Servers -> OsPc]
           /\ file \in [Labels -> Servers \cup {None}]
           /\ left \subseteq Servers /\ owed \subseteq left
BY DEF TypeOK, Lock, Distinct, RequestRecord, BootRecord, HaltRecord, OsPc

(***************************************************************************)
(* A step of one host's start: it changes that start, and the process the  *)
(* start has in hand or an unused one, or kills what was on file.          *)
(***************************************************************************)
LEMMA HostBoot ==
    ASSUME IInv, TypeOK', NEW h \in Hosts, UNCHANGED bootFrame,
           \A g \in Hosts \cup {Engine} : g # h => boot'[g] = boot[g],
           boot[h].pc # "off", boot'[h].pc # "off", BootOk(h)',
           \A s \in Servers :
               \/ os'[s] = os[s]
               \/ os[s] = "none" /\ os'[s] = "starting" /\ boot'[h].server = s
               \/ os'[s] = "stopped" /\ s = boot[h].server /\ boot'[h].server = None
               \/ os[s] = "up" /\ os'[s] = "reclaimed",
           \/ boot'[h].server = boot[h].server
           \/ /\ boot'[h].server = None
              /\ boot[h].server # None => os'[boot[h].server] \notin {"starting", "up"}
           \/ boot'[h].server \in Servers /\ boot[h].server = None
              /\ os[boot'[h].server] = "none" /\ os'[boot'[h].server] = "starting"
    PROVE  IInv'
<1> USE DEF bootFrame, managerVars
<1>1. engine = "up"
  BY DEF IInv, Quiet
<1>2. LockInv' /\ ChatHands' /\ SwapInv' /\ UsingInv' /\ Quiet'
  BY <1>1 DEF IInv, LockInv, ChatHands, LoadedHasEndpoint, SwapInv, UsingInv, Quiet
<1>3. BootInv'
  <2>1. \A g \in Hosts \cup {Engine} : BootOk(g)'
    BY DEF IInv, BootInv, BootOk
  <2>2. EngineBoot'
    BY HostKinds DEF IInv, BootInv, EngineBoot
  <2>3. ChatBoot'
    BY HostKinds DEF IInv, BootInv, ChatBoot, Hosts
  <2>4. SessionBoot'
    BY HostKinds DEF IInv, BootInv, SessionBoot, Hosts
  <2> QED BY <2>1, <2>2, <2>3, <2>4 DEF IInv, BootInv
<1>4. Disjoint'
  BY HostKinds DEF IInv, Disjoint, Alive
<1>5. Alive'
  <2> SUFFICES ASSUME NEW g \in Hosts
               PROVE  /\ endpoint[g] # None => os'[endpoint[g]] \notin {"none", "stopped"}
                      /\ boot'[g].server # None => os'[boot'[g].server] \notin {"none", "stopped"}
                      /\ halt[g].server # None => os'[halt[g].server] # "none"
    BY DEF Alive
  <2>1. /\ endpoint[g] \in Servers \cup {None} /\ boot[g].server \in Servers \cup {None}
        /\ halt[g].server \in Servers \cup {None} /\ boot[h].server \in Servers \cup {None}
    BY Types DEF IInv, BootRecord, HaltRecord
  <2>2. endpoint[g] # None => os'[endpoint[g]] \notin {"none", "stopped"}
    BY <2>1 DEF IInv, Disjoint, Alive
  <2>3. halt[g].server # None => os'[halt[g].server] # "none"
    BY <2>1 DEF IInv, Disjoint, Alive
  <2>4. boot'[g].server # None => os'[boot'[g].server] \notin {"none", "stopped"}
    BY <2>1 DEF IInv, Disjoint, Alive
  <2> QED BY <2>2, <2>3, <2>4
<1>6. NoLeak'
  <2> SUFFICES ASSUME NEW s \in Servers \ left, Live(s)'
               PROVE  \E g \in Hosts : HeldBy(s, g)'
    BY DEF NoLeak
  <2>1. CASE os[s] = "none"
    BY <2>1 DEF HeldBy, Live
  <2>2. CASE os[s] # "none"
    <3>1. Live(s)
      BY <2>2 DEF Live
    <3>2. PICK g \in Hosts : HeldBy(s, g)
      BY <3>1 DEF IInv, NoLeak
    <3>3. boot[g].server = s => boot'[g].server = s
      BY HostKinds, <2>2 DEF Live
    <3> QED BY <3>2, <3>3 DEF HeldBy
  <2> QED BY <2>1, <2>2
<1>7. Owed'
  BY <1>1, Types DEF IInv, Owed, Live
<1>8. NotAgain'
  BY HostKinds DEF IInv, NotAgain
<1> QED BY <1>2, <1>3, <1>4, <1>5, <1>6, <1>7, <1>8 DEF IInv

(* The types, when nothing but starts, processes and files change.          *)
LEMMA BootTypes ==
    ASSUME TypeOK, UNCHANGED bootFrame, boot' \in [Hosts \cup {Engine} -> BootRecord],
           os' \in [Servers -> OsPc], file' \in [Labels -> Servers \cup {None}]
    PROVE  TypeOK'
BY DEF TypeOK, bootFrame, managerVars, BootRecord, OsPc

LEMMA ReadFileKeeps ==
    ASSUME IInv, NEW h \in Hosts \cup {Engine}, ReadFile(h)
    PROVE  IInv'
<1>1. TypeOK'
  <2>1. boot' \in [Hosts \cup {Engine} -> BootRecord]
    BY Types DEF IInv, ReadFile, BootRecord, BootPc, Labels
  <2> QED BY <2>1, BootTypes, Types DEF IInv, ReadFile
<1>2. /\ boot'[h].pc \in {"kill", IF h = Engine THEN "opened" ELSE "spawn"}
      /\ boot'[h].server = boot[h].server /\ boot'[h].tries = boot[h].tries
      /\ boot[h].pc = "reclaim"
      /\ \A g \in Hosts \cup {Engine} : g # h => boot'[g] = boot[g]
      /\ boot'[h].pc # "kill" => boot[h].todo = {} /\ boot'[h].todo = {}
      /\ boot'[h].pc = "kill" => /\ boot'[h].label \notin boot'[h].todo
                                 /\ boot'[h].sees = file[boot'[h].label]
                                 /\ boot[h].todo = boot'[h].todo \cup {boot'[h].label}
  BY Types DEF IInv, ReadFile, BootRecord, Labels
<1>3. UNCHANGED <<bootFrame, os, file>>
  BY DEF ReadFile
<1>4. CASE h \in Hosts
  <2>1. BootOk(h)'
    BY <1>2, <1>4, HostKinds, ModelServersAssumption DEF IInv, BootInv, BootOk
  <2>2. boot[h].pc # "off" /\ boot'[h].pc # "off"
    BY <1>2
  <2> QED BY <1>1, <1>2, <1>3, <1>4, <2>1, <2>2, HostBoot
<1>5. CASE h = Engine
  <2> USE DEF bootFrame, managerVars
  <2>1. /\ engine = "reclaiming" /\ boot'[Engine].pc \in {"kill", "opened"}
        /\ \A g \in Hosts : boot'[g] = boot[g]
    BY <1>2, <1>5, HostKinds DEF IInv, BootInv, EngineBoot
  <2>2. /\ LockInv' /\ ChatHands' /\ SwapInv' /\ UsingInv' /\ Quiet'
        /\ Disjoint' /\ Alive' /\ NoLeak'
    BY <1>3, <2>1 DEF IInv, LockInv, ChatHands, LoadedHasEndpoint, SwapInv, UsingInv, Quiet,
                      Disjoint, Alive, NoLeak, HeldBy, Live
  <2>3. \A g \in Hosts \cup {Engine} : BootOk(g)'
    BY <1>2, <1>5, <2>1 DEF IInv, BootInv, BootOk
  <2>4. EngineBoot'
    BY <1>2, <1>3, <1>5, <2>1 DEF IInv, BootInv, EngineBoot
  <2>5. ChatBoot'
    BY <1>3, <2>1 DEF IInv, BootInv, ChatBoot, Hosts
  <2>6. SessionBoot'
    BY <1>3, <2>1 DEF IInv, BootInv, SessionBoot, Hosts
  <2>7. BootInv'
    BY <1>3, <2>3, <2>4, <2>5, <2>6 DEF IInv, BootInv
  <2>8. Owed'
    BY <1>2, <1>3, <1>5, <2>1 DEF IInv, Owed, Live
  <2>9. NotAgain'
    BY <1>2, <1>5 DEF NotAgain
  <2> QED BY <1>1, <2>2, <2>7, <2>8, <2>9 DEF IInv
<1> QED BY <1>4, <1>5

LEMMA KillAndUnlinkKeeps ==
    ASSUME IInv, NEW h \in Hosts \cup {Engine}, KillAndUnlink(h)
    PROVE  IInv'
<1>1. TypeOK'
  <2>1. boot' \in [Hosts \cup {Engine} -> BootRecord]
    BY Types DEF IInv, KillAndUnlink, BootRecord, BootPc
  <2>2. os' \in [Servers -> OsPc] /\ file' \in [Labels -> Servers \cup {None}]
    BY Types DEF IInv, KillAndUnlink, OsPc
  <2> QED BY <2>1, <2>2, BootTypes DEF IInv, KillAndUnlink
<1>2. /\ boot'[h].pc = "reclaim" /\ boot[h].pc = "kill"
      /\ boot'[h].server = boot[h].server /\ boot'[h].tries = boot[h].tries
      /\ boot'[h].todo = boot[h].todo
      /\ \A g \in Hosts \cup {Engine} : g # h => boot'[g] = boot[g]
  BY Types DEF IInv, KillAndUnlink, BootRecord
<1>3. UNCHANGED bootFrame /\ \A l \in Labels : l # boot[h].label => file'[l] = file[l]
  BY Types DEF IInv, KillAndUnlink
<1>4. \A s \in Servers : \/ os'[s] = os[s] /\ ~(s = boot[h].sees /\ os[s] = "up")
                         \/ os[s] = "up" /\ os'[s] = "reclaimed"
  BY Types, HostKinds DEF IInv, KillAndUnlink
<1>5. CASE h \in Hosts
  <2>1. BootOk(h)'
    BY <1>2 DEF IInv, BootInv, BootOk
  <2> QED BY <1>1, <1>2, <1>3, <1>4, <1>5, <2>1, HostBoot
<1>6. CASE h = Engine
  <2> USE DEF bootFrame, managerVars
  <2>1. engine = "reclaiming" /\ \A g \in Hosts : boot'[g] = boot[g]
    BY <1>2, <1>6, HostKinds DEF IInv, BootInv, EngineBoot
  <2>2. /\ LockInv' /\ ChatHands' /\ SwapInv' /\ UsingInv' /\ Quiet' /\ Disjoint'
    BY <1>3, <2>1 DEF IInv, LockInv, ChatHands, LoadedHasEndpoint, SwapInv, UsingInv, Quiet,
                      Disjoint
  <2>3. \A g \in Hosts \cup {Engine} : BootOk(g)'
    BY <1>2, <1>6, <2>1 DEF IInv, BootInv, BootOk
  <2>4. EngineBoot'
    BY <1>2, <1>3, <1>6, <2>1 DEF IInv, BootInv, EngineBoot
  <2>5. ChatBoot'
    BY <1>3, <2>1 DEF IInv, BootInv, ChatBoot, Hosts
  <2>6. SessionBoot'
    BY <1>3, <2>1 DEF IInv, BootInv, SessionBoot, Hosts
  <2>7. BootInv'
    BY <1>3, <2>3, <2>4, <2>5, <2>6 DEF IInv, BootInv
  <2>8. Alive'
    BY <1>3, <1>4, <2>1, Types, HostKinds DEF IInv, Alive, HaltRecord, BootRecord
  <2>9. NoLeak'
    <3> SUFFICES ASSUME NEW s \in Servers \ left, Live(s)'
                 PROVE  \E g \in Hosts : HeldBy(s, g)'
      BY <1>3 DEF NoLeak
    <3>1. Live(s)
      BY <1>4 DEF Live
    <3> QED BY <3>1, <1>3, <2>1 DEF IInv, NoLeak, HeldBy
  <2>10. Owed'
    <3> SUFFICES ASSUME NEW s \in owed
                 PROVE  /\ os'[s] \notin {"none", "starting"}
                        /\ Live(s)' => \E l \in boot'[Engine].todo : file'[l] = s
      BY <1>2, <1>3, <2>1, <1>6 DEF Owed
    <3>1. s \in Servers /\ os[s] \notin {"none", "starting"}
      BY Types DEF IInv, Owed
    <3>2. Live(s)' => Live(s) /\ s # boot[Engine].sees
      BY <1>4, <1>6, <3>1, HostKinds DEF Live
    <3>3. ASSUME Live(s), s # boot[Engine].sees PROVE \E l \in boot'[Engine].todo : file'[l] = s
      <4>1. PICK l \in boot[Engine].todo : file[l] = s
        BY <2>1, <3>3 DEF IInv, Owed
      <4>2. l # boot[Engine].label /\ l \in Labels
        BY <1>2, <1>6, Types DEF IInv, NotAgain, BootRecord
      <4> QED BY <4>1, <4>2, <1>2, <1>3, <1>6
    <3> QED BY <3>1, <3>2, <3>3, <1>4
  <2>11. NotAgain'
    BY <1>2, <1>6 DEF NotAgain
  <2> QED BY <1>1, <2>2, <2>7, <2>8, <2>9, <2>10, <2>11 DEF IInv
<1> QED BY <1>5, <1>6

LEMMA BootStepKeeps ==
    ASSUME IInv, NEW h \in Hosts, BootStep(h)
    PROVE  IInv'
<1>1. h # Engine /\ h \in Hosts \cup {Engine} /\ Label(h) \in Labels
  BY HostKinds DEF Label, Labels
<1>2. UNCHANGED bootFrame
  BY DEF BootStep, Spawn, SpawnRaises, Record, SeesReady, SeesExit, GivesUp, StopStarted
<1>3. /\ boot[h] \in BootRecord /\ boot \in [Hosts \cup {Engine} -> BootRecord]
      /\ os \in [Servers -> OsPc] /\ file \in [Labels -> Servers \cup {None}]
      /\ BootOk(h) /\ TypeOK
  BY Types DEF IInv, BootInv
<1>4. StartAttempts \in Nat \ {0} /\ None \notin Servers
  BY ModelServersAssumption, HostKinds
<1>5. CASE Spawn(h)
  <2>1. CASE Unused = {} /\ boot' = [boot EXCEPT ![h].pc = "raised"] /\ UNCHANGED <<os, file>>
    <3>1. /\ boot' \in [Hosts \cup {Engine} -> BootRecord] /\ boot'[h].pc = "raised"
          /\ boot'[h].server = boot[h].server /\ boot'[h].tries = boot[h].tries
          /\ \A g \in Hosts \cup {Engine} : g # h => boot'[g] = boot[g]
      BY <2>1, <1>1, <1>3 DEF BootRecord, BootPc
    <3>2. BootOk(h)' /\ boot[h].pc # "off"
      BY <3>1, <1>3, <1>5 DEF BootOk, Spawn
    <3>3. TypeOK'
      BY <3>1, <1>2, <1>3, <2>1, BootTypes
    <3> QED BY <3>1, <3>2, <3>3, <1>2, <2>1, HostBoot
  <2>2. ASSUME NEW s \in Unused, os' = [os EXCEPT ![s] = "starting"],
               boot' = [boot EXCEPT ![h].pc = "record", ![h].server = s, ![h].tries = @ + 1],
               file' = file, boot[h].pc = "spawn"
        PROVE  IInv'
    <3>1. boot[h].tries \in 0..StartAttempts - 1 /\ boot[h].server = None
          /\ s \in Servers /\ s # None /\ os[s] = "none"
      BY <2>2, <1>3, <1>4 DEF BootOk, BootRecord, Unused
    <3>2. /\ boot' \in [Hosts \cup {Engine} -> BootRecord] /\ boot'[h].pc = "record"
          /\ boot'[h].server = s
          /\ \A g \in Hosts \cup {Engine} : g # h => boot'[g] = boot[g]
      BY <2>2, <3>1, <1>1, <1>3, <1>4 DEF BootRecord, BootPc
    <3>3. BootOk(h)'
      BY <3>1, <3>2, <1>1 DEF BootOk
    <3>4. os' \in [Servers -> OsPc] /\ os'[s] = "starting"
          /\ \A t \in Servers : t # s => os'[t] = os[t]
      BY <2>2, <3>1, <1>3 DEF OsPc
    <3>5. TypeOK'
      BY <3>2, <3>4, <1>2, <1>3, <2>2, BootTypes
    <3> QED BY <3>1, <3>2, <3>3, <3>4, <3>5, <1>2, <2>2, HostBoot
  <2> QED BY <2>1, <2>2, <1>5 DEF Spawn
<1>6. CASE SpawnRaises(h)
  <2>1. /\ boot' \in [Hosts \cup {Engine} -> BootRecord] /\ boot'[h].pc = "raised"
        /\ boot'[h].server = boot[h].server
        /\ \A g \in Hosts \cup {Engine} : g # h => boot'[g] = boot[g]
    BY <1>6, <1>1, <1>3 DEF BootRecord, BootPc, SpawnRaises
  <2>2. BootOk(h)' /\ boot[h].pc # "off"
    BY <2>1, <1>3, <1>6 DEF BootOk, SpawnRaises
  <2>3. TypeOK'
    BY <2>1, <1>2, <1>3, <1>6, BootTypes DEF SpawnRaises
  <2> QED BY <2>1, <2>2, <2>3, <1>2, <1>6, HostBoot DEF SpawnRaises
<1>7. CASE Record(h)
  <2>1. /\ boot' \in [Hosts \cup {Engine} -> BootRecord] /\ boot'[h].pc = "wait"
        /\ boot'[h].server = boot[h].server
        /\ file' \in [Labels -> Servers \cup {None}]
        /\ \A g \in Hosts \cup {Engine} : g # h => boot'[g] = boot[g]
    BY <1>7, <1>1, <1>3 DEF BootRecord, BootPc, Record
  <2>2. BootOk(h)' /\ boot[h].pc # "off"
    BY <2>1, <1>3, <1>7 DEF BootOk, Record
  <2>3. TypeOK'
    BY <2>1, <1>2, <1>3, <1>7, BootTypes DEF Record
  <2> QED BY <2>1, <2>2, <2>3, <1>2, <1>7, HostBoot DEF Record
<1>8. CASE SeesReady(h) \/ GivesUp(h)
  <2>1. /\ boot' \in [Hosts \cup {Engine} -> BootRecord] /\ boot'[h].pc \in {"opened", "stop"}
        /\ boot'[h].server = boot[h].server
        /\ \A g \in Hosts \cup {Engine} : g # h => boot'[g] = boot[g]
    BY <1>8, <1>1, <1>3 DEF BootRecord, BootPc, SeesReady, GivesUp
  <2>2. BootOk(h)' /\ boot[h].pc # "off"
    BY <2>1, <1>3, <1>8 DEF BootOk, SeesReady, GivesUp
  <2>3. TypeOK'
    BY <2>1, <1>2, <1>3, <1>8, BootTypes DEF SeesReady, GivesUp
  <2> QED BY <2>1, <2>2, <2>3, <1>2, <1>8, HostBoot DEF SeesReady, GivesUp
<1>9. CASE SeesExit(h)
  <2>1. /\ boot' \in [Hosts \cup {Engine} -> BootRecord] /\ boot'[h].server = None
        /\ boot'[h].tries = boot[h].tries
        /\ boot'[h].pc = IF boot[h].tries < StartAttempts THEN "spawn" ELSE "raised"
        /\ os' = os /\ file' \in [Labels -> Servers \cup {None}]
        /\ \A g \in Hosts \cup {Engine} : g # h => boot'[g] = boot[g]
    BY <1>9, <1>1, <1>3 DEF BootRecord, BootPc, SeesExit
  <2>2. /\ BootOk(h)' /\ boot[h].pc # "off"
        /\ boot[h].server # None => os'[boot[h].server] \notin {"starting", "up"}
    BY <2>1, <1>3, <1>9 DEF BootOk, SeesExit, Live
  <2>3. TypeOK'
    BY <2>1, <1>2, <1>3, <1>9, BootTypes DEF SeesExit
  <2> QED BY <2>1, <2>2, <2>3, <1>2, HostBoot
<1>10. CASE StopStarted(h)
  <2>1. CASE boot[h].pc = "stop"
    <3>1. /\ boot' \in [Hosts \cup {Engine} -> BootRecord] /\ boot'[h].pc = "clear"
          /\ boot'[h].server = None /\ file' = file
          /\ \A g \in Hosts \cup {Engine} : g # h => boot'[g] = boot[g]
      BY <1>10, <2>1, <1>1, <1>3 DEF BootRecord, BootPc, StopStarted
    <3>2. /\ boot[h].server \in Servers
          /\ os' \in [Servers -> OsPc] /\ os'[boot[h].server] \notin {"starting", "up"}
          /\ \A s \in Servers : os'[s] = os[s] \/ (os'[s] = "stopped" /\ s = boot[h].server)
      BY <1>10, <2>1, <1>1, <1>3 DEF StopStarted, Terminated, Live, OsPc, BootOk, BootRecord
    <3>3. BootOk(h)' /\ boot[h].pc # "off"
      BY <3>1, <2>1 DEF BootOk
    <3>4. TypeOK'
      BY <3>1, <3>2, <1>2, <1>3, BootTypes
    <3> QED BY <3>1, <3>2, <3>3, <3>4, <1>2, HostBoot
  <2>2. CASE boot[h].pc = "clear"
    <3>1. /\ boot' \in [Hosts \cup {Engine} -> BootRecord] /\ boot'[h].pc = "raised"
          /\ boot'[h].server = boot[h].server /\ os' = os
          /\ file' \in [Labels -> Servers \cup {None}]
          /\ \A g \in Hosts \cup {Engine} : g # h => boot'[g] = boot[g]
      BY <1>10, <2>2, <1>1, <1>3 DEF BootRecord, BootPc, StopStarted
    <3>2. BootOk(h)' /\ boot[h].pc # "off"
      BY <3>1, <2>2, <1>3 DEF BootOk
    <3>3. TypeOK'
      BY <3>1, <1>2, <1>3, BootTypes
    <3> QED BY <3>1, <3>2, <3>3, <1>2, HostBoot
  <2> QED BY <1>10, <2>1, <2>2 DEF StopStarted
<1> QED BY <1>5, <1>6, <1>7, <1>8, <1>9, <1>10 DEF BootStep

(* The end of a stop, and the processes by themselves: a server stops or    *)
(* goes, and whoever holds it still does, or it is no longer live.          *)
LEMMA HaltStepKeeps ==
    ASSUME IInv, NEW h \in Hosts, HaltStep(h)
    PROVE  IInv'
<1> USE DEF managerVars
<1>1. /\ halt \in [Hosts -> HaltRecord] /\ os \in [Servers -> OsPc]
      /\ file \in [Labels -> Servers \cup {None}] /\ Label(h) \in Labels
      /\ \A g \in Hosts : endpoint[g] \in Servers \cup {None} /\ boot[g].server \in Servers \cup {None}
      /\ None \notin Servers /\ owed \subseteq Servers
  BY Types, HostKinds DEF IInv, Label, Labels, BootRecord
<1>2. /\ halt' \in [Hosts -> HaltRecord] /\ os' \in [Servers -> OsPc]
      /\ file' \in [Labels -> Servers \cup {None}]
      /\ \A g \in Hosts : g # h => halt'[g] = halt[g]
      /\ halt[h].pc # "off" /\ halt'[h].server = None /\ halt'[h].pc # "wait"
      /\ \A s \in Servers : \/ os'[s] = os[s]
                            \/ os'[s] = "stopped" /\ s = halt[h].server /\ Live(s)
      /\ halt[h].server # None => os'[halt[h].server] \notin {"starting", "up"}
  <2>1. CASE halt[h].pc = "wait"
    <3>1. halt' = [halt EXCEPT ![h] = [pc |-> "clear", server |-> None]]
          /\ os' = Terminated(halt[h].server) /\ file' = file
      BY <2>1 DEF HaltStep
    <3>2. halt[h].server \in Servers
      BY <2>1, <1>1 DEF IInv, BootInv, HaltRecord
    <3> QED BY <2>1, <3>1, <3>2, <1>1 DEF Terminated, Live, HaltRecord, OsPc
  <2>2. CASE halt[h].pc = "clear"
    <3>1. halt[h].server = None
      BY <2>2, <1>1 DEF IInv, BootInv
    <3> QED BY <2>2, <3>1, <1>1 DEF HaltStep, HaltRecord, NoHalt, OsPc
  <2> QED BY <2>1, <2>2 DEF HaltStep
<1>3. UNCHANGED <<engine, managerVars, faults, request, session, endpoint, boot, left, owed>>
      /\ engine = "up"
  BY <1>2 DEF HaltStep, IInv, Quiet
<1>4. TypeOK'
  BY <1>2, <1>3 DEF IInv, TypeOK, HaltRecord, OsPc
<1>5. LockInv' /\ ChatHands' /\ SwapInv' /\ UsingInv' /\ Quiet' /\ NotAgain'
  BY <1>3 DEF IInv, LockInv, ChatHands, LoadedHasEndpoint, SwapInv, UsingInv, Quiet, NotAgain
<1>6. BootInv'
  <2>1. \A g \in Hosts \cup {Engine} : BootOk(g)'
    BY <1>3 DEF IInv, BootInv, BootOk
  <2>2. EngineBoot' /\ ChatBoot' /\ SessionBoot'
    BY <1>3 DEF IInv, BootInv, EngineBoot, ChatBoot, SessionBoot
  <2>3. \A g \in Hosts : halt'[g].pc = "wait" <=> halt'[g].server # None
    BY <1>2 DEF IInv, BootInv
  <2> QED BY <2>1, <2>2, <2>3 DEF BootInv
<1>7. Disjoint'
  BY <1>1, <1>2, <1>3 DEF IInv, Disjoint
<1>8. Alive'
  BY <1>1, <1>2, <1>3, Types DEF IInv, Disjoint, Alive, HaltRecord
<1>9. NoLeak'
  <2> SUFFICES ASSUME NEW s \in Servers \ left, Live(s)'
               PROVE  \E g \in Hosts : HeldBy(s, g)'
    BY <1>3 DEF NoLeak
  <2>1. Live(s) /\ s # halt[h].server
    BY <1>2, <1>1 DEF Live
  <2> QED BY <2>1, <1>2, <1>3 DEF IInv, NoLeak, HeldBy
<1>10. Owed'
  BY <1>1, <1>2, <1>3 DEF IInv, Owed, Live
<1> QED BY <1>4, <1>5, <1>6, <1>7, <1>8, <1>9, <1>10 DEF IInv

LEMMA ServerStepKeeps ==
    ASSUME IInv, NEW p \in Servers, ServerStep(p)
    PROVE  IInv'
<1> USE DEF managerVars
<1>1. UNCHANGED <<engine, managerVars, request, session, endpoint, boot, halt, file, left, owed>>
  BY DEF ServerStep
<1>2. /\ os' \in [Servers -> OsPc]
      /\ \A s \in Servers :
            \/ os'[s] = os[s]
            \/ os[s] = "starting" /\ os'[s] \in {"up", "exited"}
            \/ os[s] = "up" /\ os'[s] = "exited"
  BY Types DEF IInv, ServerStep, OsPc
<1>3. TypeOK'
  BY <1>1, <1>2, ModelServersAssumption DEF IInv, TypeOK, OsPc, ServerStep
<1>4. LockInv' /\ ChatHands' /\ SwapInv' /\ UsingInv' /\ Quiet' /\ NotAgain' /\ Disjoint'
  BY <1>1 DEF IInv, LockInv, ChatHands, LoadedHasEndpoint, SwapInv, UsingInv, Quiet, NotAgain,
              Disjoint
<1>5. BootInv'
  BY <1>1 DEF IInv, BootInv, BootOk, EngineBoot, ChatBoot, SessionBoot
<1>6. Alive'
  BY <1>1, <1>2, Types DEF IInv, Alive, BootRecord, HaltRecord
<1>7. NoLeak'
  <2>1. \A s \in Servers : Live(s)' => Live(s)
    BY <1>2 DEF Live
  <2> QED BY <2>1, <1>1 DEF IInv, NoLeak, HeldBy
<1>8. Owed'
  BY <1>1, <1>2, Types DEF IInv, Owed, Live
<1> QED BY <1>3, <1>4, <1>5, <1>6, <1>7, <1>8 DEF IInv

-----------------------------------------------------------------------------
(* What ensure_chat_loaded answers.                                         *)
LEMMA AnsweredGives ==
    ASSUME TypeOK, NEW r \in Requests, NEW held \in Servers \cup {None}, Answered(r, held)
    PROVE  \E rec \in RequestRecord :
              /\ request' = [request EXCEPT ![r] = rec]
              /\ rec.pc \in {"gap", "failed", "using"}
              /\ rec.host \in {None, backend}
              /\ rec.pc = "using" =>
                    /\ rec.lease /\ backend # None /\ held # None
                    /\ rec.host = backend /\ rec.server = held
<1> DEFINE rec == IF ~request[r].lease THEN [Fresh EXCEPT !.pc = "gap"]
                  ELSE IF backend = None \/ held = None THEN [Fresh EXCEPT !.pc = "failed"]
                  ELSE [pc |-> "using", lease |-> TRUE, host |-> backend, server |-> held]
<1>1. request' = [request EXCEPT ![r] = rec]
  BY DEF Answered
<1>2. rec \in RequestRecord /\ rec.pc \in {"gap", "failed", "using"} /\ rec.host \in {None, backend}
  BY Types DEF RequestRecord, Fresh, RequestPc
<1>3. rec.pc = "using" =>
         /\ rec.lease /\ backend # None /\ held # None
         /\ rec.host = backend /\ rec.server = held
  BY DEF Fresh
<1> HIDE DEF rec
<1> QED BY <1>1, <1>2, <1>3

LEMMA EndGives ==
    ASSUME NEW r \in Requests, NEW how \in Ends, End(r, how)
    PROVE  \E rec \in RequestRecord :
              /\ request' = [request EXCEPT ![r] = rec]
              /\ rec.pc = how /\ rec.host = None
<1> DEFINE rec == [Fresh EXCEPT !.pc = how]
<1>1. rec \in RequestRecord /\ rec.pc = how /\ rec.host = None
  BY DEF RequestRecord, Fresh, RequestPc, Ends
<1> QED BY <1>1 DEF End

(***************************************************************************)
(* A step of a request that neither begins nor ends a load: the others     *)
(* keep what they have, and it is in the lock when it waits for it.        *)
(***************************************************************************)
LEMMA RequestOnly ==
    ASSUME IInv, engine = "up", NEW r \in Requests, NEW rec \in RequestRecord,
           request' = [request EXCEPT ![r] = rec],
           UNCHANGED <<requestFrame, backend, loaded, endpoint, boot>>,
           request[r].pc # "load", rec.pc # "load",
           lock' \in Lock, Distinct(lock'),
           \A y : y # r => (Has(lock', y) <=> Has(lock, y)),
           Has(lock', r) <=> rec.pc = "lock",
           (\E q \in Requests : request[q].pc = "load") => lock' # <<>> /\ lock'[1] = lock[1],
           rec.host \in {None, backend, request[r].host},
           rec.pc = "using" => /\ rec.lease /\ backend # None /\ loaded /\ rec.server # None
                               /\ rec.host = backend /\ rec.server = endpoint[backend]
    PROVE  IInv'
<1> USE DEF requestFrame
<1>1. /\ request \in [Requests -> RequestRecord] /\ request'[r] = rec
      /\ request' \in [Requests -> RequestRecord]
      /\ \A q \in Requests : q # r => request'[q] = request[q]
  BY Types DEF IInv
<1>2. TypeOK'
  BY <1>1 DEF IInv, TypeOK, RequestRecord, Lock, Distinct
<1>3. LockInv'
  <2>1. \A q \in Requests : request'[q].pc \in {"lock", "load"} <=> Has(lock', q)
    BY <1>1 DEF IInv, LockInv
  <2>2. \A q \in Requests : request'[q].pc = "load" =>
          lock' # <<>> /\ lock'[1] = q /\ ~loaded /\ backend # None /\ request'[q].host = backend
    BY <1>1 DEF IInv, LockInv
  <2> QED BY <2>1, <2>2 DEF LockInv
<1>4. BootInv'
  <2>1. ChatBoot'
    BY <1>1 DEF IInv, BootInv, ChatBoot
  <2> QED BY <2>1 DEF IInv, BootInv, BootOk, EngineBoot, SessionBoot
<1>5. ChatHands' /\ Disjoint' /\ Alive' /\ NoLeak' /\ Owed' /\ NotAgain' /\ Quiet'
  BY DEF IInv, ChatHands, LoadedHasEndpoint, Disjoint, Alive, NoLeak, HeldBy, Live, Owed,
         NotAgain, Quiet
<1>6. SwapInv'
  <2>1. \A q \in Requests : request'[q].host \in {None, backend, request[q].host}
    BY <1>1
  <2>2. swaps \in Nat /\ None <= swaps /\ None <= swaps + 1 /\ (Has(lock', Swap) <=> Has(lock, Swap))
    BY Types, HostKinds DEF IInv, None
  <2> QED BY <2>1, <2>2 DEF IInv, SwapInv
<1>7. UsingInv'
  BY <1>1 DEF IInv, UsingInv
<1> QED BY <1>2, <1>3, <1>4, <1>5, <1>6, <1>7 DEF IInv

(* The records a start begins and ends with.                                *)
LEMMA BootRecords ==
    /\ Reclaiming \in BootRecord /\ Reclaiming.pc = "reclaim" /\ Reclaiming.todo = OnFile
    /\ Reclaiming.server = None /\ Reclaiming.tries = 0
    /\ NoBoot \in BootRecord /\ NoBoot.pc = "off"
    /\ NoBoot.server = None /\ NoBoot.tries = 0
<1>1. NoBoot \in BootRecord
  BY ModelServersAssumption DEF NoBoot, BootRecord, BootPc, Labels
<1>2. NoBoot.pc = "off" /\ NoBoot.server = None /\ NoBoot.tries = 0
  BY DEF NoBoot
<1>3. OnFile \in SUBSET Labels /\ "reclaim" \in BootPc
  BY DEF OnFile, BootPc
<1> QED BY <1>1, <1>2, <1>3 DEF Reclaiming, BootRecord

(* A load begins: the holder of the lock, of a backend that has no server.  *)
LEMMA LoadBegins ==
    ASSUME IInv, engine = "up", NEW r \in Requests, request[r].pc = "lock", Head(lock) = r,
           ~loaded, backend # None,
           request' = [request EXCEPT ![r].pc = "load", ![r].host = backend],
           boot' = [boot EXCEPT ![backend] = Reclaiming],
           UNCHANGED <<requestFrame, backend, loaded, lock, endpoint>>
    PROVE  IInv'
<1> USE DEF requestFrame
<1>1. /\ backend \in ChatHosts /\ backend \in Hosts
      /\ lock \in Lock /\ lock # <<>> /\ lock[1] = r
  BY Types DEF IInv, LockInv, Hosts, Has, Lock
<1>2. \A q \in Requests : request[q].pc # "load"
  BY <1>1 DEF IInv, LockInv
<1>3. boot[backend].pc = "off" /\ boot[backend].server = None
  BY <1>1, <1>2 DEF IInv, BootInv, ChatBoot, BootOk
<1>4. /\ request' \in [Requests -> RequestRecord]
      /\ request'[r].pc = "load" /\ request'[r].host = backend
      /\ \A q \in Requests : q # r => request'[q] = request[q]
  BY Types, <1>1 DEF IInv, RequestRecord, RequestPc
<1>5. /\ boot' \in [Hosts \cup {Engine} -> BootRecord]
      /\ boot'[backend].pc = "reclaim" /\ boot'[backend].server = None /\ boot'[backend].tries = 0
      /\ \A g \in Hosts \cup {Engine} : g # backend => boot'[g] = boot[g]
      /\ \A g \in Hosts \cup {Engine} : boot'[g].server = boot[g].server
  <2> HIDE DEF requestFrame
  <2>1. boot \in [Hosts \cup {Engine} -> BootRecord] /\ backend \in Hosts \cup {Engine}
    BY Types, <1>1 DEF IInv
  <2>2. /\ boot' \in [Hosts \cup {Engine} -> BootRecord] /\ boot'[backend] = Reclaiming
        /\ \A g \in Hosts \cup {Engine} : g # backend => boot'[g] = boot[g]
    BY <2>1, BootRecords
  <2> QED BY <2>2, <1>3, BootRecords
<1>6. TypeOK'
  BY <1>4, <1>5 DEF IInv, TypeOK, RequestRecord, BootRecord
<1>7. LockInv'
  BY <1>1, <1>2, <1>4 DEF IInv, LockInv
<1>8. BootInv'
  <2>1. \A g \in Hosts \cup {Engine} : BootOk(g)'
    <3>1. BootOk(backend)'
      BY <1>5 DEF BootOk
    <3>2. ASSUME NEW g \in Hosts \cup {Engine}, g # backend PROVE BootOk(g)'
      BY <3>2, <1>5 DEF IInv, BootInv, BootOk
    <3> QED BY <3>1, <3>2
  <2>2. EngineBoot'
    BY <1>1, <1>5, HostKinds DEF IInv, BootInv, EngineBoot
  <2>3. ChatBoot'
    BY <1>2, <1>4, <1>5 DEF IInv, BootInv, ChatBoot, Hosts
  <2>4. SessionBoot'
    BY <1>1, <1>5, HostKinds DEF IInv, BootInv, SessionBoot, Hosts
  <2> QED BY <2>1, <2>2, <2>3, <2>4 DEF IInv, BootInv
<1>9. ChatHands' /\ Disjoint' /\ Alive' /\ NoLeak' /\ Quiet'
  BY <1>5 DEF IInv, ChatHands, LoadedHasEndpoint, Disjoint, Alive, NoLeak, HeldBy, Live, Quiet
<1>10. SwapInv'
  <2>1. \A q \in Requests : request'[q].host \in {backend, request[q].host}
    BY <1>4
  <2> QED BY <2>1 DEF IInv, SwapInv
<1>11. UsingInv'
  BY <1>4 DEF IInv, UsingInv
<1>12. Owed' /\ NotAgain'
  <2>1. boot'[Engine] = boot[Engine]
    BY <1>1, <1>5, HostKinds
  <2> QED BY <2>1 DEF IInv, Owed, NotAgain, Live
<1> QED BY <1>6, <1>7, <1>8, <1>9, <1>10, <1>11, <1>12 DEF IInv

(* A load ends: its server is the backend's, or there is none; the lock is  *)
(* the next one's.                                                          *)
LEMMA LoadEnds ==
    ASSUME IInv, engine = "up", NEW r \in Requests, LoadDone(r) \/ LoadRaised(r)
    PROVE  IInv'
<1> USE DEF requestFrame
<1> DEFINE h == backend
<1>1. /\ request[r].pc = "load" /\ request[r].host = backend
      /\ boot[backend].pc \in {"opened", "raised"}
      /\ lock \in Lock /\ lock # <<>> /\ lock[1] = r /\ Distinct(lock)
      /\ backend \in ChatHosts /\ backend \in Hosts /\ backend # None /\ backend # Engine /\ ~loaded
  BY Types, HostKinds DEF IInv, LockInv, LoadDone, LoadRaised, Hosts
<1>2. /\ lock' \in Lock /\ Distinct(lock')
      /\ \A y : Has(lock', y) <=> Has(lock, y) /\ y # r
      /\ UNCHANGED <<requestFrame, backend>>
  <2>1. lock' = Tail(lock) /\ UNCHANGED <<requestFrame, backend>>
    BY DEF LoadDone, LoadRaised, Unlock
  <2>2. /\ Tail(lock) \in Lock /\ Distinct(Tail(lock))
        /\ \A y : Has(Tail(lock), y) <=> Has(lock, y) /\ y # lock[1]
    BY <1>1, TailLock
  <2> QED BY <2>1, <2>2, <1>1
<1>3. \A q \in Requests : q # r => request[q].pc # "load"
  BY <1>1 DEF IInv, LockInv
<1>4. /\ boot' = [boot EXCEPT ![backend] = NoBoot]
      /\ endpoint' \in {endpoint, [endpoint EXCEPT ![backend] = boot[backend].server]}
      /\ endpoint[backend] = None /\ endpoint'[backend] = boot[backend].server
      /\ boot[backend].server \in Servers \cup {None}
      /\ boot[backend].server # None <=> boot[backend].pc = "opened"
      /\ loaded' = (boot[backend].pc = "opened")
  <2>1. endpoint[backend] = None
    BY <1>1 DEF IInv, ChatHands
  <2>2. /\ boot[backend].server \in Servers \cup {None}
        /\ boot[backend].server # None <=> boot[backend].pc = "opened"
    BY <1>1, Types DEF IInv, BootInv, BootOk, BootRecord
  <2>3. CASE LoadDone(r)
    BY <1>1, <2>1, <2>2, <2>3, Types DEF IInv, LoadDone
  <2>4. CASE LoadRaised(r)
    BY <1>1, <2>1, <2>2, <2>4, Types DEF IInv, LoadRaised
  <2> QED BY <2>3, <2>4
<1>5. /\ \A g \in Hosts \cup {Engine} : g # backend => boot'[g] = boot[g]
      /\ boot'[backend] = NoBoot
      /\ \A g \in Hosts : g # backend => endpoint'[g] = endpoint[g]
      /\ boot' \in [Hosts \cup {Engine} -> BootRecord]
      /\ endpoint' \in [Hosts -> Servers \cup {None}]
  <2>1. /\ boot \in [Hosts \cup {Engine} -> BootRecord]
        /\ endpoint \in [Hosts -> Servers \cup {None}]
        /\ backend \in Hosts \cup {Engine}
    BY Types, <1>1 DEF IInv
  <2> QED BY <2>1, <1>1, <1>4, BootRecords
<1>6. \E rec \in RequestRecord :
         /\ request' = [request EXCEPT ![r] = rec]
         /\ rec.pc \in {"gap", "failed", "using"} /\ rec.host \in {None, backend}
         /\ rec.pc = "using" =>
               /\ rec.lease /\ boot[backend].server # None
               /\ rec.host = backend /\ rec.server = boot[backend].server
  <2>1. CASE LoadDone(r)
    <3>1. Answered(r, boot[backend].server)
      BY <1>1, <2>1 DEF LoadDone
    <3> QED BY <3>1, <1>4, AnsweredGives DEF IInv
  <2>2. CASE LoadRaised(r)
    <3>1. End(r, "failed") /\ "failed" \in Ends
      BY <2>2 DEF LoadRaised, Ends
    <3> QED BY <3>1, EndGives
  <2> QED BY <2>1, <2>2
<1>7. /\ request' \in [Requests -> RequestRecord]
      /\ request'[r].pc \in {"gap", "failed", "using"} /\ request'[r].host \in {None, backend}
      /\ request'[r].pc = "using" =>
            /\ request'[r].lease /\ boot[backend].server # None
            /\ request'[r].host = backend /\ request'[r].server = boot[backend].server
      /\ \A q \in Requests : q # r => request'[q] = request[q]
  BY <1>6, Types DEF IInv
<1>8. TypeOK'
  BY <1>2, <1>4, <1>5, <1>7
     DEF IInv, TypeOK, BootRecord, RequestRecord, Lock, Distinct
<1>9. LockInv'
  BY <1>2, <1>3, <1>7 DEF IInv, LockInv
<1>10. BootInv'
  <2>1. ASSUME NEW g \in Hosts \cup {Engine} PROVE BootOk(g)'
    <3>1. CASE g = backend
      BY <3>1, <1>1, <1>5 DEF BootOk, NoBoot
    <3>2. CASE g # backend
      BY <3>2, <1>5 DEF IInv, BootInv, BootOk
    <3> QED BY <3>1, <3>2
  <2>2. EngineBoot'
    <3>1. boot'[Engine] = boot[Engine]
      BY <1>1, <1>5
    <3> QED BY <3>1, <1>2 DEF IInv, BootInv, EngineBoot
  <2>3. ChatBoot'
    <3>1. \A g \in ChatHosts : boot'[g].pc = "off"
      BY <1>5 DEF IInv, BootInv, ChatBoot, Hosts, NoBoot
    <3> QED BY <3>1 DEF ChatBoot
  <2>4. SessionBoot'
    BY <1>1, <1>2, <1>5, HostKinds DEF IInv, BootInv, SessionBoot, Hosts
  <2> QED BY <2>1, <2>2, <2>3, <2>4, <1>2 DEF IInv, BootInv
<1>11. ChatHands'
  <2>1. \A g \in ChatHosts : endpoint[g] = None
    BY <1>1 DEF IInv, ChatHands
  <2>2. backend' = backend /\ \A g \in ChatHosts : g # backend => endpoint'[g] = None
    BY <2>1, <1>2, <1>5 DEF Hosts
  <2> QED BY <2>2, <1>1, <1>4 DEF ChatHands, LoadedHasEndpoint
<1>12. Disjoint'
  BY <1>1, <1>2, <1>4, <1>5 DEF IInv, Disjoint, NoBoot
<1>13. Alive'
  BY <1>1, <1>2, <1>4, <1>5 DEF IInv, Alive, NoBoot
<1>14. SwapInv'
  <2>1. \A q \in Requests : request'[q].host \in {None, backend, request[q].host}
    BY <1>7
  <2>2. swaps \in Nat /\ None <= swaps /\ None <= swaps + 1
        /\ (Has(lock', Swap) => Has(lock, Swap))
    BY <1>2, Types, HostKinds DEF IInv, None
  <2> QED BY <2>1, <2>2, <1>2 DEF IInv, SwapInv
<1>15. UsingInv'
  <2>1. ASSUME NEW q \in Requests, q # r, request'[q].pc = "using"
        PROVE  request'[q].host # backend
    BY <2>1, <1>1, <1>7 DEF IInv, UsingInv
  <2>2. ASSUME NEW q \in Requests, q # r, request'[q].pc = "using"
        PROVE  request'[q].lease /\ request'[q].server # None /\ request'[q].host # None
    BY <2>2, <1>7 DEF IInv, UsingInv
  <2>3. request'[r].pc = "using" => loaded' /\ request'[r].server = endpoint'[backend]
    BY <1>4, <1>7
  <2>4. backend' = backend
    BY <1>2
  <2> QED BY <2>1, <2>2, <2>3, <2>4, <1>1, <1>7 DEF UsingInv
<1>16. NoLeak'
  <2> SUFFICES ASSUME NEW s \in Servers \ left, Live(s)
               PROVE  \E g \in Hosts : HeldBy(s, g)'
    BY <1>2 DEF NoLeak, Live
  <2>1. PICK g \in Hosts : HeldBy(s, g)
    BY DEF IInv, NoLeak
  <2>2. s # None
    BY HostKinds
  <2> QED BY <2>1, <2>2, <1>1, <1>2, <1>4, <1>5 DEF HeldBy
<1>17. Quiet' /\ Owed' /\ NotAgain'
  <2>1. boot'[Engine] = boot[Engine]
    BY <1>1, <1>5
  <2> QED BY <2>1, <1>2 DEF IInv, Quiet, Owed, NotAgain, Live
<1> QED BY <1>8, <1>9, <1>10, <1>11, <1>12, <1>13, <1>14, <1>15, <1>16, <1>17 DEF IInv

(* What moves a request: it is on its way, so the engine is up.            *)
LEMMA MovingIsUp ==
    ASSUME IInv, NEW r \in Requests, RequestStep(r)
    PROVE  engine = "up"
BY DEF IInv, Quiet, RequestStep, Ask, HasLock, LoadDone, LoadRaised, Finish, Ends

LEMMA RequestKeeps ==
    ASSUME IInv, engine = "up", NEW r \in Requests, RequestStep(r) \/ Begin(r) \/ Leave(r)
    PROVE  IInv'
<1>1. /\ lock \in Lock /\ Distinct(lock) /\ backend \in ChatHosts \cup {None}
      /\ request \in [Requests -> RequestRecord] /\ request[r] \in RequestRecord
      /\ ChatHosts \subseteq Hosts /\ TypeOK
      /\ \A h \in Hosts : endpoint[h] \in Servers \cup {None}
  BY Types DEF IInv, Hosts
<1>2. Has(lock, r) <=> request[r].pc \in {"lock", "load"}
  BY DEF IInv, LockInv
<1>3. (\E q \in Requests : request[q].pc = "load") => lock # <<>>
  BY DEF IInv, LockInv
<1>4. loaded => /\ backend # None /\ endpoint[backend] # None
                /\ endpoint[backend] \in Servers \cup {None}
  BY <1>1 DEF IInv, ChatHands, LoadedHasEndpoint
<1>5. CASE Begin(r)
  <2>1. request[r].pc \in {"idle", "gap"} /\ ~Has(lock, r)
    BY <1>2, <1>5 DEF Begin
  <2>2. PICK lease \in BOOLEAN :
           request' = [request EXCEPT ![r] = [Fresh EXCEPT !.pc = "ask", !.lease = lease]]
    BY <1>5 DEF Begin
  <2> DEFINE rec == [Fresh EXCEPT !.pc = "ask", !.lease = lease]
  <2>3. rec \in RequestRecord /\ rec.pc = "ask" /\ rec.host = None
    BY DEF Fresh, RequestRecord, RequestPc
  <2>4. request' = [request EXCEPT ![r] = rec]
    BY <2>2
  <2>5. UNCHANGED <<requestFrame, backend, loaded, endpoint, boot>> /\ lock' = lock
    BY <1>5 DEF Begin
  <2> HIDE DEF rec
  <2> QED BY <2>1, <2>3, <2>4, <2>5, <1>1, <1>3, RequestOnly
<1>6. CASE Ask(r)
  <2>1. request[r].pc = "ask" /\ ~Has(lock, r)
    BY <1>2, <1>6 DEF Ask
  <2>2. UNCHANGED <<requestFrame, backend, loaded, endpoint, boot>>
    BY <1>6 DEF Ask
  <2>3. CASE End(r, "refused") /\ lock' = lock
    <3>1. PICK rec \in RequestRecord : /\ request' = [request EXCEPT ![r] = rec]
                                       /\ rec.pc = "refused" /\ rec.host = None
      BY <2>3, EndGives DEF Ends
    <3> QED BY <3>1, <2>1, <2>2, <2>3, <1>1, <1>3, RequestOnly
  <2>4. CASE loaded /\ Answered(r, endpoint[backend]) /\ lock' = lock
    <3>1. PICK rec \in RequestRecord :
              /\ request' = [request EXCEPT ![r] = rec]
              /\ rec.pc \in {"gap", "failed", "using"} /\ rec.host \in {None, backend}
              /\ rec.pc = "using" =>
                    /\ rec.lease /\ backend # None /\ endpoint[backend] # None
                    /\ rec.host = backend /\ rec.server = endpoint[backend]
      BY <2>4, <1>1, <1>4, AnsweredGives
    <3> QED BY <3>1, <2>1, <2>2, <2>4, <1>1, <1>3, RequestOnly
  <2>5. CASE request' = [request EXCEPT ![r].pc = "lock"] /\ lock' = Append(lock, r)
    <3> DEFINE rec == [request[r] EXCEPT !.pc = "lock"]
    <3>1. rec \in RequestRecord /\ rec.pc = "lock" /\ rec.host = request[r].host
      BY <1>1 DEF RequestRecord, RequestPc
    <3>2. request' = [request EXCEPT ![r] = rec]
      BY <2>5
    <3> HIDE DEF rec
    <3>3. /\ lock' \in Lock /\ Distinct(lock') /\ lock' # <<>> /\ (lock # <<>> => lock'[1] = lock[1])
          /\ \A y : Has(lock', y) <=> Has(lock, y) \/ y = r
      BY <2>1, <2>5, <1>1, AppendLock
    <3> QED BY <3>1, <3>2, <3>3, <2>1, <2>2, <1>1, <1>3, RequestOnly
  <2> QED BY <2>3, <2>4, <2>5, <1>6 DEF Ask
<1>7. CASE HasLock(r)
  <2>1. /\ request[r].pc = "lock" /\ Head(lock) = r /\ lock # <<>> /\ lock[1] = r
        /\ \A q \in Requests : request[q].pc # "load"
    BY <1>1, <1>2, <1>7 DEF HasLock, Has, IInv, LockInv, Lock
  <2>2. UNCHANGED <<requestFrame, backend, loaded, endpoint>>
    BY <1>7 DEF HasLock
  <2>3. /\ Tail(lock) \in Lock /\ Distinct(Tail(lock))
        /\ \A y : Has(Tail(lock), y) <=> Has(lock, y) /\ y # r
    BY <1>1, <2>1, TailLock
  <2>4. CASE loaded /\ Answered(r, endpoint[backend]) /\ Unlock /\ UNCHANGED boot
    <3>1. PICK rec \in RequestRecord :
              /\ request' = [request EXCEPT ![r] = rec]
              /\ rec.pc \in {"gap", "failed", "using"} /\ rec.host \in {None, backend}
              /\ rec.pc = "using" =>
                    /\ rec.lease /\ backend # None /\ endpoint[backend] # None
                    /\ rec.host = backend /\ rec.server = endpoint[backend]
      BY <2>4, <1>1, <1>4, AnsweredGives
    <3> QED BY <3>1, <2>1, <2>2, <2>3, <2>4, <1>1, RequestOnly DEF Unlock
  <2>5. CASE End(r, "crashed") /\ Unlock /\ UNCHANGED boot
    <3>1. PICK rec \in RequestRecord : /\ request' = [request EXCEPT ![r] = rec]
                                       /\ rec.pc = "crashed" /\ rec.host = None
      BY <2>5, EndGives DEF Ends
    <3> QED BY <3>1, <2>1, <2>2, <2>3, <2>5, <1>1, RequestOnly DEF Unlock
  <2>6. CASE /\ ~loaded /\ backend # None
             /\ request' = [request EXCEPT ![r].pc = "load", ![r].host = backend]
             /\ boot' = [boot EXCEPT ![backend] = Reclaiming]
             /\ UNCHANGED lock
    BY <2>1, <2>2, <2>6, LoadBegins
  <2> QED BY <2>4, <2>5, <2>6, <1>7 DEF HasLock
<1>8. CASE LoadDone(r) \/ LoadRaised(r)
  BY <1>8, LoadEnds
<1>9. CASE Finish(r)
  <2>1. request[r].pc = "using" /\ ~Has(lock, r)
    BY <1>2, <1>9 DEF Finish
  <2>2. PICK how \in {"done", "failed"} : End(r, how)
    BY <1>9 DEF Finish
  <2>3. PICK rec \in RequestRecord : /\ request' = [request EXCEPT ![r] = rec]
                                     /\ rec.pc = how /\ rec.host = None
    BY <2>2, EndGives DEF Ends
  <2>4. UNCHANGED <<requestFrame, backend, loaded, endpoint, boot>> /\ lock' = lock
    BY <1>9 DEF Finish, managerVars, requestFrame
  <2> QED BY <2>1, <2>3, <2>4, <1>1, <1>3, RequestOnly
<1>10. CASE Leave(r)
  <2>1. request[r].pc = "lock"
    BY <1>10 DEF Leave
  <2>2. PICK i \in DOMAIN lock : lock[i] = r /\ lock' = RemoveAt(lock, i)
    BY <1>10 DEF Leave
  <2>3. PICK rec \in RequestRecord : /\ request' = [request EXCEPT ![r] = rec]
                                     /\ rec.pc = "failed" /\ rec.host = None
    BY <1>10, EndGives DEF Leave, Ends
  <2>4. UNCHANGED <<requestFrame, backend, loaded, endpoint, boot>>
    BY <1>10 DEF Leave
  <2>5. /\ lock' \in Lock /\ Distinct(lock')
        /\ \A y : Has(lock', y) <=> Has(lock, y) /\ y # r
        /\ i # 1 => lock' # <<>> /\ lock'[1] = lock[1]
    BY <2>2, <1>1, LeaveLock
  <2>6. (\E q \in Requests : request[q].pc = "load") => i # 1
    BY <2>1, <2>2 DEF IInv, LockInv
  <2> QED BY <2>1, <2>3, <2>4, <2>5, <2>6, <1>1, RequestOnly
<1> QED BY <1>5, <1>6, <1>7, <1>8, <1>9, <1>10 DEF RequestStep

-----------------------------------------------------------------------------
(* The endpoint becomes the stop's: the server changes hands.               *)
LEMMA HandsOver ==
    ASSUME IInv, NEW h \in Hosts, endpoint[h] # None, BeginHalt(h), UNCHANGED <<os, boot>>
    PROVE  /\ halt' \in [Hosts -> HaltRecord] /\ endpoint' \in [Hosts -> Servers \cup {None}]
           /\ endpoint'[h] = None /\ halt'[h].pc = "wait" /\ halt'[h].server = endpoint[h]
           /\ halt[h].server = None
           /\ \A g \in Hosts : g # h => endpoint'[g] = endpoint[g] /\ halt'[g] = halt[g]
           /\ Disjoint' /\ Alive'
<1>1. /\ halt \in [Hosts -> HaltRecord] /\ endpoint \in [Hosts -> Servers \cup {None}]
      /\ halt[h].pc = "off" /\ halt[h].server = None
      /\ halt' = [halt EXCEPT ![h] = [pc |-> "wait", server |-> endpoint[h]]]
      /\ endpoint' = [endpoint EXCEPT ![h] = None]
  BY Types DEF IInv, BootInv, BeginHalt
<1>2. /\ halt' \in [Hosts -> HaltRecord] /\ endpoint' \in [Hosts -> Servers \cup {None}]
      /\ endpoint'[h] = None /\ halt'[h].pc = "wait" /\ halt'[h].server = endpoint[h]
      /\ \A g \in Hosts : g # h => endpoint'[g] = endpoint[g] /\ halt'[g] = halt[g]
  BY <1>1 DEF HaltRecord
<1>3. Disjoint'
  BY <1>2 DEF IInv, Disjoint
<1>4. Alive'
  BY <1>2 DEF IInv, Alive
<1> QED BY <1>1, <1>2, <1>3, <1>4

(* After an unload no chat host has an endpoint, and nobody lost a server.  *)
LEMMA Unloaded ==
    ASSUME IInv, \/ loaded /\ Unload(backend)
                 \/ ~loaded /\ UNCHANGED <<endpoint, halt, loaded>>,
           UNCHANGED <<os, boot>>
    PROVE  /\ halt' \in [Hosts -> HaltRecord] /\ endpoint' \in [Hosts -> Servers \cup {None}]
           /\ loaded' = FALSE /\ \A g \in ChatHosts : endpoint'[g] = None
           /\ \A g \in Sessions : endpoint'[g] = endpoint[g]
           /\ \A g \in Hosts : halt'[g].pc = "wait" <=> halt'[g].server # None
           /\ Disjoint' /\ Alive'
           /\ \A s \in Servers, g \in Hosts : HeldBy(s, g) =>
                 \/ boot[g].server = s \/ halt'[g].server = s
                 \/ g \in Sessions /\ endpoint'[g] = s /\ session[g] \in {"on", "abandoned"}
<1>1. /\ halt \in [Hosts -> HaltRecord] /\ endpoint \in [Hosts -> Servers \cup {None}]
      /\ backend \in ChatHosts \cup {None} /\ loaded \in BOOLEAN /\ IInv
      /\ \A g \in Hosts : halt[g].pc = "wait" <=> halt[g].server # None
  BY Types DEF IInv, BootInv
<1>2. CASE loaded /\ Unload(backend)
  <2>1. backend \in ChatHosts /\ backend \in Hosts /\ endpoint[backend] # None
    BY <1>1, <1>2, HostKinds DEF IInv, ChatHands, LoadedHasEndpoint, Hosts
  <2>2. /\ halt' \in [Hosts -> HaltRecord] /\ endpoint' \in [Hosts -> Servers \cup {None}]
        /\ endpoint'[backend] = None /\ halt'[backend].pc = "wait"
        /\ halt'[backend].server = endpoint[backend] /\ halt[backend].server = None
        /\ \A g \in Hosts : g # backend => endpoint'[g] = endpoint[g] /\ halt'[g] = halt[g]
        /\ Disjoint' /\ Alive'
    BY <1>2, <2>1, HandsOver DEF Unload
  <2>3. \A g \in ChatHosts : endpoint'[g] = None
    BY <2>2 DEF IInv, ChatHands, Hosts
  <2>4. \A g \in Sessions : endpoint'[g] = endpoint[g]
    BY <2>1, <2>2, HostKinds DEF Hosts
  <2>5. \A g \in Hosts : halt'[g].pc = "wait" <=> halt'[g].server # None
    BY <1>1, <2>1, <2>2
  <2>6. ASSUME NEW s \in Servers, NEW g \in Hosts, HeldBy(s, g)
        PROVE  \/ boot[g].server = s \/ halt'[g].server = s
               \/ g \in Sessions /\ endpoint'[g] = s /\ session[g] \in {"on", "abandoned"}
    <3>1. s # None /\ (g \in ChatHosts \/ g \in Sessions)
      BY HostKinds DEF Hosts
    <3>2. CASE g = backend
      BY <2>6, <3>1, <3>2, <2>1, <2>2 DEF HeldBy
    <3>3. CASE g # backend
      BY <2>6, <3>3, <2>2 DEF HeldBy
    <3> QED BY <3>2, <3>3
  <2> QED BY <2>2, <2>3, <2>4, <2>5, <2>6, <1>2 DEF Unload
<1>3. CASE ~loaded /\ UNCHANGED <<endpoint, halt, loaded>>
  <2>1. \A g \in ChatHosts : endpoint[g] = None
    BY <1>3 DEF IInv, ChatHands
  <2>2. Disjoint' /\ Alive'
    BY <1>3 DEF IInv, Disjoint, Alive
  <2>3. ASSUME NEW s \in Servers, NEW g \in Hosts, HeldBy(s, g)
        PROVE  \/ boot[g].server = s \/ halt'[g].server = s
               \/ g \in Sessions /\ endpoint'[g] = s /\ session[g] \in {"on", "abandoned"}
    <3>1. s # None /\ (g \in ChatHosts \/ g \in Sessions)
      BY HostKinds DEF Hosts
    <3>2. g \in Sessions => g # backend
      BY <1>1, HostKinds DEF Hosts
    <3> QED BY <2>3, <3>1, <3>2, <2>1, <1>3 DEF HeldBy
  <2> QED BY <2>1, <2>2, <2>3, <1>1, <1>3
<1> QED BY <1>2, <1>3

LEMMA ReapKeeps ==
    ASSUME IInv, engine = "up", Reap
    PROVE  IInv'
<1>1. /\ UNCHANGED <<engine, faults, request, session, boot, os, file, left, owed, backend,
                    lock, swaps>>
      /\ loaded /\ Unload(backend) /\ lock = <<>> /\ Leases = {}
  BY DEF Reap, swapFrame
<1>2. /\ halt' \in [Hosts -> HaltRecord] /\ endpoint' \in [Hosts -> Servers \cup {None}]
      /\ loaded' = FALSE /\ \A g \in ChatHosts : endpoint'[g] = None
      /\ \A g \in Sessions : endpoint'[g] = endpoint[g]
      /\ \A g \in Hosts : halt'[g].pc = "wait" <=> halt'[g].server # None
      /\ Disjoint' /\ Alive'
      /\ \A s \in Servers, g \in Hosts : HeldBy(s, g) =>
            \/ boot[g].server = s \/ halt'[g].server = s
            \/ g \in Sessions /\ endpoint'[g] = s /\ session[g] \in {"on", "abandoned"}
  BY <1>1, Unloaded
<1>3. TypeOK'
  BY <1>1, <1>2 DEF IInv, TypeOK, HaltRecord
<1>4. LockInv'
  BY <1>1, <1>2 DEF IInv, LockInv
<1>5. BootInv'
  BY <1>1, <1>2 DEF IInv, BootInv, BootOk, EngineBoot, ChatBoot, SessionBoot
<1>6. ChatHands' /\ SwapInv' /\ Quiet' /\ Owed' /\ NotAgain'
  BY <1>1, <1>2 DEF IInv, ChatHands, LoadedHasEndpoint, SwapInv, Quiet, Owed, NotAgain, Live
<1>7. UsingInv'
  BY <1>1 DEF IInv, UsingInv, Leases
<1>8. NoLeak'
  BY <1>1, <1>2 DEF IInv, NoLeak, HeldBy, Live
<1> QED BY <1>2, <1>3, <1>4, <1>5, <1>6, <1>7, <1>8 DEF IInv

LEMMA BeginSwapKeeps ==
    ASSUME IInv, engine = "up", BeginSwap
    PROVE  IInv'
<1> USE DEF swapFrame
<1>1. /\ lock \in Lock /\ Distinct(lock) /\ ~Has(lock, Swap)
      /\ swaps \in 0..MaxSwaps /\ backend \in ChatHosts \cup {None}
      /\ request \in [Requests -> RequestRecord]
  BY Types DEF IInv, BeginSwap, Has, Range
<1>2. /\ lock' \in Lock /\ Distinct(lock') /\ lock' # <<>> /\ (lock # <<>> => lock'[1] = lock[1])
      /\ \A y : Has(lock', y) <=> Has(lock, y) \/ y = Swap
  BY <1>1, AppendLock DEF BeginSwap
<1>3. swaps' = swaps + 1 /\ swaps' \in 0..MaxSwaps
  BY <1>1, HostKinds DEF BeginSwap
<1>4. TypeOK'
  BY <1>2, <1>3 DEF IInv, TypeOK, BeginSwap, Lock, Distinct
<1>5. LockInv'
  BY <1>2, HostKinds DEF IInv, LockInv, BeginSwap
<1>6. SwapInv'
  <2>1. /\ swaps \in Nat /\ backend \in Nat
        /\ \A q \in Requests : request[q].host \in Nat
    <3>1. ChatHosts \cup {None} \subseteq Nat
      BY HostKinds DEF None
    <3>2. \A q \in Requests : request[q].host \in ChatHosts \cup {None}
      BY <1>1 DEF RequestRecord
    <3> QED BY <1>1, <3>1, <3>2
  <2>2. backend <= swaps + 1 /\ \A q \in Requests : request[q].host <= swaps + 1
    BY DEF IInv, SwapInv
  <2>3. backend' = backend /\ request' = request
    BY DEF BeginSwap
  <2> QED BY <2>1, <2>2, <2>3, <1>3 DEF SwapInv
<1>7. BootInv' /\ ChatHands' /\ Disjoint' /\ Alive' /\ UsingInv' /\ NoLeak' /\ NotAgain'
  BY DEF IInv, BootInv, BootOk, EngineBoot, ChatBoot, SessionBoot, ChatHands, LoadedHasEndpoint,
         Disjoint, Alive, UsingInv, NoLeak, HeldBy, Live, NotAgain, BeginSwap
<1>8. Quiet' /\ Owed'
  BY DEF IInv, Quiet, Owed, Live, BeginSwap
<1> QED BY <1>4, <1>5, <1>6, <1>7, <1>8 DEF IInv

LEMMA ReplaceKeeps ==
    ASSUME IInv, Replace
    PROVE  IInv'
<1>1. /\ UNCHANGED <<engine, faults, request, session, boot, os, file, left, owed, swaps>>
      /\ backend' \in {None, swaps + 1} /\ lock' = Tail(lock) /\ lock # <<>> /\ Head(lock) = Swap
      /\ \/ loaded /\ Unload(backend)
         \/ ~loaded /\ UNCHANGED <<endpoint, halt, loaded>>
  BY DEF Replace, swapFrame, Unlock
<1>2. /\ lock \in Lock /\ lock[1] = Swap /\ Distinct(lock) /\ Has(lock, Swap)
      /\ swaps \in 0..MaxSwaps /\ engine = "up"
  BY <1>1, Types DEF IInv, Quiet, Has, Lock
<1>3. /\ lock' \in Lock /\ Distinct(lock')
      /\ \A y : Has(lock', y) <=> Has(lock, y) /\ y # Swap
  BY <1>1, <1>2, TailLock
<1>4. /\ halt' \in [Hosts -> HaltRecord] /\ endpoint' \in [Hosts -> Servers \cup {None}]
      /\ loaded' = FALSE /\ \A g \in ChatHosts : endpoint'[g] = None
      /\ \A g \in Sessions : endpoint'[g] = endpoint[g]
      /\ \A g \in Hosts : halt'[g].pc = "wait" <=> halt'[g].server # None
      /\ Disjoint' /\ Alive'
      /\ \A s \in Servers, g \in Hosts : HeldBy(s, g) =>
            \/ boot[g].server = s \/ halt'[g].server = s
            \/ g \in Sessions /\ endpoint'[g] = s /\ session[g] \in {"on", "abandoned"}
  BY <1>1, Unloaded
<1>5. \A q \in Requests : request[q].pc # "load"
  BY <1>2, HostKinds DEF IInv, LockInv
<1>6. /\ backend' \in ChatHosts \cup {None}
      /\ backend' <= swaps + 1
      /\ \A q \in Requests : request[q].host <= swaps
  BY <1>1, <1>2, HostKinds DEF IInv, SwapInv, ChatHosts, None
<1>7. TypeOK'
  BY <1>1, <1>3, <1>4, <1>6 DEF IInv, TypeOK, HaltRecord, Lock, Distinct
<1>8. LockInv'
  BY <1>1, <1>3, <1>5, HostKinds DEF IInv, LockInv
<1>9. BootInv'
  BY <1>1, <1>4, <1>5 DEF IInv, BootInv, BootOk, EngineBoot, ChatBoot, SessionBoot
<1>10. ChatHands' /\ Quiet' /\ Owed' /\ NotAgain'
  BY <1>1, <1>2, <1>4 DEF IInv, ChatHands, LoadedHasEndpoint, Quiet, Owed, NotAgain, Live
<1>11. SwapInv'
  <2>1. \A q \in Requests : request[q].host <= swaps + 1
    BY DEF IInv, SwapInv
  <2> QED BY <1>1, <1>3, <1>6, <2>1 DEF SwapInv
<1>12. UsingInv'
  <2>1. ASSUME NEW q \in Requests, request[q].pc = "using" PROVE request[q].host # backend'
    <3>1. request[q].host # None /\ request[q].host \in ChatHosts \cup {None}
          /\ request[q].host <= swaps
      BY <2>1, <1>6, Types DEF IInv, UsingInv, RequestRecord
    <3> QED BY <3>1, <1>1, <1>2, HostKinds
  <2> QED BY <2>1, <1>1 DEF IInv, UsingInv
<1>13. NoLeak'
  BY <1>1, <1>4 DEF IInv, NoLeak, HeldBy, Live
<1> QED BY <1>4, <1>7, <1>8, <1>9, <1>10, <1>11, <1>12, <1>13 DEF IInv

-----------------------------------------------------------------------------
(* A session's translator. *)
LEMMA SessionStartsKeeps ==
    ASSUME IInv, engine = "up", NEW s \in Sessions, SessionStarts(s)
    PROVE  IInv'
<1> USE DEF sessionFrame, managerVars
<1>1. /\ s \in Hosts /\ s # Engine /\ s \notin ChatHosts /\ session[s] = "new"
      /\ boot[s].pc = "off" /\ boot[s].server = None /\ endpoint[s] = None
      /\ UNCHANGED <<sessionFrame, endpoint, halt>>
  BY HostKinds DEF IInv, BootInv, SessionBoot, BootOk, SessionStarts, Hosts
<1>2. /\ session' \in [Sessions -> {"new", "loading", "on", "abandoned", "ended"}]
      /\ session'[s] = "loading" /\ \A g \in Sessions : g # s => session'[g] = session[g]
  BY DEF IInv, TypeOK, SessionStarts
<1>3. /\ boot' \in [Hosts \cup {Engine} -> BootRecord] /\ boot'[s] = Reclaiming
      /\ \A g \in Hosts \cup {Engine} : g # s => boot'[g] = boot[g]
  BY Types, BootRecords, <1>1 DEF IInv, SessionStarts
<1>4. \A g \in Hosts \cup {Engine} : boot'[g].server = boot[g].server
  BY <1>1, <1>3, BootRecords
<1>5. TypeOK'
  BY <1>1, <1>2, <1>3 DEF IInv, TypeOK, BootRecord
<1>6. LockInv' /\ ChatHands' /\ SwapInv' /\ UsingInv' /\ Quiet' /\ Disjoint' /\ Alive'
  BY <1>1, <1>4 DEF IInv, LockInv, ChatHands, LoadedHasEndpoint, SwapInv, UsingInv, Quiet,
                    Disjoint, Alive
<1>7. BootInv'
  <2>1. ASSUME NEW g \in Hosts \cup {Engine} PROVE BootOk(g)'
    <3>1. CASE g = s
      BY <3>1, <1>1, <1>3, BootRecords DEF BootOk
    <3>2. CASE g # s
      BY <3>2, <1>3 DEF IInv, BootInv, BootOk
    <3> QED BY <3>1, <3>2
  <2>2. EngineBoot' /\ ChatBoot'
    BY <1>1, <1>3 DEF IInv, BootInv, EngineBoot, ChatBoot, Hosts
  <2>3. SessionBoot'
    BY <1>1, <1>2, <1>3 DEF IInv, BootInv, SessionBoot, Hosts
  <2> QED BY <2>1, <2>2, <2>3, <1>1 DEF IInv, BootInv
<1>8. NoLeak'
  <2>1. \A p \in Servers, g \in Hosts : HeldBy(p, g) => HeldBy(p, g)'
    BY <1>1, <1>2, <1>4 DEF HeldBy
  <2> QED BY <2>1, <1>1 DEF IInv, NoLeak, Live
<1>9. Owed' /\ NotAgain'
  BY <1>1, <1>3 DEF IInv, Owed, NotAgain, Live
<1> QED BY <1>5, <1>6, <1>7, <1>8, <1>9 DEF IInv

LEMMA SessionAbandonsKeeps ==
    ASSUME IInv, engine = "up", NEW s \in Sessions, SessionAbandons(s)
    PROVE  IInv'
<1> USE DEF sessionFrame, managerVars
<1>1. session[s] = "loading" /\ endpoint[s] = None /\ UNCHANGED <<sessionFrame, endpoint, boot, halt>>
  BY DEF IInv, BootInv, SessionBoot, SessionAbandons
<1>2. /\ session' \in [Sessions -> {"new", "loading", "on", "abandoned", "ended"}]
      /\ session'[s] = "abandoned" /\ \A g \in Sessions : g # s => session'[g] = session[g]
  BY DEF IInv, TypeOK, SessionAbandons
<1>3. TypeOK'
  BY <1>1, <1>2 DEF IInv, TypeOK
<1>4. LockInv' /\ ChatHands' /\ SwapInv' /\ UsingInv' /\ Quiet' /\ Disjoint' /\ Alive'
  BY <1>1 DEF IInv, LockInv, ChatHands, LoadedHasEndpoint, SwapInv, UsingInv, Quiet,
              Disjoint, Alive
<1>5. BootInv'
  BY <1>1, <1>2 DEF IInv, BootInv, BootOk, EngineBoot, ChatBoot, SessionBoot
<1>6. NoLeak'
  <2>1. \A p \in Servers, g \in Hosts : HeldBy(p, g) => HeldBy(p, g)'
    BY <1>1, <1>2 DEF HeldBy
  <2> QED BY <2>1, <1>1 DEF IInv, NoLeak, Live
<1>7. Owed' /\ NotAgain'
  BY <1>1 DEF IInv, Owed, NotAgain, Live
<1> QED BY <1>3, <1>4, <1>5, <1>6, <1>7 DEF IInv

LEMMA SessionLoadedKeeps ==
    ASSUME IInv, NEW s \in Sessions, SessionLoaded(s)
    PROVE  IInv'
<1> USE DEF sessionFrame, managerVars
<1>1. /\ s \in Hosts /\ s # Engine /\ s \notin ChatHosts
      /\ boot[s].pc \in {"opened", "raised"} /\ endpoint[s] = None
      /\ session[s] \in {"loading", "abandoned"} /\ engine = "up"
      /\ boot[s].server \in Servers \cup {None}
      /\ boot[s].server # None <=> boot[s].pc = "opened"
      /\ UNCHANGED <<sessionFrame, halt>>
  <2>1. /\ s \in Hosts /\ s # Engine /\ s \notin ChatHosts
        /\ boot[s].pc \in {"opened", "raised"} /\ UNCHANGED <<sessionFrame, halt>>
    BY HostKinds DEF SessionLoaded, Hosts
  <2>2. endpoint[s] = None /\ session[s] \in {"loading", "abandoned"} /\ engine = "up"
    BY <2>1 DEF IInv, BootInv, SessionBoot, Quiet
  <2>3. /\ boot[s].server \in Servers \cup {None}
        /\ boot[s].server # None <=> boot[s].pc = "opened"
    BY <2>1, Types DEF IInv, BootInv, BootOk, BootRecord
  <2> QED BY <2>1, <2>2, <2>3
<1>2. /\ session' \in [Sessions -> {"new", "loading", "on", "abandoned", "ended"}]
      /\ session'[s] \in {"on", "abandoned", "ended"}
      /\ boot[s].pc = "opened" => session'[s] \in {"on", "abandoned"}
      /\ \A g \in Sessions : g # s => session'[g] = session[g]
  BY <1>1 DEF IInv, TypeOK, SessionLoaded
<1>3. /\ boot' \in [Hosts \cup {Engine} -> BootRecord] /\ boot'[s] = NoBoot
      /\ \A g \in Hosts \cup {Engine} : g # s => boot'[g] = boot[g]
      /\ endpoint' \in [Hosts -> Servers \cup {None}] /\ endpoint'[s] = boot[s].server
      /\ \A g \in Hosts : g # s => endpoint'[g] = endpoint[g]
  BY Types, BootRecords, <1>1 DEF IInv, SessionLoaded
<1>4. TypeOK'
  BY <1>1, <1>2, <1>3 DEF IInv, TypeOK, BootRecord
<1>5. LockInv' /\ SwapInv' /\ Quiet'
  BY <1>1 DEF IInv, LockInv, SwapInv, Quiet
<1>6. ChatHands' /\ UsingInv'
  <2>1. \A g \in ChatHosts : endpoint'[g] = endpoint[g]
    BY <1>1, <1>3 DEF Hosts
  <2>2. loaded => backend \in ChatHosts
    BY Types DEF IInv, ChatHands, LoadedHasEndpoint
  <2> QED BY <2>1, <2>2, <1>1 DEF IInv, ChatHands, LoadedHasEndpoint, UsingInv
<1>7. BootInv'
  <2>1. ASSUME NEW g \in Hosts \cup {Engine} PROVE BootOk(g)'
    <3>1. CASE g = s
      BY <3>1, <1>1, <1>3, BootRecords DEF BootOk
    <3>2. CASE g # s
      BY <3>2, <1>3 DEF IInv, BootInv, BootOk
    <3> QED BY <3>1, <3>2
  <2>2. EngineBoot' /\ ChatBoot'
    BY <1>1, <1>3 DEF IInv, BootInv, EngineBoot, ChatBoot, Hosts
  <2>3. SessionBoot'
    BY <1>1, <1>2, <1>3, BootRecords DEF IInv, BootInv, SessionBoot, Hosts
  <2> QED BY <2>1, <2>2, <2>3, <1>1 DEF IInv, BootInv
<1>8. Disjoint'
  BY <1>1, <1>3, BootRecords DEF IInv, Disjoint
<1>9. Alive'
  BY <1>1, <1>3, BootRecords DEF IInv, Alive
<1>10. NoLeak'
  <2>1. \A p \in Servers, g \in Hosts : HeldBy(p, g) => HeldBy(p, g)'
    BY <1>1, <1>2, <1>3, BootRecords, HostKinds DEF HeldBy
  <2> QED BY <2>1, <1>1 DEF IInv, NoLeak, Live
<1>11. Owed' /\ NotAgain'
  BY <1>1, <1>3 DEF IInv, Owed, NotAgain, Live
<1> QED BY <1>4, <1>5, <1>6, <1>7, <1>8, <1>9, <1>10, <1>11 DEF IInv

LEMMA SessionStopsKeeps ==
    ASSUME IInv, engine = "up", NEW s \in Sessions, SessionStops(s)
    PROVE  IInv'
<1> USE DEF sessionFrame, managerVars
<1>1. /\ s \in Hosts /\ s \notin ChatHosts /\ session[s] = "on" /\ boot[s].pc = "off"
      /\ UNCHANGED <<sessionFrame, boot>>
  BY HostKinds DEF IInv, BootInv, SessionBoot, SessionStops, Hosts
<1>2. /\ session' \in [Sessions -> {"new", "loading", "on", "abandoned", "ended"}]
      /\ session'[s] = "ended" /\ \A g \in Sessions : g # s => session'[g] = session[g]
  BY DEF IInv, TypeOK, SessionStops
<1>3. /\ halt' \in [Hosts -> HaltRecord] /\ endpoint' \in [Hosts -> Servers \cup {None}]
      /\ endpoint'[s] = None
      /\ \A g \in Hosts : g # s => endpoint'[g] = endpoint[g] /\ halt'[g] = halt[g]
      /\ endpoint[s] # None => halt'[s].server = endpoint[s] /\ halt[s].server = None
      /\ endpoint[s] = None => halt'[s] = halt[s]
      /\ halt'[s].pc = "wait" <=> halt'[s].server # None
      /\ Disjoint' /\ Alive'
  <2>1. CASE endpoint[s] = None
    <3>1. UNCHANGED <<endpoint, halt>>
      BY <2>1 DEF SessionStops, BeginHalt
    <3> QED BY <2>1, <3>1, <1>1, Types DEF IInv, BootInv, Disjoint, Alive
  <2>2. CASE endpoint[s] # None
    <3>1. BeginHalt(s) /\ UNCHANGED <<os, boot>>
      BY <1>1 DEF SessionStops
    <3> QED BY <2>2, <3>1, <1>1, HandsOver
  <2> QED BY <2>1, <2>2
<1>4. TypeOK'
  BY <1>1, <1>2, <1>3 DEF IInv, TypeOK, HaltRecord
<1>5. LockInv' /\ SwapInv' /\ Quiet'
  BY <1>1 DEF IInv, LockInv, SwapInv, Quiet
<1>6. ChatHands' /\ UsingInv'
  <2>1. \A g \in ChatHosts : endpoint'[g] = endpoint[g]
    BY <1>1, <1>3 DEF Hosts
  <2>2. loaded => backend \in ChatHosts
    BY Types DEF IInv, ChatHands, LoadedHasEndpoint
  <2> QED BY <2>1, <2>2, <1>1 DEF IInv, ChatHands, LoadedHasEndpoint, UsingInv
<1>7. BootInv'
  <2>1. \A g \in Hosts : halt'[g].pc = "wait" <=> halt'[g].server # None
    BY <1>3 DEF IInv, BootInv
  <2>2. SessionBoot'
    BY <1>1, <1>2, <1>3 DEF IInv, BootInv, SessionBoot, Hosts
  <2> QED BY <2>1, <2>2, <1>1 DEF IInv, BootInv, BootOk, EngineBoot, ChatBoot
<1>8. NoLeak'
  <2>1. \A p \in Servers, g \in Hosts : HeldBy(p, g) => HeldBy(p, g)'
    BY <1>1, <1>2, <1>3, HostKinds DEF HeldBy
  <2> QED BY <2>1, <1>1 DEF IInv, NoLeak, Live
<1>9. Owed' /\ NotAgain'
  BY <1>1 DEF IInv, Owed, NotAgain, Live
<1> QED BY <1>3, <1>4, <1>5, <1>6, <1>7, <1>8, <1>9 DEF IInv

-----------------------------------------------------------------------------
(* The engine is killed, starts again and serves: what answered and was on  *)
(* file is owed, and the reclaim that comes first has all of it to read.    *)
LEMMA CrashKeeps ==
    ASSUME IInv, Crash
    PROVE  IInv'
<1>1. /\ engine' = "down" /\ backend' = 1 /\ loaded' = FALSE /\ lock' = <<>>
      /\ UNCHANGED <<swaps, os, file>>
      /\ left' = {s \in Servers : Live(s)}
      /\ owed' = {s \in Servers : os[s] = "up" /\ s \in {file[l] : l \in Labels}}
  BY DEF Crash
<1>2. /\ endpoint' = [h \in Hosts |-> None] /\ halt' = [h \in Hosts |-> NoHalt]
      /\ boot' = [h \in Hosts \cup {Engine} |-> NoBoot]
  BY DEF Crash
<1>3. /\ request' \in [Requests -> RequestRecord]
      /\ \A r \in Requests : /\ request'[r].pc \in Ends \cup {"idle"}
                             /\ request'[r].host \in {None, request[r].host}
  BY Types DEF IInv, Crash, Fresh, RequestRecord, RequestPc, Ends
<1>4. TypeOK'
  <2>1. left' \subseteq Servers /\ owed' \subseteq left'
    BY <1>1, HostKinds DEF Live
  <2>2. session' \in [Sessions -> {"new", "loading", "on", "abandoned", "ended"}]
    BY DEF Crash
  <2>3. faults' \in 0..MaxFaults
    BY ModelServersAssumption DEF IInv, TypeOK, Crash
  <2>4. backend' \in ChatHosts
    BY <1>1, HostKinds
  <2>5. /\ endpoint' \in [Hosts -> Servers \cup {None}] /\ halt' \in [Hosts -> HaltRecord]
        /\ boot' \in [Hosts \cup {Engine} -> BootRecord]
    BY <1>2, BootRecords DEF HaltRecord, NoHalt
  <2>6. lock' \in Seq(Requests \cup {Swap}) /\ \A i, j \in DOMAIN lock' : lock'[i] = lock'[j] => i = j
    BY <1>1
  <2> QED BY <1>1, <1>3, <2>1, <2>2, <2>3, <2>4, <2>5, <2>6
          DEF IInv, TypeOK, RequestRecord, BootRecord, HaltRecord
<1>5. LockInv'
  BY <1>1, <1>3 DEF LockInv, Has, Ends
<1>6. BootInv'
  BY <1>1, <1>2, BootRecords, HostKinds
     DEF BootInv, BootOk, EngineBoot, ChatBoot, SessionBoot, NoHalt, Hosts
<1>7. ChatHands' /\ Disjoint' /\ Alive'
  BY <1>1, <1>2, BootRecords DEF ChatHands, LoadedHasEndpoint, Disjoint, Alive, NoHalt, Hosts
<1>8. SwapInv'
  <2>1. swaps \in Nat /\ ~Has(lock', Swap)
    BY <1>1, Types, HostKinds DEF IInv, Has
  <2> QED BY <1>1, <1>3, <2>1 DEF IInv, SwapInv, None
<1>9. UsingInv' /\ NoLeak' /\ Quiet' /\ NotAgain'
  BY <1>1, <1>2, <1>3, BootRecords, HostKinds
     DEF UsingInv, NoLeak, Live, Quiet, NotAgain, Ends, NoHalt
<1>10. Owed'
  BY <1>1 DEF Owed, Live
<1> QED BY <1>4, <1>5, <1>6, <1>7, <1>8, <1>9, <1>10 DEF IInv

LEMMA LifespanKeeps ==
    ASSUME IInv, Restart \/ Serves
    PROVE  IInv'
<1> USE DEF managerVars
<1>1. /\ UNCHANGED <<managerVars, faults, request, session, endpoint, halt, os, file, left, owed>>
      /\ \/ engine = "down" /\ engine' = "reclaiming" /\ boot' = [boot EXCEPT ![Engine] = Reclaiming]
         \/ /\ engine = "reclaiming" /\ boot[Engine].pc = "opened" /\ engine' = "up"
            /\ boot' = [boot EXCEPT ![Engine] = NoBoot]
  BY DEF Restart, Serves
<1>2. /\ boot' \in [Hosts \cup {Engine} -> BootRecord]
      /\ \A g \in Hosts : boot'[g] = boot[g]
      /\ \/ engine' = "reclaiming" /\ boot'[Engine] = Reclaiming
         \/ engine' = "up" /\ boot'[Engine] = NoBoot
  BY <1>1, Types, BootRecords, HostKinds DEF IInv
<1>3. TypeOK'
  BY <1>1, <1>2 DEF IInv, TypeOK, BootRecord
<1>4. LockInv' /\ ChatHands' /\ SwapInv' /\ UsingInv' /\ Quiet' /\ Disjoint' /\ Alive' /\ NoLeak'
  BY <1>1, <1>2 DEF IInv, LockInv, ChatHands, LoadedHasEndpoint, SwapInv, UsingInv, Quiet,
                    Disjoint, Alive, NoLeak, HeldBy, Live
<1>5. BootInv'
  <2>1. ASSUME NEW g \in Hosts \cup {Engine} PROVE BootOk(g)'
    <3>1. CASE g = Engine
      BY <3>1, <1>2, BootRecords DEF BootOk
    <3>2. CASE g # Engine
      BY <3>2, <1>2 DEF IInv, BootInv, BootOk
    <3> QED BY <3>1, <3>2
  <2>2. EngineBoot'
    BY <1>2, BootRecords DEF EngineBoot
  <2>3. ChatBoot' /\ SessionBoot'
    BY <1>1, <1>2 DEF IInv, BootInv, ChatBoot, SessionBoot, Hosts
  <2> QED BY <2>1, <2>2, <2>3, <1>1 DEF IInv, BootInv
<1>6. Owed'
  <2>1. CASE engine = "down"
    <3>1. engine' = "reclaiming" /\ boot'[Engine].todo = OnFile
      BY <2>1, <1>1, <1>2, BootRecords
    <3> QED BY <2>1, <3>1, <1>1 DEF IInv, Owed, Live, OnFile
  <2>2. CASE engine = "reclaiming" /\ boot[Engine].pc = "opened"
    <3>1. boot[Engine].todo = {} /\ engine' = "up"
      BY <2>2, <1>1 DEF IInv, BootInv, EngineBoot
    <3> QED BY <2>2, <3>1, <1>1 DEF IInv, Owed, Live
  <2> QED BY <2>1, <2>2, <1>1
<1>7. NotAgain'
  BY <1>2, BootRecords DEF NotAgain
<1> QED BY <1>3, <1>4, <1>5, <1>6, <1>7 DEF IInv

-----------------------------------------------------------------------------
LEMMA InitHolds == Init => IInv
<1> SUFFICES ASSUME Init PROVE IInv
  OBVIOUS
<1>1. TypeOK
  <2>1. /\ endpoint \in [Hosts -> Servers \cup {None}] /\ halt \in [Hosts -> HaltRecord]
        /\ boot \in [Hosts \cup {Engine} -> BootRecord]
    BY BootRecords DEF Init, HaltRecord, NoHalt
  <2>2. lock \in Seq(Requests \cup {Swap}) /\ \A i, j \in DOMAIN lock : lock[i] = lock[j] => i = j
    BY DEF Init
  <2>3. request \in [Requests -> RequestRecord]
    BY DEF Init, Fresh, RequestRecord, RequestPc
  <2>4. /\ backend \in ChatHosts /\ swaps \in 0..MaxSwaps /\ faults \in 0..MaxFaults
        /\ engine = "up" /\ loaded = FALSE /\ left = {} /\ owed = {}
        /\ os \in [Servers -> {"none"}] /\ file \in [Labels -> {None}]
        /\ session \in [Sessions -> {"new"}]
    BY ModelServersAssumption, HostKinds DEF Init
  <2> QED BY <2>1, <2>2, <2>3, <2>4 DEF TypeOK, RequestRecord, BootRecord, HaltRecord
<1>2. LockInv /\ SwapInv /\ UsingInv /\ Quiet /\ Owed /\ NotAgain
  BY HostKinds, BootRecords
     DEF Init, LockInv, Has, SwapInv, UsingInv, Quiet, Owed, NotAgain, Fresh, None
<1>3. BootInv
  BY HostKinds, BootRecords
     DEF Init, BootInv, BootOk, EngineBoot, ChatBoot, SessionBoot, NoHalt, Hosts
<1>4. ChatHands /\ Disjoint /\ Alive /\ NoLeak
  BY BootRecords DEF Init, ChatHands, LoadedHasEndpoint, Disjoint, Alive, NoLeak, Live, NoHalt, Hosts
<1> QED BY <1>1, <1>2, <1>3, <1>4 DEF IInv

LEMMA StepHolds == IInv /\ [Next]_vars => IInv'
<1> SUFFICES ASSUME IInv, [Next]_vars PROVE IInv'
  OBVIOUS
<1>1. CASE Work
  BY <1>1, ReadFileKeeps, KillAndUnlinkKeeps, BootStepKeeps, HaltStepKeeps, MovingIsUp,
     RequestKeeps, SessionLoadedKeeps, ReplaceKeeps, LifespanKeeps DEF Work
<1>2. CASE engine = "up" /\ \E r \in Requests : Begin(r) \/ Leave(r)
  BY <1>2, RequestKeeps
<1>3. CASE engine = "up" /\ \E s \in Sessions : SessionStarts(s) \/ SessionAbandons(s)
                                              \/ SessionStops(s)
  BY <1>3, SessionStartsKeeps, SessionAbandonsKeeps, SessionStopsKeeps
<1>4. CASE engine = "up" /\ (Reap \/ BeginSwap)
  BY <1>4, ReapKeeps, BeginSwapKeeps
<1>5. CASE \E s \in Servers : ServerStep(s)
  BY <1>5, ServerStepKeeps
<1>6. CASE Crash
  BY <1>6, CrashKeeps
<1>7. CASE UNCHANGED vars
  BY <1>7 DEF IInv, TypeOK, LockInv, BootInv, BootOk, EngineBoot, ChatBoot, SessionBoot, ChatHands,
     LoadedHasEndpoint, Disjoint, Alive, SwapInv, UsingInv, NoLeak, HeldBy, Live, Quiet, Owed,
     NotAgain, vars, managerVars
<1> QED BY <1>1, <1>2, <1>3, <1>4, <1>5, <1>6, <1>7 DEF Next

LEMMA AlwaysIInv == Spec => []IInv
BY InitHolds, StepHolds, PTL DEF Spec

(* A loaded manager has a backend with an endpoint to ask, and no request   *)
(* is answered by a server that was stopped under it, unless the user       *)
(* replaced the backend it asked (model_manager.py:16, 123).                *)
THEOREM HeldStaysUsable == Spec => []HeldIsUsable
<1>1. IInv => HeldIsUsable
  <2> SUFFICES ASSUME IInv PROVE HeldIsUsable
    OBVIOUS
  <2>1. ASSUME NEW r \in Requests, request[r].pc = "using", request[r].host = backend
        PROVE  os[request[r].server] # "stopped"
    <3>1. request[r].server = endpoint[backend] /\ endpoint[backend] # None
          /\ backend \in Hosts
      BY <2>1, Types DEF IInv, UsingInv, ChatHands, LoadedHasEndpoint, Hosts
    <3> QED BY <3>1 DEF IInv, Alive
  <2> QED BY <2>1 DEF HeldIsUsable, LeasedIsNotStopped, IInv, ChatHands
<1> QED BY <1>1, AlwaysIInv, PTL

(* Every live server of this run is in the hands of the backend, of a       *)
(* session, of a start or of a stop, or of a session given up while it      *)
(* loaded; and what the last run left answering and on file is gone before  *)
(* this one serves (llama_server.py:12, 352).                               *)
THEOREM NobodyIsOrphaned == Spec => []NoOrphans
<1>1. IInv => NoOrphans
  <2> SUFFICES ASSUME IInv PROVE NoOrphans
    OBVIOUS
  <2>1. NothingLeaks
    <3> SUFFICES ASSUME NEW s \in Servers \ left, Live(s)
                 PROVE  s \in Held \/ \E h \in Sessions : session[h] = "abandoned" /\ endpoint[h] = s
      BY DEF NothingLeaks
    <3>1. PICK h \in Hosts : HeldBy(s, h)
      BY DEF IInv, NoLeak
    <3>2. CASE endpoint[h] = s /\ (h = backend \/ (h \in Sessions /\ session[h] = "on"))
      BY <3>2 DEF Held
    <3>3. CASE endpoint[h] = s /\ h \in Sessions /\ session[h] = "abandoned"
      BY <3>3
    <3>4. CASE boot[h].server = s \/ halt[h].server = s
      BY <3>4 DEF Held
    <3> QED BY <3>1, <3>2, <3>3, <3>4 DEF HeldBy
  <2>2. OwedIsReclaimed
    BY DEF IInv, Owed, OwedIsReclaimed
  <2> QED BY <2>1, <2>2 DEF NoOrphans
<1> QED BY <1>1, AlwaysIInv, PTL
=============================================================================
