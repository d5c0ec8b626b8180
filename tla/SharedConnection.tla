-------------------------- MODULE SharedConnection --------------------------
(***************************************************************************)
(* Inside the calls of core/store.py.  Every call of every coroutine runs  *)
(* on one aiosqlite connection, which executes one statement at a time and *)
(* opens a transaction at the first statement that writes.  There is one   *)
(* transaction, not one per call: a statement sees what other calls have   *)
(* not committed yet, a commit commits it for them, and a call that raises *)
(* leaves what it has written to the next commit of anyone.                *)
(*                                                                         *)
(* The database here is one session's row and transcript and one chat      *)
(* conversation; a call on anything else does to these what                *)
(* set_session_status does, a commit.                                      *)
(***************************************************************************)
EXTENDS Integers, FiniteSets

CONSTANTS
    Callers,      \* coroutines that call the store, one call each at a time
    Ops,          \* the calls made in this behaviour
    Live,         \* ids of the segments the live session has written
    Whole,        \* ids of the segments a refine pass writes, always the same
    StoreFails,   \* may a statement or a commit raise for lack of disk?
    MaxMessages,  \* bound: chat messages sent
    MaxCrashes    \* bound: crashes

AllOps == {"set_session_status", "delete_session", "upsert_segment_trans",
           "replace_segments", "get_session", "append_chat_message", "clear_chat"}

ASSUME ConnectionAssumption ==
    /\ Ops \subseteq AllOps
    /\ Live \cap Whole = {}
    /\ Live # {}
    /\ Whole # {}
    /\ StoreFails \in BOOLEAN
    /\ MaxMessages \in Nat
    /\ MaxCrashes \in Nat

VARIABLES
    conn,     \* the database as the connection sees it
    disk,     \* the database as of the last commit
    call,     \* what each caller is doing
    sent,     \* how many messages callers have begun to append
    acked,    \* history: messages whose append returned, until cleared
    before,   \* history: before[m] is acked as it was when message m began
    known,    \* history: ids a snapshot of the transcript may have had
    crashes

vars == <<conn, disk, call, sent, acked, before, known, crashes>>

-----------------------------------------------------------------------------
Ids == Live \cup Whole

(* A row of the transcript: none, one with its text, or one that a         *)
(* translation inserted for a segment that is not there, without a text.   *)
RowText == {"none", "text", "ghost"}

Messages == 1..MaxMessages

(* chat: which message has which ordinal. *)
Database ==
    [exists : BOOLEAN, rows : [Ids -> RowText],
     chat : SUBSET [ord : Nat, msg : Messages]]

NoRows == [i \in Ids |-> "none"]

(* After a recording: the live transcript, and a conversation just opened. *)
Recorded ==
    [exists |-> TRUE, rows |-> [i \in Ids |-> IF i \in Live THEN "text" ELSE "none"],
     chat |-> {}]

Transcript(db) == {i \in Ids : db.rows[i] # "none"}
TextOf(db)     == {i \in Ids : db.rows[i] = "text"}
Sent(db)       == {x.msg : x \in db.chat}

(* first, second - about to execute that statement of the call             *)
(* commit        - about to commit                                         *)
(* returned, raised - how the call has ended, as its caller learns         *)
CallPc == {"idle", "first", "second", "commit", "returned", "raised"}

(* row is upsert_segment_trans's segment, msg append_chat_message's        *)
(* message, ord the ordinal it has selected; seen is the transcript that   *)
(* get_session has selected or replace_segments has deleted.               *)
Call == [op : AllOps, pc : CallPc, row : Ids, msg : 0..MaxMessages,
         ord : Nat, seen : SUBSET Ids]

TypeOK ==
    /\ conn \in Database
    /\ disk \in Database
    /\ call \in [Callers -> Call]
    /\ sent \in 0..MaxMessages
    /\ acked \subseteq 1..sent
    /\ before \in [Messages -> SUBSET Messages]
    /\ known \subseteq Ids
    /\ crashes \in Nat

NoCall == [op |-> "get_session", pc |-> "idle", row |-> CHOOSE i \in Ids : TRUE,
           msg |-> 0, ord |-> 0, seen |-> {}]

Init ==
    /\ conn = Recorded
    /\ disk = Recorded
    /\ call = [c \in Callers |-> NoCall]
    /\ sent = 0
    /\ acked = {}
    /\ before = [m \in Messages |-> {}]
    /\ known = Live
    /\ crashes = 0

-----------------------------------------------------------------------------
At(c, op, pc) == call[c].op = op /\ call[c].pc = pc
Goto(c, pc)   == call' = [call EXCEPT ![c].pc = pc]

historyVars == <<sent, acked, before, known, crashes>>

(* A coroutine calls the store. *)
Begin(c, op) ==
    /\ call[c].pc = "idle"
    /\ call' = [call EXCEPT ![c] = [NoCall EXCEPT !.op = op, !.pc = "first"]]
    /\ UNCHANGED <<conn, disk, historyVars>>

(* A translation job writes back to the segments of a snapshot it has      *)
(* taken when it was started.                                              *)
BeginUpsertTrans(c, i) ==
    /\ call[c].pc = "idle"
    /\ i \in known
    /\ call' = [call EXCEPT ![c] = [NoCall EXCEPT !.op = "upsert_segment_trans",
                                                  !.pc = "first", !.row = i]]
    /\ UNCHANGED <<conn, disk, historyVars>>

BeginAppend(c) ==
    /\ call[c].pc = "idle"
    /\ sent < MaxMessages
    /\ sent' = sent + 1
    /\ before' = [before EXCEPT ![sent + 1] = acked]
    /\ call' = [call EXCEPT ![c] = [NoCall EXCEPT !.op = "append_chat_message",
                                                  !.pc = "first", !.msg = sent + 1]]
    /\ UNCHANGED <<conn, disk, acked, known, crashes>>

(* The last statement of every writing call.  It commits what the          *)
(* connection has, whoever wrote it.                                       *)
Commit(c) ==
    /\ call[c].pc = "commit"
    /\ disk' = conn
    /\ Goto(c, "returned")
    /\ acked' = IF call[c].msg \in Sent(conn) THEN acked \cup {call[c].msg} ELSE acked
    /\ UNCHANGED <<conn, sent, before, known, crashes>>

(* A statement or a commit raises: the statement itself is undone, the     *)
(* open transaction is not, and the call does not roll it back.            *)
StorageError(c) ==
    /\ StoreFails
    /\ call[c].pc \in {"first", "second", "commit"}
    /\ Goto(c, "raised")
    /\ UNCHANGED <<conn, disk, historyVars>>

(* The caller has its answer. *)
Done(c) ==
    /\ call[c].pc \in {"returned", "raised"}
    /\ call' = [call EXCEPT ![c] = NoCall]
    /\ UNCHANGED <<conn, disk, historyVars>>

-----------------------------------------------------------------------------
(* Calls with one statement. *)

(* Neither rows nor messages change; every other one-statement call is     *)
(* like it.                                                                *)
UpdateStatus(c) ==
    /\ At(c, "set_session_status", "first")
    /\ Goto(c, "commit")
    /\ UNCHANGED <<conn, disk, historyVars>>

(* The row, and by cascade its segments and conversations. *)
DeleteSession(c) ==
    /\ At(c, "delete_session", "first")
    /\ conn' = [exists |-> FALSE, rows |-> NoRows, chat |-> {}]
    /\ acked' = {}
    /\ Goto(c, "commit")
    /\ UNCHANGED <<disk, sent, before, known, crashes>>

(* INSERT ... ON CONFLICT DO UPDATE: a translation for a segment that is   *)
(* not there makes a row without text.  No session, no row (foreign key).  *)
UpsertTrans(c) ==
    LET i == call[c].row
    IN  /\ At(c, "upsert_segment_trans", "first")
        /\ IF conn.exists
           THEN /\ conn' = IF conn.rows[i] = "none"
                           THEN [conn EXCEPT !.rows[i] = "ghost"] ELSE conn
                /\ Goto(c, "commit")
           ELSE UNCHANGED conn /\ Goto(c, "raised")
        /\ UNCHANGED <<disk, historyVars>>

ClearChat(c) ==
    /\ At(c, "clear_chat", "first")
    /\ conn' = [conn EXCEPT !.chat = {}]
    /\ acked' = {}
    /\ Goto(c, "commit")
    /\ UNCHANGED <<disk, sent, before, known, crashes>>

-----------------------------------------------------------------------------
(* replace_segments: DELETE, then INSERT of every row, then commit. *)

(* Mutant: the rows of before are kept. *)
DeleteNoRows(c) ==
    /\ At(c, "replace_segments", "first")
    /\ call' = [call EXCEPT ![c].pc = "second", ![c].seen = TextOf(conn)]
    /\ UNCHANGED <<conn, disk, historyVars>>

DeleteRows(c) ==
    /\ At(c, "replace_segments", "first")
    /\ conn' = [conn EXCEPT !.rows = NoRows]
    /\ call' = [call EXCEPT ![c].pc = "second", ![c].seen = TextOf(conn)]
    /\ UNCHANGED <<disk, historyVars>>

(* Mutant: one INSERT awaited after the other. *)
InsertRowsOneByOne(c) ==
    /\ At(c, "replace_segments", "second")
    /\ conn.exists
    /\ \E i \in Whole \ Transcript(conn) :
          /\ conn' = [conn EXCEPT !.rows[i] = "text"]
          /\ Goto(c, IF Whole \subseteq Transcript(conn) \cup {i} THEN "commit" ELSE "second")
    /\ known' = known \cup Whole
    /\ UNCHANGED <<disk, sent, acked, before, crashes>>

InsertRows(c) ==
    /\ At(c, "replace_segments", "second")
    /\ conn.exists
    /\ Transcript(conn) \cap Whole = {}
    /\ conn' = [conn EXCEPT !.rows = [i \in Ids |-> IF i \in Whole THEN "text" ELSE conn.rows[i]]]
    /\ known' = known \cup Whole
    /\ Goto(c, "commit")
    /\ UNCHANGED <<disk, sent, acked, before, crashes>>

(* One of the rows violates a key (the session is gone, or a segment of    *)
(* that id has appeared since) or does not fit on the disk.  The rows      *)
(* inserted before it stay.                                                *)
InsertRowsRaises(c) ==
    /\ At(c, "replace_segments", "second")
    /\ ~conn.exists \/ Transcript(conn) \cap Whole # {} \/ StoreFails
    /\ \E done \in SUBSET (IF conn.exists THEN Whole \ Transcript(conn) ELSE {}) :
          conn' = [conn EXCEPT !.rows = [i \in Ids |-> IF i \in done THEN "text" ELSE conn.rows[i]]]
    /\ Goto(c, "raised")
    /\ UNCHANGED <<disk, historyVars>>

-----------------------------------------------------------------------------
(* get_session: the row, then the segments; nothing to commit.  No row,    *)
(* and the answer is None.                                                 *)
SelectSession(c) ==
    /\ At(c, "get_session", "first")
    /\ Goto(c, IF conn.exists THEN "second" ELSE "returned")
    /\ UNCHANGED <<conn, disk, historyVars>>

SelectRows(c) ==
    /\ At(c, "get_session", "second")
    /\ call' = [call EXCEPT ![c].pc = "returned", ![c].seen = Transcript(conn)]
    /\ UNCHANGED <<conn, disk, historyVars>>

-----------------------------------------------------------------------------
(* append_chat_message: SELECT the next ordinal, INSERT, commit. *)
Ords(db) == {x.ord : x \in db.chat}

(* Mutant: the first ordinal that is free. *)
FirstFreeOrd(db) ==
    CHOOSE n \in 0..Cardinality(db.chat) :
        n \notin Ords(db) /\ \A k \in 0..(n - 1) : k \in Ords(db)

(* Mutant: without the + 1. *)
LastOrd(db) ==
    IF db.chat = {} THEN -1
    ELSE CHOOSE n \in Ords(db) : \A k \in Ords(db) : k <= n

(* COALESCE(MAX(ord), -1) + 1 *)
NextOrd(db) ==
    IF db.chat = {} THEN 0
    ELSE (CHOOSE n \in Ords(db) : \A k \in Ords(db) : k <= n) + 1

SelectNextOrd(c) ==
    /\ At(c, "append_chat_message", "first")
    /\ call' = [call EXCEPT ![c].pc = "second", ![c].ord = NextOrd(conn)]
    /\ UNCHANGED <<conn, disk, historyVars>>

(* Mutant: INSERT OR REPLACE. *)
InsertOrReplaceMessage(c) ==
    LET n == call[c].ord
    IN  /\ At(c, "append_chat_message", "second")
        /\ conn' = [conn EXCEPT !.chat = {x \in @ : x.ord # n}
                                            \cup {[ord |-> n, msg |-> call[c].msg]}]
        /\ Goto(c, "commit")
        /\ UNCHANGED <<disk, historyVars>>

(* The ordinal is part of the key. *)
InsertMessage(c) ==
    LET n == call[c].ord
    IN  /\ At(c, "append_chat_message", "second")
        /\ IF conn.exists /\ n \notin Ords(conn)
           THEN /\ conn' = [conn EXCEPT !.chat = @ \cup {[ord |-> n, msg |-> call[c].msg]}]
                /\ Goto(c, "commit")
           ELSE UNCHANGED conn /\ Goto(c, "raised")
        /\ UNCHANGED <<disk, historyVars>>

-----------------------------------------------------------------------------
(* The engine dies and is started again: what was committed is left.       *)
Crash ==
    /\ crashes < MaxCrashes
    /\ crashes' = crashes + 1
    /\ conn' = disk
    /\ call' = [c \in Callers |-> NoCall]
    /\ UNCHANGED <<disk, sent, acked, before, known>>

Statement(c) ==
    \/ UpdateStatus(c)
    \/ DeleteSession(c)
    \/ UpsertTrans(c)
    \/ ClearChat(c)
    \/ DeleteRows(c)
    \/ InsertRows(c)
    \/ InsertRowsRaises(c)
    \/ SelectSession(c)
    \/ SelectRows(c)
    \/ SelectNextOrd(c)
    \/ InsertMessage(c)
    \/ Commit(c)
    \/ StorageError(c)

CallerStep(c) ==
    \/ \E op \in Ops \ {"upsert_segment_trans", "append_chat_message"} : Begin(c, op)
    \/ "upsert_segment_trans" \in Ops /\ \E i \in Ids : BeginUpsertTrans(c, i)
    \/ "append_chat_message" \in Ops /\ BeginAppend(c)
    \/ Statement(c)
    \/ Done(c)

Next ==
    \/ \E c \in Callers : CallerStep(c)
    \/ Crash

Spec == Init /\ [][Next]_vars

-----------------------------------------------------------------------------
MidSwap(c) == At(c, "replace_segments", "second")

(* As long as nothing but swaps, deletions and reads touch the transcript, *)
(* and nothing fails, it is whole (the old rows or the new ones) whenever  *)
(* no swap is between its DELETE and its INSERT, two swaps at once         *)
(* included.                                                               *)
TornOnlyDuringSwap ==
    conn.exists =>
        \/ Transcript(conn) \in {Live, Whole}
        \/ \E c \in Callers : MidSwap(c)

(* Under the same conditions a reader may find no rows, but never some of  *)
(* the old ones or some of the new ones.                                   *)
ReadNeverMixed ==
    \A c \in Callers : At(c, "get_session", "returned") => call[c].seen \in {{}, Live, Whole}

(* A message whose append has returned is neither overwritten by another   *)
(* append that had selected the same ordinal nor lost in a crash.          *)
AckedMessageKept ==
    acked \subseteq Sent(conn) \cap Sent(disk)

(* The conversation reads in the order it was held: a message comes after  *)
(* those that had been stored when it was sent, clearings included.        *)
ChatInTimeOrder ==
    \A x, y \in conn.chat : x.msg \in before[y.msg] => x.ord < y.ord
=============================================================================
