----------------------- MODULE SharedConnection_proofs -----------------------
(***************************************************************************)
(* Type correctness of SharedConnection, what a chat conversation promises *)
(* (for any callers and any mix of calls, failures and crashes included),  *)
(* and what a reader of a transcript may see while nothing fails.          *)
(***************************************************************************)
EXTENDS SharedConnection, TLAPS

(* There is a last message, so that the next ordinal is a number.          *)
HasLast(db) ==
    db.chat # {} => \E n \in Ords(db) : \A k \in Ords(db) : k <= n

TypeInv ==
    /\ TypeOK
    /\ HasLast(conn)
    /\ HasLast(disk)

(* An identifier exists, and NoCall is a call. *)
LEMMA NoCallType ==
    /\ NoCall \in Call
    /\ NoCall.pc = "idle"
<1>1. \E i \in Ids : TRUE
  BY ConnectionAssumption DEF Ids
<1>2. (CHOOSE i \in Ids : TRUE) \in Ids
  BY <1>1
<1>. QED
  BY <1>2, ConnectionAssumption DEF NoCall, Call, AllOps, CallPc

(* The ordinal that is selected is above all there are. *)
LEMMA NextOrdFacts ==
    ASSUME NEW db \in Database, HasLast(db)
    PROVE  /\ NextOrd(db) \in Nat
           /\ \A x \in db.chat : x.ord < NextOrd(db)
<1>1. Ords(db) \subseteq Nat
  BY DEF Ords, Database
<1>2. CASE db.chat = {}
  BY <1>2 DEF NextOrd
<1>3. CASE db.chat # {}
  <2> DEFINE last == CHOOSE n \in Ords(db) : \A k \in Ords(db) : k <= n
  <2>1. last \in Ords(db) /\ \A k \in Ords(db) : k <= last
    BY <1>3 DEF HasLast
  <2>2. NextOrd(db) = last + 1
    BY <1>3 DEF NextOrd
  <2>3. \A x \in db.chat : x.ord \in Ords(db)
    BY DEF Ords
  <2> HIDE DEF last
  <2>. QED
    BY <2>1, <2>2, <2>3, <1>1
<1>. QED
  BY <1>2, <1>3

(* A message added to a conversation leaves it with a last one. *)
LEMMA InsertHasLast ==
    ASSUME NEW db \in Database, HasLast(db), NEW n \in Nat, NEW msg \in Messages
    PROVE  HasLast([db EXCEPT !.chat = @ \cup {[ord |-> n, msg |-> msg]}])
<1> DEFINE new == [db EXCEPT !.chat = @ \cup {[ord |-> n, msg |-> msg]}]
<1>1. Ords(new) = Ords(db) \cup {n}
  <2> DEFINE added == [ord |-> n, msg |-> msg]
  <2>1. new.chat = db.chat \cup {added}
    BY DEF Database
  <2>2. added.ord = n
    OBVIOUS
  <2> HIDE DEF new, added
  <2>. QED
    BY <2>1, <2>2 DEF Ords
<1>2. Ords(db) \subseteq Nat
  BY DEF Ords, Database
<1>3. \E k \in Ords(db) \cup {n} : \A j \in Ords(db) \cup {n} : j <= k
  <2>1. CASE db.chat = {}
    BY <2>1 DEF Ords
  <2>2. CASE db.chat # {}
    <3>1. PICK last \in Ords(db) : \A k \in Ords(db) : k <= last
      BY <2>2 DEF HasLast
    <3>2. CASE n <= last
      BY <3>1, <3>2, <1>2
    <3>3. CASE last < n
      BY <3>1, <3>3, <1>2
    <3>. QED
      BY <3>1, <3>2, <3>3, <1>2
  <2>. QED
    BY <2>1, <2>2
<1>. QED
  BY <1>1, <1>3 DEF HasLast
-----------------------------------------------------------------------------
(* Type correctness. *)
LEMMA TypeInit == Init => TypeInv
<1>1. Recorded \in Database
  BY DEF Recorded, Database, RowText
<1>2. HasLast(Recorded)
  BY DEF Recorded, HasLast
<1>. QED
  BY <1>1, <1>2, NoCallType, ConnectionAssumption DEF Init, TypeInv, TypeOK, Ids, Messages

(* What a caller that is not in the database does. *)
LEMMA TypeCaller ==
    ASSUME TypeInv, NEW c \in Callers,
           \/ \E op \in AllOps : Begin(c, op)
           \/ \E i \in Ids : BeginUpsertTrans(c, i)
           \/ BeginAppend(c)
           \/ Done(c)
    PROVE  TypeInv'
<1> USE NoCallType DEF TypeInv, TypeOK, HasLast, Ords
<1>1. CASE \E op \in AllOps : Begin(c, op)
  <2>1. PICK op \in AllOps : Begin(c, op)
    BY <1>1
  <2>2. [NoCall EXCEPT !.op = op, !.pc = "first"] \in Call
    BY DEF Call, CallPc
  <2>. QED
    BY <2>1, <2>2 DEF Begin, historyVars
<1>2. CASE \E i \in Ids : BeginUpsertTrans(c, i)
  <2>1. PICK i \in Ids : BeginUpsertTrans(c, i)
    BY <1>2
  <2>2. [NoCall EXCEPT !.op = "upsert_segment_trans", !.pc = "first", !.row = i] \in Call
    BY DEF Call, CallPc, AllOps
  <2>. QED
    BY <2>1, <2>2 DEF BeginUpsertTrans, historyVars
<1>3. CASE BeginAppend(c)
  <2>1. sent + 1 \in Messages /\ sent' = sent + 1 /\ sent' \in 0..MaxMessages
    BY <1>3, ConnectionAssumption DEF BeginAppend, Messages
  <2>2. [NoCall EXCEPT !.op = "append_chat_message", !.pc = "first", !.msg = sent + 1] \in Call
    BY <2>1 DEF Call, CallPc, AllOps, Messages
  <2>3. acked \subseteq Messages /\ acked \subseteq 1..(sent + 1)
    BY ConnectionAssumption DEF Messages
  <2>4. before' \in [Messages -> SUBSET Messages]
    BY <1>3, <2>1, <2>3 DEF BeginAppend
  <2>. QED
    BY <1>3, <2>1, <2>2, <2>3, <2>4 DEF BeginAppend
<1>4. CASE Done(c)
  BY <1>4 DEF Done, historyVars
<1>. QED
  BY <1>1, <1>2, <1>3, <1>4

(* Goto keeps a call a call. *)
LEMMA GotoFacts ==
    ASSUME TypeOK, NEW c \in Callers, NEW pc \in CallPc, Goto(c, pc)
    PROVE  /\ call' \in [Callers -> Call]
           /\ call'[c].pc = pc
           /\ \A d \in Callers : /\ d # c => call'[d] = call[d]
                                 /\ call'[d].op = call[d].op
                                 /\ call'[d].msg = call[d].msg
                                 /\ call'[d].ord = call[d].ord
                                 /\ call'[d].seen = call[d].seen
  BY DEF TypeOK, Goto, Call

(* The statements that change rows. *)
LEMMA TypeRows ==
    ASSUME TypeInv, NEW c \in Callers,
           DeleteSession(c) \/ UpsertTrans(c) \/ DeleteRows(c) \/ InsertRows(c)
               \/ InsertRowsRaises(c)
    PROVE  TypeInv'
<1> USE DEF TypeInv, HasLast, Ords
<1>0. /\ "commit" \in CallPc /\ "raised" \in CallPc /\ "second" \in CallPc
      /\ "text" \in RowText /\ "none" \in RowText /\ "ghost" \in RowText
      /\ NoRows \in [Ids -> RowText]
  BY DEF CallPc, RowText, NoRows
<1>1. CASE DeleteSession(c)
  <2>1. conn' \in Database
    BY <1>0, <1>1 DEF DeleteSession, Database
  <2>2. conn'.chat = {}
    BY <1>1 DEF DeleteSession
  <2>3. acked' \subseteq 1..sent'
    BY <1>1 DEF DeleteSession
  <2>. QED
    BY <2>1, <2>2, <2>3, <1>0, <1>1, GotoFacts DEF DeleteSession, TypeOK
<1>2. CASE UpsertTrans(c)
  <2>1. call[c].row \in Ids
    BY DEF TypeOK, Call
  <2>2. conn' \in Database /\ conn'.chat = conn.chat
    BY <2>1, <1>0, <1>2 DEF UpsertTrans, Database, TypeOK
  <2>3. call' \in [Callers -> Call]
    BY <1>0, <1>2, GotoFacts DEF UpsertTrans
  <2>. QED
    BY <2>2, <2>3, <1>2 DEF UpsertTrans, TypeOK, historyVars
<1>3. CASE DeleteRows(c)
  <2>1. conn' \in Database /\ conn'.chat = conn.chat
    BY <1>0, <1>3 DEF DeleteRows, Database, TypeOK
  <2>2. TextOf(conn) \in SUBSET Ids
    BY DEF TextOf
  <2>3. call' \in [Callers -> Call]
    BY <2>2, <1>0, <1>3 DEF DeleteRows, Call, TypeOK
  <2>. QED
    BY <2>1, <2>3, <1>3 DEF DeleteRows, TypeOK, historyVars
<1>4. CASE InsertRows(c)
  <2>1. conn' \in Database /\ conn'.chat = conn.chat
    BY <1>0, <1>4 DEF InsertRows, Database, TypeOK
  <2>2. known' \subseteq Ids
    BY <1>4 DEF InsertRows, TypeOK, Ids
  <2>. QED
    BY <2>1, <2>2, <1>0, <1>4, GotoFacts DEF InsertRows, TypeOK
<1>5. CASE InsertRowsRaises(c)
  <2>1. PICK done \in SUBSET Ids :
           conn' = [conn EXCEPT !.rows = [i \in Ids |-> IF i \in done THEN "text" ELSE conn.rows[i]]]
    BY <1>5 DEF InsertRowsRaises, Ids
  <2>2. conn' \in Database /\ conn'.chat = conn.chat
    BY <2>1, <1>0 DEF Database, TypeOK
  <2>. QED
    BY <2>2, <1>0, <1>5, GotoFacts DEF InsertRowsRaises, TypeOK, historyVars
<1>. QED
  BY <1>1, <1>2, <1>3, <1>4, <1>5

(* The statements about messages, and those that change nothing. *)
LEMMA TypeChat ==
    ASSUME TypeInv, NEW c \in Callers,
           UpdateStatus(c) \/ ClearChat(c) \/ SelectSession(c) \/ SelectRows(c)
               \/ SelectNextOrd(c) \/ StorageError(c)
    PROVE  TypeInv'
<1> USE DEF TypeInv, HasLast, Ords
<1>0. /\ "commit" \in CallPc /\ "raised" \in CallPc /\ "second" \in CallPc
      /\ "returned" \in CallPc
  BY DEF CallPc
<1>1. CASE UpdateStatus(c)
  BY <1>0, <1>1, GotoFacts DEF UpdateStatus, TypeOK, historyVars
<1>2. CASE ClearChat(c)
  <2>1. conn' \in Database /\ conn'.chat = {}
    BY <1>2 DEF ClearChat, Database, TypeOK
  <2>2. acked' \subseteq 1..sent'
    BY <1>2 DEF ClearChat
  <2>. QED
    BY <2>1, <2>2, <1>0, <1>2, GotoFacts DEF ClearChat, TypeOK
<1>3. CASE SelectSession(c)
  BY <1>0, <1>3, GotoFacts DEF SelectSession, TypeOK, historyVars
<1>4. CASE SelectRows(c)
  <2>1. Transcript(conn) \in SUBSET Ids
    BY DEF Transcript
  <2>2. call' \in [Callers -> Call]
    BY <2>1, <1>0, <1>4 DEF SelectRows, Call, TypeOK
  <2>. QED
    BY <2>2, <1>4 DEF SelectRows, TypeOK, historyVars
<1>5. CASE SelectNextOrd(c)
  <2>1. NextOrd(conn) \in Nat
    BY NextOrdFacts DEF TypeOK
  <2>2. call' \in [Callers -> Call]
    BY <2>1, <1>0, <1>5 DEF SelectNextOrd, Call, TypeOK
  <2>. QED
    BY <2>2, <1>5 DEF SelectNextOrd, TypeOK, historyVars
<1>6. CASE StorageError(c)
  BY <1>0, <1>6, GotoFacts DEF StorageError, TypeOK, historyVars
<1>. QED
  BY <1>1, <1>2, <1>3, <1>4, <1>5, <1>6

(* Only messages that callers have begun to send are about, in a call or   *)
(* in a conversation.                                                      *)
Named ==
    /\ \A c \in Callers : call[c].op = "append_chat_message" => call[c].msg \in 1..sent
    /\ Sent(conn) \subseteq 1..sent
    /\ Sent(disk) \subseteq 1..sent

LEMMA TypeInsertMessage ==
    ASSUME TypeInv, Named, NEW c \in Callers, InsertMessage(c)
    PROVE  /\ TypeInv'
           /\ Sent(conn') \subseteq 1..sent
           /\ Sent(conn) \subseteq Sent(conn')
<1>0. /\ call[c].msg \in 1..sent
      /\ call[c].msg \in Messages
      /\ call[c].ord \in Nat
  BY ConnectionAssumption DEF InsertMessage, At, Named, TypeInv, TypeOK, Call, Messages
<1>1. call' \in [Callers -> Call]
  BY GotoFacts DEF InsertMessage, TypeInv, CallPc
<1>2. CASE conn' = conn
  BY <1>1, <1>2 DEF InsertMessage, TypeInv, TypeOK, HasLast, Ords, historyVars, Named, Sent
<1>3. CASE conn' = [conn EXCEPT !.chat = @ \cup {[ord |-> call[c].ord, msg |-> call[c].msg]}]
  <2>1. HasLast(conn')
    BY <1>0, <1>3, InsertHasLast DEF TypeInv, TypeOK
  <2>2. conn' \in Database
    BY <1>0, <1>3 DEF TypeInv, TypeOK, Database
  <2>3. Sent(conn') \subseteq 1..sent /\ Sent(conn) \subseteq Sent(conn')
    <3>1. conn'.chat = conn.chat \cup {[ord |-> call[c].ord, msg |-> call[c].msg]}
      BY <1>3 DEF TypeInv, TypeOK, Database
    <3>. QED
      BY <3>1, <1>0 DEF Named, Sent
  <2>. QED
    BY <1>1, <2>1, <2>2, <2>3 DEF InsertMessage, TypeInv, TypeOK, HasLast, Ords, historyVars
<1>. QED
  BY <1>2, <1>3 DEF InsertMessage

LEMMA TypeCommit ==
    ASSUME TypeInv, Named, NEW c \in Callers, Commit(c)
    PROVE  TypeInv'
<1>1. call' \in [Callers -> Call]
  BY GotoFacts DEF Commit, TypeInv, CallPc
<1>2. acked' \subseteq 1..sent
  BY DEF Commit, Named, TypeInv, TypeOK
<1>. QED
  BY <1>1, <1>2 DEF Commit, TypeInv, TypeOK, HasLast, Ords

LEMMA TypeCrash ==
    ASSUME TypeInv, Crash
    PROVE  TypeInv'
  BY NoCallType DEF Crash, TypeInv, TypeOK, HasLast, Ords

-----------------------------------------------------------------------------
(* The steps of Next, by what they do to a conversation. *)

(* Nothing but what the caller is to do next, or what it has seen. *)
Elsewhere(c) ==
    /\ \/ conn'.chat = conn.chat
       \/ conn'.chat = {} /\ acked' = {}
    /\ acked' = acked \/ acked' = {}
    /\ UNCHANGED <<disk, sent, before>>
    /\ \A d \in Callers \ {c} : call'[d] = call[d]
    /\ \/ call'[c].op # "append_chat_message"
       \/ /\ call'[c].op = call[c].op
          /\ call'[c].msg = call[c].msg
          /\ call'[c].pc \notin {"first", "second"}

LEMMA ElsewhereSteps ==
    ASSUME TypeInv, NEW c \in Callers,
           \/ \E op \in Ops \ {"upsert_segment_trans", "append_chat_message"} : Begin(c, op)
           \/ \E i \in Ids : BeginUpsertTrans(c, i)
           \/ Done(c)
           \/ UpdateStatus(c) \/ DeleteSession(c) \/ UpsertTrans(c) \/ ClearChat(c)
           \/ DeleteRows(c) \/ InsertRows(c) \/ InsertRowsRaises(c)
           \/ SelectSession(c) \/ SelectRows(c) \/ StorageError(c)
    PROVE  Elsewhere(c)
<1> USE DEF TypeInv, TypeOK
<1>1. CASE \E op \in Ops \ {"upsert_segment_trans", "append_chat_message"} : Begin(c, op)
  BY <1>1, NoCallType DEF Begin, Elsewhere, historyVars, Call
<1>2. CASE \E i \in Ids : BeginUpsertTrans(c, i)
  BY <1>2, NoCallType DEF BeginUpsertTrans, Elsewhere, historyVars, Call
<1>3. CASE Done(c)
  BY <1>3 DEF Done, NoCall, Elsewhere, historyVars
<1>4. CASE UpdateStatus(c)
  BY <1>4 DEF UpdateStatus, At, Goto, Call, Elsewhere, historyVars
<1>5. CASE DeleteSession(c)
  BY <1>5 DEF DeleteSession, At, Goto, Call, Elsewhere
<1>6. CASE UpsertTrans(c)
  <2>1. conn'.chat = conn.chat
    BY <1>6 DEF UpsertTrans, Database
  <2>. QED
    BY <1>6, <2>1 DEF UpsertTrans, At, Goto, Call, Elsewhere, historyVars
<1>7. CASE ClearChat(c)
  <2>1. conn'.chat = {}
    BY <1>7 DEF ClearChat, Database
  <2>. QED
    BY <1>7, <2>1 DEF ClearChat, At, Goto, Call, Elsewhere
<1>8. CASE DeleteRows(c)
  <2>1. conn'.chat = conn.chat
    BY <1>8 DEF DeleteRows, Database
  <2>. QED
    BY <1>8, <2>1 DEF DeleteRows, At, Call, Elsewhere, historyVars
<1>9. CASE InsertRows(c)
  <2>1. conn'.chat = conn.chat
    BY <1>9 DEF InsertRows, Database
  <2>. QED
    BY <1>9, <2>1 DEF InsertRows, At, Goto, Call, Elsewhere
<1>10. CASE InsertRowsRaises(c)
  <2>1. conn'.chat = conn.chat
    BY <1>10 DEF InsertRowsRaises, Database
  <2>. QED
    BY <1>10, <2>1 DEF InsertRowsRaises, At, Goto, Call, Elsewhere, historyVars
<1>11. CASE SelectSession(c)
  BY <1>11 DEF SelectSession, At, Goto, Call, Elsewhere, historyVars
<1>12. CASE SelectRows(c)
  BY <1>12 DEF SelectRows, At, Call, Elsewhere, historyVars
<1>13. CASE StorageError(c)
  BY <1>13 DEF StorageError, At, Goto, Call, Elsewhere, historyVars
<1>. QED
  BY <1>1, <1>2, <1>3, <1>4, <1>5, <1>6, <1>7, <1>8, <1>9, <1>10, <1>11, <1>12, <1>13

-----------------------------------------------------------------------------
(* What holds of a conversation, and of the appends under way. *)
Appending(c)     == call[c].op = "append_chat_message"
NotYetStored(c)  == Appending(c) /\ call[c].pc \in {"first", "second"}

(* A message not yet stored is in no conversation and nobody's past. *)
Fresh ==
    \A c \in Callers : NotYetStored(c) =>
        /\ call[c].msg \notin acked
        /\ call[c].msg \notin Sent(conn)
        /\ \A k \in Messages : call[c].msg \notin before[k]

OwnMessages ==
    \A c, d \in Callers : c # d /\ Appending(c) /\ Appending(d) => call[c].msg # call[d].msg

PastIsSent == \A k \in Messages : before[k] \subseteq 1..sent

InTimeOrder(db) ==
    \A x, y \in db.chat : x.msg \in before[y.msg] => x.ord < y.ord

(* An ordinal that is selected comes after the past of its message, though *)
(* another append may take it first.                                       *)
SelectedAbovePast ==
    \A c \in Callers : At(c, "append_chat_message", "second") =>
        \A x \in conn.chat : x.msg \in before[call[c].msg] => x.ord < call[c].ord

ChatInv ==
    /\ TypeInv
    /\ Named
    /\ Fresh
    /\ OwnMessages
    /\ PastIsSent
    /\ InTimeOrder(conn)
    /\ InTimeOrder(disk)
    /\ SelectedAbovePast
    /\ AckedMessageKept

LEMMA ChatInit == Init => ChatInv
<1> SUFFICES ASSUME Init PROVE ChatInv
  OBVIOUS
<1>1. \A c \in Callers : call[c].op # "append_chat_message"
  BY DEF Init, NoCall
<1>2. conn.chat = {} /\ disk.chat = {} /\ acked = {}
  BY DEF Init, Recorded
<1>3. \A k \in Messages : before[k] = {}
  BY DEF Init
<1>. QED
  BY <1>1, <1>2, <1>3, TypeInit
  DEF ChatInv, Named, Fresh, OwnMessages, PastIsSent, InTimeOrder, SelectedAbovePast,
      AckedMessageKept, Sent, Appending, NotYetStored, At

(* A step of another kind takes no message in or up. *)
LEMMA ChatElsewhere ==
    ASSUME ChatInv, TypeInv', NEW c \in Callers, Elsewhere(c)
    PROVE  ChatInv'
<1> USE DEF Elsewhere
<1>1. conn'.chat \subseteq conn.chat /\ Sent(conn') \subseteq Sent(conn)
  BY DEF Sent
<1>2. \A d \in Callers : call'[d].op = "append_chat_message" =>
        /\ call[d].op = "append_chat_message"
        /\ call'[d].msg = call[d].msg
        /\ call'[d].pc \in {"first", "second"} => call'[d] = call[d]
  OBVIOUS
<1>3. Named'
  BY <1>1, <1>2 DEF ChatInv, Named
<1>4. Fresh'
  BY <1>1, <1>2 DEF ChatInv, Fresh, Appending, NotYetStored
<1>5. OwnMessages'
  BY <1>2 DEF ChatInv, OwnMessages, Appending
<1>6. PastIsSent'
  BY DEF ChatInv, PastIsSent
<1>7. InTimeOrder(conn)' /\ InTimeOrder(disk)'
  BY <1>1 DEF ChatInv, InTimeOrder
<1>8. SelectedAbovePast'
  BY <1>1, <1>2 DEF ChatInv, SelectedAbovePast, At
<1>9. AckedMessageKept'
  BY DEF ChatInv, AckedMessageKept, Sent
<1>. QED
  BY <1>3, <1>4, <1>5, <1>6, <1>7, <1>8, <1>9 DEF ChatInv

LEMMA ChatBeginAppend ==
    ASSUME ChatInv, TypeInv', NEW c \in Callers, BeginAppend(c)
    PROVE  ChatInv'
<1>1. /\ call' \in [Callers -> Call]
      /\ call'[c].op = "append_chat_message"
      /\ call'[c].msg = sent + 1
      /\ call'[c].pc = "first"
      /\ \A d \in Callers \ {c} : call'[d] = call[d]
  BY NoCallType DEF BeginAppend, ChatInv, TypeInv, TypeOK, Call
<1>2. /\ sent \in Nat /\ sent' = sent + 1 /\ sent + 1 \in Messages
      /\ sent + 1 \notin 1..sent
      /\ 1..sent \subseteq 1..sent'
      /\ sent' \in 1..sent'
  BY ConnectionAssumption DEF BeginAppend, ChatInv, TypeInv, TypeOK, Messages
<1>3. /\ UNCHANGED <<conn, disk, acked>>
      /\ acked \subseteq 1..sent
      /\ before'[sent + 1] = acked
      /\ \A k \in Messages \ {sent + 1} : before'[k] = before[k]
  BY <1>2 DEF BeginAppend, ChatInv, TypeInv, TypeOK
<1>4. Named'
  BY <1>1, <1>2, <1>3 DEF ChatInv, Named, Sent
<1>5. Fresh'
  <2> SUFFICES ASSUME NEW d \in Callers, NotYetStored(d)'
               PROVE  /\ call'[d].msg \notin acked
                      /\ call'[d].msg \notin Sent(conn)
                      /\ \A k \in Messages : call'[d].msg \notin before'[k]
    BY <1>3 DEF Fresh, Sent
  <2>1. CASE d = c
    BY <2>1, <1>1, <1>2, <1>3 DEF ChatInv, Named, PastIsSent
  <2>2. CASE d # c
    <3>1. NotYetStored(d) /\ call'[d].msg = call[d].msg
      BY <2>2, <1>1 DEF NotYetStored, Appending
    <3>. QED
      BY <3>1, <1>2, <1>3 DEF ChatInv, Fresh
  <2>. QED
    BY <2>1, <2>2
<1>6. OwnMessages'
  BY <1>1, <1>2 DEF ChatInv, OwnMessages, Named, Appending
<1>7. PastIsSent'
  BY <1>2, <1>3 DEF ChatInv, PastIsSent
<1>8. /\ \A x \in conn.chat : x.msg \in Messages /\ x.msg # sent + 1
      /\ \A x \in disk.chat : x.msg \in Messages /\ x.msg # sent + 1
  <2>1. /\ \A x \in conn.chat : x.msg \in Sent(conn)
        /\ \A x \in disk.chat : x.msg \in Sent(disk)
    BY DEF Sent
  <2>2. \A i \in 1..sent : i \in Messages /\ i # sent + 1
    BY ConnectionAssumption DEF ChatInv, TypeInv, TypeOK, Messages
  <2>. QED
    BY <2>1, <2>2 DEF ChatInv, Named
<1>9. InTimeOrder(conn)' /\ InTimeOrder(disk)'
  BY <1>3, <1>8 DEF ChatInv, InTimeOrder
<1>10. SelectedAbovePast'
  <2> SUFFICES ASSUME NEW d \in Callers, At(d, "append_chat_message", "second")',
                      NEW x \in conn.chat, x.msg \in before'[call'[d].msg]
               PROVE  x.ord < call'[d].ord
    BY <1>3 DEF SelectedAbovePast
  <2>1. d # c /\ call'[d] = call[d]
    BY <1>1 DEF At
  <2>2. call[d].msg \in Messages /\ call[d].msg # sent + 1
    <3>1. call[d].msg \in 1..sent
      BY <2>1 DEF At, ChatInv, Named
    <3>. QED
      BY <3>1, ConnectionAssumption DEF ChatInv, TypeInv, TypeOK, Messages
  <2>. QED
    BY <2>1, <2>2, <1>3 DEF ChatInv, SelectedAbovePast, At
<1>11. AckedMessageKept'
  BY <1>3 DEF ChatInv, AckedMessageKept, Sent
<1>. QED
  BY <1>4, <1>5, <1>6, <1>7, <1>9, <1>10, <1>11 DEF ChatInv

LEMMA ChatSelectNextOrd ==
    ASSUME ChatInv, TypeInv', NEW c \in Callers, SelectNextOrd(c)
    PROVE  ChatInv'
<1>1. /\ UNCHANGED <<conn, disk, sent, acked, before>>
      /\ call[c].op = "append_chat_message" /\ call[c].pc = "first"
      /\ call'[c].op = call[c].op
      /\ call'[c].msg = call[c].msg
      /\ call'[c].ord = NextOrd(conn)
      /\ \A d \in Callers \ {c} : call'[d] = call[d]
  BY DEF SelectNextOrd, At, historyVars, ChatInv, TypeInv, TypeOK, Call
<1>2. Named' /\ OwnMessages' /\ PastIsSent' /\ AckedMessageKept'
  BY <1>1 DEF ChatInv, Named, OwnMessages, PastIsSent, AckedMessageKept, Appending, Sent
<1>3. Fresh'
  BY <1>1 DEF ChatInv, Fresh, NotYetStored, Appending, Sent
<1>4. InTimeOrder(conn)' /\ InTimeOrder(disk)'
  BY <1>1 DEF ChatInv, InTimeOrder
<1>5. SelectedAbovePast'
  <2>1. \A x \in conn.chat : x.ord < NextOrd(conn)
    BY NextOrdFacts DEF ChatInv, TypeInv, TypeOK
  <2>. QED
    BY <2>1, <1>1 DEF ChatInv, SelectedAbovePast, At
<1>. QED
  BY <1>2, <1>3, <1>4, <1>5 DEF ChatInv

LEMMA ChatInsertMessage ==
    ASSUME ChatInv, NEW c \in Callers, InsertMessage(c)
    PROVE  ChatInv'
<1>1. /\ TypeInv'
      /\ Sent(conn') \subseteq 1..sent
      /\ Sent(conn) \subseteq Sent(conn')
  BY TypeInsertMessage DEF ChatInv
<1> DEFINE new == [ord |-> call[c].ord, msg |-> call[c].msg]
<1>2. /\ UNCHANGED <<disk, sent, acked, before>>
      /\ At(c, "append_chat_message", "second")
      /\ call'[c].op = "append_chat_message"
      /\ call'[c].msg = call[c].msg
      /\ call'[c].pc \notin {"first", "second"}
      /\ \A d \in Callers \ {c} : call'[d] = call[d]
  BY DEF InsertMessage, At, Goto, historyVars, ChatInv, TypeInv, TypeOK, Call
<1>3. conn'.chat \subseteq conn.chat \cup {new}
  BY DEF InsertMessage, ChatInv, TypeInv, TypeOK, Database
<1>4. new.msg = call[c].msg /\ new.ord = call[c].ord
  OBVIOUS
<1> HIDE DEF new
<1>5. NotYetStored(c) /\ call[c].msg \in Messages
  BY <1>2, ConnectionAssumption
  DEF At, NotYetStored, Appending, ChatInv, Named, Messages, TypeInv, TypeOK
<1>6. Named' /\ OwnMessages' /\ PastIsSent'
  BY <1>1, <1>2 DEF ChatInv, Named, OwnMessages, PastIsSent, Appending, At, Sent
<1>7. Fresh'
  <2> SUFFICES ASSUME NEW d \in Callers, NotYetStored(d)'
               PROVE  call[d].msg \notin Sent(conn') /\ NotYetStored(d) /\ call'[d] = call[d]
    BY <1>2 DEF ChatInv, Fresh, Sent
  <2>1. d # c /\ call'[d] = call[d] /\ NotYetStored(d)
    BY <1>2 DEF NotYetStored, Appending
  <2>2. call[d].msg # call[c].msg /\ call[d].msg \notin Sent(conn)
    BY <2>1, <1>5 DEF ChatInv, OwnMessages, Fresh, NotYetStored
  <2>. QED
    BY <2>1, <2>2, <1>3, <1>4 DEF Sent
<1>8. InTimeOrder(conn)'
  <2> SUFFICES ASSUME NEW x \in conn'.chat, NEW y \in conn'.chat, x.msg \in before[y.msg]
               PROVE  x.ord < y.ord
    BY <1>2 DEF InTimeOrder
  <2>1. y.msg \in Messages
    BY <1>1 DEF TypeInv, TypeOK, Database
  <2>2. x # new
    BY <2>1, <1>4, <1>5 DEF ChatInv, Fresh
  <2>3. x \in conn.chat
    BY <2>2, <1>3
  <2>4. CASE y = new
    BY <2>3, <2>4, <1>2, <1>4 DEF ChatInv, SelectedAbovePast
  <2>5. CASE y \in conn.chat
    BY <2>3, <2>5 DEF ChatInv, InTimeOrder
  <2>. QED
    BY <2>4, <2>5, <1>3
<1>9. InTimeOrder(disk)'
  BY <1>2 DEF ChatInv, InTimeOrder
<1>10. SelectedAbovePast'
  <2> SUFFICES ASSUME NEW d \in Callers, At(d, "append_chat_message", "second")',
                      NEW x \in conn'.chat, x.msg \in before[call'[d].msg]
               PROVE  x.ord < call'[d].ord
    BY <1>2 DEF SelectedAbovePast
  <2>1. d # c /\ call'[d] = call[d]
    BY <1>2 DEF At
  <2>2. call[d].msg \in Messages
    BY <2>1, ConnectionAssumption DEF At, ChatInv, Named, TypeInv, TypeOK, Messages
  <2>3. x \in conn.chat
    BY <2>1, <2>2, <1>3, <1>4, <1>5 DEF ChatInv, Fresh
  <2>. QED
    BY <2>1, <2>3 DEF ChatInv, SelectedAbovePast, At
<1>11. AckedMessageKept'
  BY <1>1, <1>2 DEF ChatInv, AckedMessageKept, Sent
<1>. QED
  BY <1>1, <1>6, <1>7, <1>8, <1>9, <1>10, <1>11 DEF ChatInv

LEMMA ChatCommit ==
    ASSUME ChatInv, NEW c \in Callers, Commit(c)
    PROVE  ChatInv'
<1>1. TypeInv'
  BY TypeCommit DEF ChatInv
<1>2. /\ disk' = conn /\ UNCHANGED <<conn, sent, before>>
      /\ call[c].pc = "commit"
      /\ call'[c].op = call[c].op
      /\ call'[c].msg = call[c].msg
      /\ call'[c].pc = "returned"
      /\ \A d \in Callers \ {c} : call'[d] = call[d]
      /\ acked' \subseteq acked \cup {call[c].msg}
      /\ acked' \subseteq acked \cup Sent(conn)
  BY DEF Commit, Goto, ChatInv, TypeInv, TypeOK, Call
<1>3. Named' /\ OwnMessages' /\ PastIsSent'
  BY <1>2 DEF ChatInv, Named, OwnMessages, PastIsSent, Appending, Sent
<1>4. Fresh'
  BY <1>2 DEF ChatInv, Fresh, NotYetStored, Appending, Sent
<1>5. InTimeOrder(conn)' /\ InTimeOrder(disk)'
  BY <1>2 DEF ChatInv, InTimeOrder
<1>6. SelectedAbovePast'
  BY <1>2 DEF ChatInv, SelectedAbovePast, At
<1>7. AckedMessageKept'
  BY <1>2 DEF ChatInv, AckedMessageKept, Sent
<1>. QED
  BY <1>1, <1>3, <1>4, <1>5, <1>6, <1>7 DEF ChatInv

LEMMA ChatCrash ==
    ASSUME ChatInv, Crash
    PROVE  ChatInv'
<1>1. TypeInv'
  BY TypeCrash DEF ChatInv
<1>2. /\ conn' = disk /\ UNCHANGED <<disk, sent, acked, before>>
      /\ \A d \in Callers : call'[d].op # "append_chat_message"
  BY DEF Crash, NoCall
<1>. QED
  BY <1>1, <1>2 DEF ChatInv, Named, Fresh, OwnMessages, PastIsSent, InTimeOrder,
     SelectedAbovePast, AckedMessageKept, Appending, NotYetStored, At, Sent

LEMMA ChatStep == ChatInv /\ [Next]_vars => ChatInv'
<1> SUFFICES ASSUME ChatInv, [Next]_vars PROVE ChatInv'
  OBVIOUS
<1>1. CASE Crash
  BY <1>1, ChatCrash
<1>2. ASSUME NEW c \in Callers, CallerStep(c) PROVE ChatInv'
  <2>1. CASE BeginAppend(c)
    BY <2>1, ChatBeginAppend, TypeCaller DEF ChatInv
  <2>2. CASE SelectNextOrd(c)
    BY <2>2, ChatSelectNextOrd, TypeChat DEF ChatInv
  <2>3. CASE InsertMessage(c)
    BY <2>3, ChatInsertMessage
  <2>4. CASE Commit(c)
    BY <2>4, ChatCommit
  <2>5. CASE \/ \E op \in Ops \ {"upsert_segment_trans", "append_chat_message"} : Begin(c, op)
             \/ \E i \in Ids : BeginUpsertTrans(c, i)
             \/ Done(c)
    <3>1. Elsewhere(c)
      BY <2>5, ElsewhereSteps DEF ChatInv
    <3>2. TypeInv'
      BY <2>5, TypeCaller, ConnectionAssumption DEF ChatInv
    <3>. QED
      BY <3>1, <3>2, ChatElsewhere
  <2>6. CASE DeleteSession(c) \/ UpsertTrans(c) \/ DeleteRows(c) \/ InsertRows(c)
                 \/ InsertRowsRaises(c)
    <3>1. Elsewhere(c)
      BY <2>6, ElsewhereSteps DEF ChatInv
    <3>2. TypeInv'
      BY <2>6, TypeRows DEF ChatInv
    <3>. QED
      BY <3>1, <3>2, ChatElsewhere
  <2>7. CASE UpdateStatus(c) \/ ClearChat(c) \/ SelectSession(c) \/ SelectRows(c)
                 \/ StorageError(c)
    <3>1. Elsewhere(c)
      BY <2>7, ElsewhereSteps DEF ChatInv
    <3>2. TypeInv'
      BY <2>7, TypeChat DEF ChatInv
    <3>. QED
      BY <3>1, <3>2, ChatElsewhere
  <2>. QED
    BY <1>2, <2>1, <2>2, <2>3, <2>4, <2>5, <2>6, <2>7 DEF CallerStep, Statement
<1>3. CASE UNCHANGED vars
  BY <1>3 DEF vars, ChatInv, TypeInv, TypeOK, HasLast, Ords, Named, Fresh, OwnMessages,
     PastIsSent, InTimeOrder, SelectedAbovePast, AckedMessageKept, Appending, NotYetStored,
     At, Sent
<1>. QED
  BY <1>1, <1>2, <1>3 DEF Next

LEMMA ChatHolds == Spec => []ChatInv
  BY ChatInit, ChatStep, PTL DEF Spec

(* The database and every call on it keep their types; the next ordinal of *)
(* append_chat_message is always a number.                                 *)
THEOREM ConnectionTypeCorrect == Spec => []TypeOK
<1>1. ChatInv => TypeOK
  BY DEF ChatInv, TypeInv
<1>. QED
  BY <1>1, ChatHolds, PTL

(* A message whose append_chat_message has returned is in the conversation *)
(* and on disk, whoever else writes, raises or crashes meanwhile.          *)
THEOREM AckedIsKept == Spec => []AckedMessageKept
<1>1. ChatInv => AckedMessageKept
  BY DEF ChatInv
<1>. QED
  BY <1>1, ChatHolds, PTL

(* Two messages of a conversation are in the order in which they were      *)
(* sent, although append_chat_message selects its ordinal in one statement *)
(* and uses it in another.                                                 *)
THEOREM ChatReadsInTimeOrder == Spec => []ChatInTimeOrder
<1>1. ChatInv => ChatInTimeOrder
  BY DEF ChatInv, InTimeOrder, ChatInTimeOrder
<1>. QED
  BY <1>1, ChatHolds, PTL

-----------------------------------------------------------------------------
(* The transcript, while only swaps, deletions, reads and commits are      *)
(* made and nothing fails.                                                 *)
SwapsOnly ==
    /\ Ops \cap {"upsert_segment_trans"} = {}
    /\ ~StoreFails
    /\ MaxCrashes = 0

(* A swap that has deleted finds nothing, or what another one has inserted *)
(* since.                                                                  *)
SwapInv ==
    /\ \A c \in Callers : call[c].op # "upsert_segment_trans"
    /\ TornOnlyDuringSwap
    /\ conn.exists /\ (\E c \in Callers : MidSwap(c)) => Transcript(conn) \in {{}, Whole}
    /\ ~conn.exists => Transcript(conn) = {}
    /\ \A c \in Callers : call[c].op = "get_session" => call[c].seen \in {{}, Live, Whole}

LEMMA SwapInit == Init => SwapInv
<1> SUFFICES ASSUME Init PROVE SwapInv
  OBVIOUS
<1>1. \A c \in Callers : call[c].op = "get_session" /\ call[c].seen = {}
  BY DEF Init, NoCall
<1>2. Transcript(conn) = Live
  BY DEF Init, Recorded, Transcript, Ids
<1>. QED
  BY <1>1, <1>2 DEF SwapInv, TornOnlyDuringSwap, MidSwap, At, Init, Recorded

(* Where the callers stand after a step of c. *)
Stands(c, mid) ==
    /\ call'[c].op # "upsert_segment_trans"
    /\ \A d \in Callers \ {c} : call'[d] = call[d]
    /\ MidSwap(c)' <=> mid
    /\ call'[c].op = "get_session" => call'[c].seen \in {{}, Live, Whole}

(* A step that leaves the rows alone and is not the end of a swap. *)
LEMMA SwapRowsKept ==
    ASSUME SwapInv, NEW c \in Callers, Stands(c, FALSE), ~MidSwap(c),
           \/ conn'.exists = conn.exists /\ conn'.rows = conn.rows
           \/ ~conn'.exists /\ conn'.rows = NoRows
    PROVE  SwapInv'
<1>1. \/ conn'.exists = conn.exists /\ Transcript(conn') = Transcript(conn)
      \/ ~conn'.exists /\ Transcript(conn') = {}
  BY DEF Transcript, NoRows
<1>2. \A d \in Callers : MidSwap(d)' <=> MidSwap(d)
  BY DEF Stands, MidSwap, At
<1>3. TornOnlyDuringSwap'
  BY <1>1, <1>2 DEF SwapInv, TornOnlyDuringSwap, Transcript
<1>. QED
  BY <1>1, <1>2, <1>3 DEF SwapInv, Stands, Transcript

LEMMA SwapDelete ==
    ASSUME TypeOK, SwapInv, NEW c \in Callers, DeleteRows(c)
    PROVE  SwapInv'
<1>1. Transcript(conn') = {}
  BY DEF DeleteRows, NoRows, Transcript, Ids, TypeOK, Database
<1>2. Stands(c, TRUE)
  BY DEF DeleteRows, Stands, MidSwap, At, TypeOK, Call
<1>. QED
  BY <1>1, <1>2 DEF SwapInv, TornOnlyDuringSwap, Stands, Transcript

(* A swap ends: the rows are whole, though perhaps another's. *)
LEMMA SwapInsert ==
    ASSUME SwapsOnly, TypeOK, SwapInv, NEW c \in Callers, InsertRows(c) \/ InsertRowsRaises(c)
    PROVE  SwapInv'
<1>0. MidSwap(c)
  BY DEF InsertRows, InsertRowsRaises, MidSwap
<1>1. Stands(c, FALSE)
  BY DEF InsertRows, InsertRowsRaises, Stands, MidSwap, At, Goto, TypeOK, Call, SwapInv
<1>2. conn'.exists = conn.exists
  BY DEF InsertRows, InsertRowsRaises, TypeOK, Database
<1>3. conn.exists => Transcript(conn') = Whole
  <2> SUFFICES ASSUME conn.exists PROVE Transcript(conn') = Whole
    OBVIOUS
  <2>1. Transcript(conn) \in {{}, Whole}
    BY <1>0 DEF SwapInv
  <2>2. CASE InsertRows(c)
    <3>1. conn'.rows = [i \in Ids |-> IF i \in Whole THEN "text" ELSE conn.rows[i]]
      BY <2>2 DEF InsertRows, TypeOK, Database
    <3>2. \A i \in Ids : conn.rows[i] # "none" => i \in Whole
      BY <2>1 DEF Transcript
    <3>. QED
      BY <3>1, <3>2 DEF Transcript, Ids
  <2>3. CASE InsertRowsRaises(c)
    <3>1. Transcript(conn) = Whole
      BY <2>1, <2>3 DEF InsertRowsRaises, SwapsOnly
    <3>2. conn'.rows = [i \in Ids |-> conn.rows[i]]
      BY <2>3, <3>1 DEF InsertRowsRaises, TypeOK, Database
    <3>. QED
      BY <3>1, <3>2 DEF Transcript
  <2>. QED
    BY <2>2, <2>3
<1>4. ~conn.exists => ~conn'.exists /\ Transcript(conn') = {}
  <2> SUFFICES ASSUME ~conn.exists PROVE ~conn'.exists /\ Transcript(conn') = {}
    OBVIOUS
  <2>1. InsertRowsRaises(c)
    BY DEF InsertRows
  <2>2. conn' = [conn EXCEPT !.rows = [i \in Ids |-> conn.rows[i]]]
    BY <2>1 DEF InsertRowsRaises
  <2>3. \A i \in Ids : conn.rows[i] = "none"
    BY DEF SwapInv, Transcript
  <2>. QED
    BY <1>2, <2>2, <2>3 DEF Transcript, TypeOK, Database
<1>. QED
  BY <1>1, <1>2, <1>3, <1>4 DEF SwapInv, TornOnlyDuringSwap, Stands, Transcript

LEMMA SwapStep ==
    ASSUME SwapsOnly, TypeOK, TypeOK', SwapInv, [Next]_vars
    PROVE  SwapInv'
<1>1. ASSUME NEW c \in Callers, CallerStep(c) PROVE SwapInv'
  <2>1. CASE DeleteRows(c)
    BY <2>1, SwapDelete
  <2>2. CASE InsertRows(c) \/ InsertRowsRaises(c)
    BY <2>2, SwapInsert
  <2>3. CASE \/ \E op \in Ops \ {"upsert_segment_trans", "append_chat_message"} : Begin(c, op)
             \/ BeginAppend(c)
             \/ Done(c)
    <3>1. /\ \A d \in Callers \ {c} : call'[d] = call[d]
          /\ \/ call'[c].pc = "first" /\ call'[c].op # "upsert_segment_trans"
             \/ call'[c] = NoCall
          /\ call'[c].seen = {}
      <4> NoCall.seen = {}
        BY DEF NoCall
      <4>1. CASE \E op \in Ops \ {"upsert_segment_trans", "append_chat_message"} : Begin(c, op)
        BY <4>1, NoCallType DEF Begin, TypeOK, Call
      <4>2. CASE BeginAppend(c)
        BY <4>2, NoCallType DEF BeginAppend, TypeOK, Call
      <4>3. CASE Done(c)
        BY <4>3, NoCallType DEF Done, TypeOK
      <4>. QED
        BY <2>3, <4>1, <4>2, <4>3
    <3>2. Stands(c, FALSE)
      BY <3>1 DEF Stands, MidSwap, At, NoCall
    <3>3. ~MidSwap(c) /\ conn' = conn
      BY <2>3 DEF Begin, BeginAppend, Done, MidSwap, At
    <3>. QED
      BY <3>2, <3>3, SwapRowsKept
  <2>4. CASE DeleteSession(c)
    <3>1. Stands(c, FALSE) /\ ~MidSwap(c) /\ ~conn'.exists /\ conn'.rows = NoRows
      BY <2>4 DEF DeleteSession, Stands, MidSwap, At, Goto, TypeOK, Call
    <3>. QED
      BY <3>1, SwapRowsKept
  <2>5. CASE ClearChat(c) \/ InsertMessage(c)
    <3>1. Stands(c, FALSE) /\ ~MidSwap(c)
      BY <2>5 DEF ClearChat, InsertMessage, Stands, MidSwap, At, Goto, TypeOK, Call
    <3>2. conn'.exists = conn.exists /\ conn'.rows = conn.rows
      BY <2>5 DEF ClearChat, InsertMessage, TypeOK, Database
    <3>. QED
      BY <3>1, <3>2, SwapRowsKept
  <2>6. CASE UpdateStatus(c) \/ SelectSession(c) \/ SelectRows(c) \/ SelectNextOrd(c) \/ Commit(c)
    <3>1. ~MidSwap(c) /\ conn' = conn
      BY <2>6 DEF UpdateStatus, SelectSession, SelectRows, SelectNextOrd, Commit, MidSwap, At
    <3>2. Stands(c, FALSE)
      BY <2>6 DEF UpdateStatus, SelectSession, SelectRows, SelectNextOrd, Commit, Stands,
         MidSwap, At, Goto, TypeOK, Call, SwapInv
    <3>. QED
      BY <3>1, <3>2, SwapRowsKept
  <2>. QED
    BY <1>1, <2>1, <2>2, <2>3, <2>4, <2>5, <2>6
    DEF CallerStep, Statement, SwapsOnly, StorageError, UpsertTrans, At, SwapInv
<1>2. ~Crash
  BY DEF Crash, SwapsOnly, TypeOK
<1>3. CASE UNCHANGED vars
  BY <1>3 DEF vars, SwapInv, TornOnlyDuringSwap, MidSwap, At, Transcript
<1>. QED
  BY <1>1, <1>2, <1>3 DEF Next

(* Swaps of one transcript, any number of them at once, leave it whole     *)
(* whenever none of them is between its DELETE and its INSERT, as long as  *)
(* no translation is written back and no statement fails.                  *)
THEOREM SwapsLeaveWhole ==
    ASSUME SwapsOnly
    PROVE  Spec => []TornOnlyDuringSwap
<1>1. SwapInv /\ TypeOK /\ TypeOK' /\ [Next]_vars => SwapInv'
  BY SwapStep
<1>2. SwapInv => TornOnlyDuringSwap
  BY DEF SwapInv
<1>. QED
  BY <1>1, <1>2, SwapInit, ConnectionTypeCorrect, PTL DEF Spec

(* Under the same conditions get_session answers with the old rows, with   *)
(* the new ones or with none.                                              *)
THEOREM ReadsAreNeverMixed ==
    ASSUME SwapsOnly
    PROVE  Spec => []ReadNeverMixed
<1>1. SwapInv /\ TypeOK /\ TypeOK' /\ [Next]_vars => SwapInv'
  BY SwapStep
<1>2. SwapInv => ReadNeverMixed
  BY DEF SwapInv, ReadNeverMixed, At
<1>. QED
  BY <1>1, <1>2, SwapInit, ConnectionTypeCorrect, PTL DEF Spec
=============================================================================
