----------------------------- MODULE Migrations -----------------------------
(***************************************************************************)
(* Opening the library (core/store.py): a new file is built from SCHEMA, an *)
(* old one is copied and taken from version to version, each step within a  *)
(* transaction that also stamps the version; a newer one is refused.  An    *)
(* open is the sequence of its statements, and a stop after any of them,    *)
(* whether a crash or a statement that raises, leaves what is on disk.      *)
(***************************************************************************)
EXTENDS Naturals, FiniteSets, SequencesExt, Folds

SchemaVersion == 5
CoreTables == <<"sessions", "session_groups", "segments", "chat_conversations", "glossary">>
StatusColumns == <<"status", "status_detail", "refined_at">>

(* A file: its version, tables, the columns of sessions that came later, what  *)
(* a chat message hangs off, what the triggers of the full-text index let in,  *)
(* and its rows.  Sessions and conversations are numbers; conversations[c] is  *)
(* the session of c.                                                           *)
NewFile == [version |-> 0, tables |-> {}, columns |-> {}, chat |-> "none",
            triggers |-> "none", segments |-> <<>>, messages |-> {},
            conversations |-> <<>>, index |-> <<>>]
Shape(f) == [tables |-> f.tables, columns |-> f.columns, chat |-> f.chat,
             triggers |-> f.triggers]
Talk(f) == {<<IF f.chat = "session" THEN m.key ELSE f.conversations[m.key], m.ord>> :
               m \in f.messages}

(* CREATE TABLE IF NOT EXISTS.                                                 *)
Created(f, t) ==
    IF t \in f.tables THEN f
    ELSE [f EXCEPT !.tables = @ \union {t},
                   !.columns = IF t = "sessions" THEN {"group_id"} \union Range(StatusColumns)
                               ELSE @,
                   !.chat = IF t = "chat_messages" THEN "conversation" ELSE @]

(* _rebuild_legacy_chat: one conversation for each session with messages.      *)
Rebuilt(f) ==
    LET sids == SetToSeq({m.key : m \in f.messages})
    IN [f EXCEPT !.chat = "conversation", !.conversations = sids,
                 !.messages = {[key |-> CHOOSE c \in DOMAIN sids : sids[c] = m.key,
                                ord |-> m.ord] : m \in @}]

Raises(f, s) == s.do = "add" /\ s.column \in f.columns
Applied(f, s) ==
    CASE s.do = "create" -> Created(f, s.table)
      [] s.do = "chat" -> IF f.chat = "session" THEN Rebuilt(f) ELSE Created(f, "chat_messages")
      [] s.do = "probe" -> [f EXCEPT !.columns = @ \union {s.column}]
      [] s.do = "add" -> [f EXCEPT !.columns = @ \union {s.column}]
      [] s.do = "triggers" -> [f EXCEPT !.triggers = IF @ = "none" THEN "finals" ELSE @]
      [] s.do = "drop" -> [f EXCEPT !.triggers = "none"]
      [] s.do = "fill" -> [f EXCEPT !.index = @ \o [i \in DOMAIN f.segments |-> i]]
      [] s.do = "stamp" -> [f EXCEPT !.version = s.version]

Create(t) == [do |-> "create", table |-> t]
CreateAll(ts) == [i \in DOMAIN ts |-> Create(ts[i])]
Do(what) == <<[do |-> what]>>

(* The five migrations.                                                        *)
Body(target) ==
    CASE target = 1 -> CreateAll(CoreTables) \o Do("chat")
                       \o <<[do |-> "probe", column |-> "group_id"]>>
      [] target = 2 -> [i \in DOMAIN StatusColumns |->
                           [do |-> "add", column |-> StatusColumns[i]]]
      [] target = 3 -> <<Create("session_minutes")>>
      [] target = 4 -> <<Create("segments_fts")>> \o Do("triggers") \o Do("fill")
      [] target = 5 -> Do("drop") \o Do("triggers")
Stamp(version) == <<[do |-> "stamp", version |-> version]>>
(* Mutant: the implicit transactions of sqlite3, which do not cover DDL. *)
MigrationInTheOpen(target) == Body(target) \o Stamp(target)
Migration(target) == Do("begin") \o Body(target) \o Stamp(target) \o Do("commit")

BuildNew ==
    CreateAll(CoreTables \o <<"session_minutes", "segments_fts">>) \o Do("triggers")
    \o <<Create("chat_messages")>> \o Stamp(SchemaVersion)
(* _backup, which removes the copy of an earlier attempt first.                *)
Backup == Do("unlink") \o Do("connect") \o Do("copy")
Migrate(f) == FlattenSeq([i \in 1..SchemaVersion - f.version |-> Migration(f.version + i)])

Upgrade(f) ==
    CASE f.version > SchemaVersion -> Do("refuse")
      [] f.version = SchemaVersion -> <<>>
      [] f.version = 0 /\ "sessions" \notin f.tables -> BuildNew
      [] OTHER -> Backup \o Migrate(f)

-----------------------------------------------------------------------------
(* The connection: what it sees, what is on disk, whether a transaction is     *)
(* open, whether open has raised, and the copies, by the version they are of.  *)
Connected(f, baks) ==
    [file |-> f, disk |-> f, txn |-> FALSE, raised |-> FALSE, baks |-> baks]
NoCopies == [v \in 0..SchemaVersion |-> <<>>]

Execute(db, s) ==
    LET at == db.disk.version IN
    CASE db.raised -> db
      [] s.do = "refuse" -> [db EXCEPT !.raised = TRUE]
      [] s.do = "unlink" -> [db EXCEPT !.baks[at] = <<>>]
      [] s.do = "connect" -> [db EXCEPT !.baks[at] = <<NewFile>>]
      [] s.do = "copy" -> [db EXCEPT !.baks[at] = <<db.file>>]
      [] s.do = "begin" -> [db EXCEPT !.txn = TRUE]
      [] s.do = "commit" -> [db EXCEPT !.txn = FALSE, !.disk = db.file]
      [] OTHER ->
            IF Raises(db.file, s)
            THEN [db EXCEPT !.raised = TRUE, !.txn = FALSE, !.file = db.disk]
            ELSE LET f == Applied(db.file, s)
                 IN [db EXCEPT !.file = f, !.disk = IF db.txn THEN @ ELSE f]

Open(f, baks) == FoldLeft(Execute, Connected(f, baks), Upgrade(f))
StoppedAfter(n, f, baks) ==
    FoldLeft(Execute, Connected(f, baks),
             SubSeq(Upgrade(f), 1, IF n < Len(Upgrade(f)) THEN n ELSE Len(Upgrade(f))))
(* An open that stops after n statements, and the one after it.                *)
Reopened(n, f) ==
    LET stopped == StoppedAfter(n, f, NoCopies)
    IN [stopped |-> stopped, opened |-> Open(stopped.disk, stopped.baks)]
=============================================================================
