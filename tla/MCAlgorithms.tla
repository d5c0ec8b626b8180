---------------------------- MODULE MCAlgorithms ----------------------------
(* Algorithms on every input of a few elements.                             *)
EXTENDS Algorithms, TLC
MCAccelerated == <<"vulkan", "metal", "cuda">>
UpTo(S, n) == UNION {[1..k -> S] : k \in 0..n}
NonEmpty(S, n) == UpTo(S, n) \ {<<>>}

MCAudio == UpTo(0..2, 5)
MCTurn == [chars : {2, 5}, ends : BOOLEAN]
MCSegments ==
    {[i \in DOMAIN s |-> [t0 |-> 4 * (i - 1), t1 |-> 4 * (i - 1) + s[i].long, turns |-> s[i].turns]] :
        s \in NonEmpty([long : {2, 4}, turns : NonEmpty(MCTurn, 1)], 3)
              \union NonEmpty([long : {0, 4}, turns : NonEmpty(MCTurn, 2)], 2)}
MCTexts == NonEmpty(0..2, 4)
MCLines == UpTo({1, 2, 4, 9}, 4)
MCReplies == NonEmpty({[kind |-> "document", summary |-> <<"a">>, items |-> {1}],
                       [kind |-> "document", summary |-> <<"b">>, items |-> {2, 3}],
                       [kind |-> "document", summary |-> <<>>, items |-> {}],
                       [kind |-> "words"], [kind |-> "nothing"]}, 3)
MCWindow == {[t0 |-> t, t1 |-> t + 4, label |-> l] : t \in {0, 2, 4, 6}, l \in {1, 2}}
MCInterval == [t0 |-> 1, ends |-> {1, 9}, windows |-> UpTo(MCWindow, 3),
               chars |-> NonEmpty({1, 3}, 3)]
MCLabellings == NonEmpty(1..3, 5)
MCMeetings ==
    NonEmpty({[kind |-> "short"], [kind |-> "failed"]}
             \union {[kind |-> "voice", at |-> n] : n \in {0, 2, 3, 5}}, 4)
MCModel == [tier : 1..3, need : {0, 6, 20}, backend : {"llama", "whisper"}]
MCCatalogues ==
    {[i \in DOMAIN s |-> [id |-> i, tier |-> s[i].tier, need |-> s[i].need,
                          backend |-> s[i].backend]] : s \in UpTo(MCModel, 2)}
    \union {[i \in DOMAIN s |-> [id |-> i, tier |-> s[i].tier, need |-> s[i].need,
                                 backend |-> "llama"]] :
               s \in [1..3 -> [tier : {1, 2, 3}, need : {6, 20}]]}
MCCards == {[vram |-> 4, unified |-> FALSE], [vram |-> 12, unified |-> FALSE],
            [vram |-> 12, unified |-> TRUE]}
MCMachines == [ram : {0, 8, 16}, gpus : SUBSET MCCards,
               accelerators : {<<"cpu">>, <<"cuda", "vulkan", "cpu">>, <<"vulkan", "cpu">>}]
MCSections == [enabled : BOOLEAN, path : BOOLEAN, model : {None, 1, 2},
               backend : {"llama", "whisper", "openai_compatible", "mock"}]
MCRuntimes == [builtin : {"cpu"}, installed : SUBSET {"cuda", "vulkan"},
               published : SUBSET {"cuda", "vulkan"},
               ruledOut : {<<>>, <<"cuda">>, <<"cuda", "metal">>}]
MCSizes == 0..11
MCScores == [{"zh", "en", "ja"} -> {10, 50, 60, 70}]
MCIdent == [word : BOOLEAN, n : 1..2]
MCVersions == [core : NonEmpty(0..1, 2) \union {<<1, 0, 1>>}, pre : UpTo(MCIdent, 1) \union
                  {<<[word |-> TRUE, n |-> 1], [word |-> FALSE, n |-> 1]>>}]
One(k, v) == Dict(k :> v)
Slot(kids) == One("chat", Dict(kids))
MCKeys == {"chat", "backend", "model", "endpoint", "base_url", "api_key", "update", "check"}
MCBundled == Dict("chat" :> Dict("backend" :> Leaf(1) @@
                                 "endpoint" :> Dict("base_url" :> Leaf(1) @@ "api_key" :> Leaf(1)))
                  @@ "update" :> Dict("check" :> Leaf(1)))
MCUserFiles == {Dict(<<>>), Slot("model" :> Leaf(2)),
                Slot("endpoint" :> Dict("api_key" :> Leaf(2))),
                Dict("chat" :> Dict("backend" :> Leaf(2)) @@ "update" :> Dict("check" :> Leaf(2)))}
MCUpdates ==
    UpTo({Slot("model" :> Leaf(3)), Slot("model" :> Leaf(4) @@ "backend" :> Leaf(4)),
          Slot("backend" :> Leaf(5) @@ "model" :> Leaf(5) @@
               "endpoint" :> Dict("base_url" :> Leaf(5) @@ "api_key" :> Leaf(5))),
          One("update", Dict("check" :> Leaf(6)))}, 3)
MCEnvs == {Dict(<<>>), Slot("backend" :> Leaf(9)),
           Slot("endpoint" :> Dict("api_key" :> Leaf(9)))}
MCCalls == NonEmpty({[do |-> d, after |-> t, ok |-> ok] :
                         d \in {"status", "check"}, t \in {0, 1, 3}, ok \in BOOLEAN}
                    \union {[do |-> d, after |-> 0, ok |-> TRUE] : d \in {"on", "off"}}, 4)
(* The shapes releases have left behind, each with rows where it has tables. *)
MCRows == [segments : UpTo({"final", "partial"}, 2),
           talk : SUBSET {[key |-> 1, ord |-> 0], [key |-> 1, ord |-> 1], [key |-> 2, ord |-> 0]}]
MCFile(version, tables, columns, chat, triggers, rows, index) ==
    [NewFile EXCEPT !.version = version, !.tables = tables, !.columns = columns, !.chat = chat,
        !.triggers = triggers, !.segments = rows.segments, !.index = index,
        !.messages = IF chat = "none" THEN {} ELSE rows.talk,
        !.conversations = IF chat = "conversation" THEN <<1, 2>> ELSE <<>>]
MCCore == Range(CoreTables) \union {"chat_messages"}
MCAll(rows) == [i \in DOMAIN rows.segments |-> i]
MCFinals(rows) == SelectSeq(MCAll(rows), LAMBDA i : rows.segments[i] = "final")
MCStatus == {"group_id"} \union Range(StatusColumns)
MCFiles ==
    UNION {{MCFile(0, {"sessions", "segments"}, {}, "none", "none", rows, <<>>),
            MCFile(0, {"sessions", "segments", "chat_messages"}, {}, "session", "none", rows, <<>>),
            MCFile(0, MCCore, {}, "session", "none", rows, <<>>),
            MCFile(0, MCCore, {"group_id"}, "conversation", "none", rows, <<>>),
            MCFile(1, MCCore, {"group_id"}, "conversation", "none", rows, <<>>),
            MCFile(2, MCCore, MCStatus, "conversation", "none", rows, <<>>),
            MCFile(3, MCCore \union {"session_minutes"}, MCStatus, "conversation", "none", rows, <<>>),
            MCFile(4, MCCore \union {"session_minutes", "segments_fts"}, MCStatus,
                   "conversation", "all", rows, MCAll(rows)),
            MCFile(5, MCCore \union {"session_minutes", "segments_fts"}, MCStatus,
                   "conversation", "finals", rows, MCFinals(rows)),
            MCFile(6, MCCore \union {"a_later_table"}, MCStatus, "conversation", "finals",
                   rows, <<>>)} : rows \in MCRows}
    \union {NewFile}
=============================================================================
