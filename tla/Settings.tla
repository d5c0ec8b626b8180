------------------------------ MODULE Settings ------------------------------
(***************************************************************************)
(* The configuration (core/config.py): layers of nested mappings, what a    *)
(* request writes to the user's file and what the next start loads; and the *)
(* update check (core/update.py) that one of the settings switches, as a    *)
(* series of calls at given times.                                          *)
(***************************************************************************)
EXTENDS Naturals, SequencesExt, Folds

CONSTANTS Ttl, FailTtl   \* TTL_S, FAIL_TTL_S

(* A value of a YAML document: a mapping, or anything else, a leaf.           *)
Leaf(v) == [dict |-> FALSE, value |-> v]
Dict(kids) == [dict |-> TRUE, kids |-> kids]

(* Mutant: a section is taken as a whole. *)
ShallowMerge(base, override) ==
    Dict([k \in DOMAIN base.kids \union DOMAIN override.kids |->
             IF k \in DOMAIN override.kids THEN override.kids[k] ELSE base.kids[k]])
RECURSIVE DeepMerge(_, _)
DeepMerge(base, override) ==
    Dict([k \in DOMAIN base.kids \union DOMAIN override.kids |->
             IF k \notin DOMAIN override.kids THEN base.kids[k]
             ELSE IF k \in DOMAIN base.kids /\ base.kids[k].dict /\ override.kids[k].dict
             THEN DeepMerge(base.kids[k], override.kids[k])
             ELSE override.kids[k]])

(* write_user_config, called to its end once for each of the updates.         *)
Written(file, updates) == FoldLeft(DeepMerge, file, updates)
(* load_config: the bundled file, the user's, and the environment over both.  *)
Loaded(bundled, file, env) == FoldLeft(DeepMerge, Dict(<<>>), <<bundled, file, env>>)

-----------------------------------------------------------------------------
(* UpdateChecker: the setting, the remembered answer with its time, and the    *)
(* times of the requests made.  An answer is of the check at .at, or none.     *)
NoAnswer == [known |-> FALSE]
Checker == [enabled |-> TRUE, cache |-> NoAnswer, now |-> 0, asked |-> <<>>, answers |-> <<>>]

TtlOf(cached) == IF cached.ok THEN Ttl ELSE FailTtl
Remembered(checker, now) ==
    checker.cache.known /\ now - checker.cache.at < TtlOf(checker.cache)
Call(checker, call) ==
    LET now == checker.now + call.after
        found == [known |-> TRUE, at |-> now, ok |-> call.ok]
        answered(a) == [checker EXCEPT !.now = now, !.answers = Append(@, a)]
    IN CASE call.do \in {"on", "off"} ->
              [answered(NoAnswer) EXCEPT !.enabled = (call.do = "on")]
         [] call.do = "status" /\ ~checker.enabled -> answered(NoAnswer)
         [] call.do = "status" /\ checker.enabled /\ Remembered(checker, now) ->
              answered(checker.cache)
         [] OTHER ->
              [answered(found) EXCEPT !.cache = found, !.asked = Append(@, found)]
Calls(calls) == FoldLeft(Call, Checker, calls)
=============================================================================
