------------------------------ MODULE Choices -------------------------------
(***************************************************************************)
(* What the engine chooses for a machine and a configuration: the model it  *)
(* recommends and the one a slot runs, the compute runtime it recommends    *)
(* and how much of a model goes to the GPU, the language of a segment, and  *)
(* whether a release is newer.  Pure functions.                             *)
(***************************************************************************)
EXTENDS Naturals, FiniteSets, SequencesExt, Folds

CONSTANTS None,
          LargeRam, MediumRam, GpuLift,  \* _TIER_BY_RAM_MB, _GPU_LIFT_VRAM_MB
          Override,                      \* DEFAULT_OVERRIDE_CONFIDENCE
          Accelerated                    \* runtimes, lightest download first

HTTPBackends == {"openai_compatible"}
NoModel == {"mock", "disabled"}

-----------------------------------------------------------------------------
(* A machine: its memory, its graphics cards, the runtimes it can run.        *)
Discrete(hw) == {g \in hw.gpus : ~g.unified}
VramOf(hw) == FoldSet(LAMBDA g, n : g.vram + n, 0, Discrete(hw))
MemoryBudget(hw) == hw.ram + VramOf(hw)
IsAccelerated(hw) == Range(hw.accelerators) # {"cpu"}
Tier(hw) ==
    LET byRam == IF hw.ram >= LargeRam THEN 3 ELSE IF hw.ram >= MediumRam THEN 2 ELSE 1
    IN IF byRam < 3 /\ \E g \in Discrete(hw) : g.vram >= GpuLift THEN byRam + 1 ELSE byRam

(* ModelCatalogue.options: which of the models, smallest tier first, is        *)
(* recommended.  The streaming model of a machine without an accelerator       *)
(* comes first of all.                                                         *)
ByTier(specs) == FlattenSeq([t \in 1..3 |-> SelectSeq(specs, LAMBDA m : m.tier = t)])
Fitting(m, hw) == MemoryBudget(hw) = 0 \/ m.need = 0 \/ MemoryBudget(hw) >= m.need
Streams(m, hw, cpuPick) == m.id = cpuPick /\ ~IsAccelerated(hw)
Options(specs, hw, cpuPick) ==
    SelectSeq(ByTier(specs), LAMBDA m : Streams(m, hw, cpuPick))
    \o SelectSeq(ByTier(specs), LAMBDA m : ~Streams(m, hw, cpuPick))
Target(specs, hw, cpuPick) ==
    LET s == SelectSeq(specs, LAMBDA m : Streams(m, hw, cpuPick))
    IN IF s # <<>> THEN s[1].tier ELSE Tier(hw)
Recommended(specs, hw, cpuPick) ==
    LET options == Options(specs, hw, cpuPick)
        usable == SelectSeq(options, LAMBDA m : Fitting(m, hw))
        modest == SelectSeq(usable, LAMBDA m : m.tier <= Target(specs, hw, cpuPick))
    IN CASE specs = <<>> -> None
         [] usable = <<>> -> options[1].id
         [] usable # <<>> /\ Streams(usable[1], hw, cpuPick) -> usable[1].id
         [] usable # <<>> /\ ~Streams(usable[1], hw, cpuPick) /\ modest # <<>> ->
                Last(modest).id
         [] OTHER -> usable[1].id

(* default_for and resolve: the model a slot of the configuration runs.        *)
DefaultFor(specs, default) ==
    LET named == SelectSeq(specs, LAMBDA m : m.id = default)
    IN IF named # <<>> THEN named[1] ELSE IF specs # <<>> THEN specs[1] ELSE None
Resolved(section, specs, default) ==
    LET without(reason) == [reason |-> reason, model |-> None]
        chosen == {m \in Range(specs) : m.id = section.model /\ m.backend = section.backend}
        fallback == DefaultFor(specs, default)
    IN IF ~section.enabled THEN without("disabled")
       ELSE IF section.backend \in HTTPBackends THEN without("endpoint")
       ELSE IF section.backend \in NoModel THEN without("backend-needs-no-model")
       ELSE IF section.path THEN without("path")
       ELSE IF chosen # {} THEN [reason |-> "id", model |-> (CHOOSE m \in chosen : TRUE).id]
       ELSE IF fallback # None /\ fallback.backend = section.backend
            THEN [reason |-> "default", model |-> fallback.id]
       ELSE without("path")

-----------------------------------------------------------------------------
(* RuntimeManager.options: the runtimes offered, best first, and the lightest  *)
(* accelerated one that can be had recommended.  rt says what is installed,    *)
(* published, built in, and what the hardware ruled out.                       *)
Offered(hw) ==
    SelectSeq(Accelerated, LAMBDA v : v \in Range(hw.accelerators))
Available(v, rt) == v = rt.builtin \/ v \in rt.installed \/ v \in rt.published
Chosen(hw, rt) ==
    LET have == SelectSeq(Offered(hw), LAMBDA v : Available(v, rt))
    IN IF have = <<>> THEN rt.builtin ELSE have[1]
RuntimeRows(hw, rt) ==
    LET others == SelectSeq(hw.accelerators, LAMBDA v : v \notin Range(Accelerated))
        row(v, usable) == [variant |-> v, usable |-> usable,
                           recommended |-> usable /\ v = Chosen(hw, rt)]
        listed == Offered(hw) \o others
        out == SelectSeq(rt.ruledOut, LAMBDA v : v \notin Range(listed))
    IN [i \in DOMAIN listed |-> row(listed[i], TRUE)]
       \o [i \in DOMAIN out |-> row(out[i], FALSE)]

(* vram_budget_mb and gpu_layers_for: -1 (all) or 0 (none); here all or not.   *)
VramBudget(hw) ==
    LET sizes == {g.vram : g \in Discrete(hw)} \ {0}
    IN IF sizes = {} THEN None ELSE ((CHOOSE m \in sizes : \A x \in sizes : x <= m) * 9) \div 10
(* Mutant: what is loaded already is not counted. *)
OnGpuAlone(size, used, active, hw) ==
    active # "cpu" /\ (VramBudget(hw) = None \/ (size * 12) \div 10 <= VramBudget(hw))
OnGpu(size, used, active, hw) ==
    active # "cpu" /\ (VramBudget(hw) = None \/ (size * 12) \div 10 + used <= VramBudget(hw))

-----------------------------------------------------------------------------
(* choose_language: scores in percent by language; main first, then secondary; *)
(* without a main language any may win.                                        *)
Language(scores, main, secondary) ==
    LET allowed == IF main = None THEN SetToSeq(DOMAIN scores)
                   ELSE <<main>> \o SelectSeq(secondary, LAMBDA l : l # main)
        best == CHOOSE i \in DOMAIN allowed :
                    \A j \in DOMAIN allowed :
                        scores[allowed[i]] > scores[allowed[j]]
                        \/ (scores[allowed[i]] = scores[allowed[j]] /\ i <= j)
    IN IF main # None /\ best # 1 /\ scores[allowed[best]] < Override THEN main ELSE allowed[best]

(* parse_version: the numbers padded to three, and what comes after the dash:  *)
(* a release sorts after all of them, a number before a word.  is_newer        *)
(* compares the keys as Python compares tuples.                                *)
Before(s, t) ==
    \E n \in 0..Len(s) :
        /\ n <= Len(t) /\ SubSeq(s, 1, n) = SubSeq(t, 1, n)
        /\ \/ n = Len(s) /\ n < Len(t)
           \/ n < Len(s) /\ n < Len(t) /\ s[n + 1] < t[n + 1]
Core(v) == v.core \o [i \in 1..(IF Len(v.core) < 3 THEN 3 - Len(v.core) ELSE 0) |-> 0]
Pre(v) ==
    IF v.pre = <<>> THEN <<1>>
    ELSE <<0>> \o FlattenSeq([i \in DOMAIN v.pre |->
                                 <<IF v.pre[i].word THEN 1 ELSE 0, v.pre[i].n>>])
IsNewer(v, w) ==
    Before(Core(w), Core(v)) \/ (Core(v) = Core(w) /\ Before(Pre(w), Pre(v)))
=============================================================================
