------------------------------ MODULE Capacity ------------------------------
(***************************************************************************)
(* How many requests a model on a number of GPUs serves and how fast       *)
(* (calc.py), and which layout of the GPUs the planner picks (calc.py and  *)
(* placement.py).                                                          *)
(*                                                                         *)
(* A context c is [m, g, mu, nonKv, prec, pre, dec, spec]: model, GPU,     *)
(* usable share of its memory, bytes that are not cache, precision, the    *)
(* efficiencies of the two phases and the drafter or Absent.  A layout is    *)
(* <<tp, pp, dp>>.  A result that does not exist is Absent.  A mean length   *)
(* of prompt and half an answer drops the half token.                      *)
(***************************************************************************)
EXTENDS Roofline

CONSTANTS
  Grain,          \* the unit latencies are rounded to, a hundredth of a millisecond
  Unbounded,      \* UNBOUNDED_BATCH
  MaxUsers,       \* MAX_REALTIME_USERS
  MaxProbe,       \* the largest batch _probe_batch_sizes has to reach
  MaxDepth,       \* 32, the deepest draft
  Worthwhile,     \* SPEC_MIN_BENEFICIAL_SPEEDUP
  InputLengths,   \* INPUT_BUCKETS
  OutputLengths,  \* OUTPUT_BUCKETS
  DocLengths      \* EMBEDDING_DOC_BUCKETS

ASSUME CapacityAssumption ==
  /\ Amount(Grain) /\ Positive(Grain)
  /\ {Unbounded, MaxUsers, MaxProbe, MaxDepth} \subseteq Nat \ {0}
  /\ {InputLengths, OutputLengths} \subseteq Seq(Nat)

(* Efficiencies, as PhaseEfficiency and the import of a scenario bound them. *)
EfficiencyOK(e) ==
  /\ \A a \in {e.bw, e.comp, e.moe} : Amount(a) /\ Positive(a)
  /\ \A a \in {e.slack, e.overlap, e.interference} : Amount(a) /\ a \preceq Whole(1)
  /\ Amount(e.overhead) /\ Amount(e.paged) /\ e.budget \in Nat

RoundTo(x, unit) == Whole(RoundOf(x // unit)) ** unit
Hundredth == Frac(1, 100)

-----------------------------------------------------------------------------
(* Speculative decoding. *)

(* spec_acceptance_len: the accepted prefix and the bonus token. *)
AcceptanceLen(alpha, k) ==
  IF Whole(1) \preceq alpha THEN Whole(k + 1)
  ELSE (Whole(1) -- Power[<<alpha, k + 1>>]) // (Whole(1) -- alpha)

(* spec_finite_output_tau, over the expected cycles for what remains. *)
FiniteTau(alpha, k, n) ==
  LET depth(left) == Smaller(Smaller(k, n - 1), left - 1)
      cycles[left \in 0..n] ==
        IF left = 0 THEN Zero
        ELSE Whole(1)
               ++ Total([i \in 1..depth(left) |->
                               (Power[<<alpha, i - 1>>] ** (Whole(1) -- alpha))
                                  ** cycles[left - i]], 1..depth(left))
               ++ (Power[<<alpha, depth(left)>>] ** cycles[left - depth(left) - 1])
  IN  IF k = 0 \/ n = 1 THEN Whole(1) ELSE Whole(n) // cycles[n]

(* The calibrated depth nearest to the requested one, the lower of two. *)
Nearest(ks, k) ==
  LET off(j) == Abs(j - k)
  IN  CHOOSE j \in ks : \A i \in ks : off(j) < off(i) \/ (off(j) = off(i) /\ j <= i)

DraftBytes(m, p, prec) ==
  IF prec \in DOMAIN p.bytesBy /\ Positive(p.bytesBy[prec]) THEN p.bytesBy[prec]
  ELSE IF Positive(p.bytes) THEN p.bytes
  ELSE (Whole(p.params) ** WeightBytes(m, prec)) // Whole(m.total)

(* The drafters of a model that use a method; the calibrated depth for the   *)
(* one asked; the part of the drafts a depth has accepted.                   *)
OfferedDrafts(m, method) == {i \in DOMAIN Drafters(m) : Drafters(m)[i].method = method}

SupportedDepth(p, specK) ==
  LET asked == Smaller(Larger(IF specK > 0 THEN specK ELSE p.defaultK, 1), MaxDepth)
      ks    == p.ks \cap 1..MaxDepth
  IN  IF ks = {} THEN asked ELSE Nearest(ks, asked)

AcceptanceOf(p, k, alphaOverride) ==
  LET fitted == IF k \in DOMAIN p.alphaBy THEN p.alphaBy[k] ELSE p.alpha
  IN  Least(IF Positive(alphaOverride) THEN alphaOverride ELSE fitted, Whole(1))

(* resolve_spec_runtime *)
ResolveSpec(m, method, specK, alphaOverride, prec) ==
  LET offered == OfferedDrafts(m, method)
      p == Drafters(m)[CHOOSE i \in offered : \A j \in offered : i <= j]
      k == SupportedDepth(p, specK)
      alpha == AcceptanceOf(p, k, alphaOverride)
  IN  IF method = "off" \/ offered = {} THEN Absent
      ELSE [ profile |-> p, k |-> k, alpha |-> alpha, tau |-> AcceptanceLen(alpha, k),
             passes |-> IF p.parallel THEN 1 ELSE k, bytes |-> DraftBytes(m, p, prec),
             active |-> Or(p.active, p.params) ]

(* An answer of n tokens is too short for deeper drafts; of one token, for any. *)
ForAnswer(s, n) ==
  LET k == Smaller(s.k, n - 1)
  IN  IF s = Absent THEN Absent
      ELSE IF k = 0 THEN Absent
      ELSE [s EXCEPT !.k = k, !.tau = FiniteTau(s.alpha, k, n),
                     !.passes = IF s.profile.parallel THEN 1 ELSE k]

-----------------------------------------------------------------------------
(* Memory. *)

(* profiled_non_kv_bytes *)
NonKv(tp, base) ==
  IF tp = 1 THEN base ELSE base ** (Whole(1) ++ (Frac(3, 25) ** Log2[tp]))

DrafterBytes(c, pp) == IF c.spec = Absent THEN Zero ELSE c.spec.bytes ** PeakFraction(c.m, pp)
Resident(c, tp, pp) ==
  (StageWeights(c.m, c.prec, pp) ++ DrafterBytes(c, pp)) // Whole(tp)
Requested(c) == Whole(c.g.mem) ** c.mu

(* compute_memory: the bytes left for the cache of the sequences. *)
CacheBudget(c, tp, pp, e) ==
  LET taken == Resident(c, tp, pp) ++ NonKv(tp, c.nonKv)
  IN  IF ~Supported(c.g, c.m, c.prec) \/ Requested(c) \prec taken THEN Absent
      ELSE (Requested(c) -- taken) ** (Whole(1) -- e.slack)

-----------------------------------------------------------------------------
(* Layouts. *)

(* factor_triples *)
Triples(n) ==
  LET divisors == {d \in 1..n : n % d = 0}
  IN  {<<x[1], x[2], n \div (x[1] * x[2])>> :
         x \in {y \in divisors \X divisors : n % (y[1] * y[2]) = 0}}

(* The weights fit what compute_memory would leave them, and something is left. *)
Holds(c, tp, pp) ==
  LET budget == Requested(c) -- NonKv(tp, c.nonKv)
  IN  Positive(budget) /\ Resident(c, tp, pp) \preceq budget

(* valid_strategies, as a set. *)
ValidStrategies(c, n) ==
  IF n <= 0 \/ ~Supported(c.g, c.m, c.prec) THEN {}
  ELSE {l \in Triples(n) : l[2] <= c.m.layers /\ TpSupported(c.m, l[1]) /\ Holds(c, l[1], l[2])}

(* Python's comparison of tuples: the first difference decides, else the length. *)
Lesser(a, b) ==
  LET both == 1..Smaller(Len(a), Len(b))
  IN  \/ \E i \in both : a[i] \prec b[i] /\ \A j \in 1..(i - 1) : a[j] = b[j]
      \/ Len(a) < Len(b) /\ \A i \in both : a[i] = b[i]

(* The order of valid_strategies: the first of equals is kept below. *)
ListKey(c, l) ==
  LET inner == Smaller(l[1], c.g.node)
  IN  <<Whole(-l[3]), Whole(IF l[1] > c.g.node THEN 1 ELSE 0), Whole(-inner), Whole(l[2]),
        Whole(l[1])>>

(* The layout of the highest score, the first in the list among equals. *)
FirstBest(c, S, score) ==
  CHOOSE l \in S :
    \A k \in S : \/ Lesser(score[k], score[l])
                 \/ score[k] = score[l] /\ ~Lesser(ListKey(c, k), ListKey(c, l))

(* What a layout is worth by its shape: TP inside a node, then replicas. *)
ShapeScore(c, l, headroom) ==
  <<Whole(IF l[1] <= c.g.node THEN 1 ELSE 0), Whole(Smaller(l[1], c.g.node)), Whole(l[3]),
    Whole(-l[2]), headroom>>

(* default_strategy *)
DefaultStrategy(c, n) ==
  LET valid == ValidStrategies(c, n)
      headroom(l) == Largest(Zero, (Requested(c) -- Resident(c, l[1], l[2]))
                                      -- NonKv(l[1], c.nonKv))
  IN  IF valid = {} THEN <<Larger(n, 1), 1, 1>>
      ELSE FirstBest(c, valid, [l \in valid |-> ShapeScore(c, l, headroom(l))])

-----------------------------------------------------------------------------
(* Decoding. *)

Traffic(c, bytes, e) == bytes // (Whole(c.g.bw) ** e.bw)
PhaseBytes(m, prec, phase) == ActiveBytes(m, prec, phase) ** Whole(Larger(m.passes, 1))
Taxed(time, e, share, paging) == time ** ((Whole(1) ++ (e.overhead ** share)) ++ paging)

(* The drafter's part of a cycle, before the target verifies. *)
DraftTime(c, tp, pp, mb, read, s, e) ==
  LET positions == IF s.profile.parallel THEN s.k ELSE 1
      bytes == ((s.bytes ** PeakFraction(c.m, pp)) // Whole(tp))
                 ++ ((read ** s.profile.kv) ** Whole(positions))
      flops == Whole(2 * s.active * mb * positions) ** PeakFraction(c.m, pp)
      rate  == ModelFlops(c.g, c.m, c.prec, "decode") ** (Whole(tp) ** e.comp)
  IN  Largest(Traffic(c, bytes, e), flops // rate) ** Whole(pp * s.passes)

(* _decode_step_time: every stage works on its share of the batch; weights *)
(* are read once per stage, verification repeats all but the weights.      *)
DecodeStep(c, tp, pp, load, seq, e, paging, extra, s) ==
  LET m  == c.m
      mb == Larger(1, CeilDiv(load, pp))
      k  == IF s = Absent THEN 1 ELSE Larger(s.k, 1)
      peak  == PeakFraction(m, pp)
      read  == Whole(mb) ** TokenRead(m, seq, c.prec, pp, tp)
      state == Whole(mb) ** RecurrentState(m, c.prec, pp, tp)
      bytes == ((PhaseBytes(m, c.prec, "decode") ** peak) // Whole(tp))
                 ++ ((read ** Whole(k)) ++ (Whole(2) ** state))
      linear == Whole(2 * m.active * mb * Larger(m.passes, 1) * k) ** peak
      attention == (DecodeAttention(m, mb, seq, pp) ** Whole(k))
                     ++ ((extra ** Whole(mb)) // Whole(Larger(load, 1)))
      compute == ComputeSeconds(c.g, m, c.prec, linear, attention, "decode")
                   // (Whole(tp) ** e.comp)
      comm == Communication(m, tp, pp, Whole(mb * k), Whole(seq), c.g, e)
      target == ((Largest(Traffic(c, bytes, e), compute) ++ comm.dense) ** Whole(pp))
                  ++ comm.boundary
      draft == (DraftTime(c, tp, pp, mb, read ++ state, s, e)
                  ++ (CommTotal(comm) ** Least(Frac(s.active, Larger(m.active, 1)), Whole(1))))
                 ++ ((Delay.schedule ++ Delay.reject)
                           ++ (Delay.launch ** Whole(s.passes)))
      cycle == IF s = Absent THEN target ELSE target ++ draft
  IN  Taxed(cycle, e, Whole(1), paging) ** TailMultiplier(m, e)

(* Sequences of mean length that fit a replica's cache beside the drafter's. *)
SlotsOf(c, tp, pp, seq, e, s, budget) ==
  LET each  == SequenceBytes(c.m, seq, c.prec, pp, tp)
                 ** (IF s = Absent THEN Whole(1) ELSE Whole(1) ++ s.profile.kv)
      slots == IF Positive(each) THEN FloorOf(budget // each) ELSE 0
  IN  IF e.budget > 0 THEN Smaller(slots, e.budget) ELSE slots

(* The rest of _compute_decode_core for a batch that has a place: the loads *)
(* of the replicas differ by at most one.                                   *)
DecodeResult(c, l, bs, seq, e, paging, extra, s, slots) ==
  LET replicas == Smaller(bs, l[3])
      base == bs \div replicas
      more == bs % replicas
      cycle(load, drafter) ==
        DecodeStep(c, l[1], l[2], load, seq, e, paging, extra ** Whole(load), drafter)
      tau  == IF s = Absent THEN Whole(1) ELSE s.tau
      low  == cycle(base, s)
      high == IF more = 0 THEN low ELSE cycle(base + 1, s)
      rate(n, load, time) == (Whole(n * load) ** tau) // time
      token == Largest(low, high) // tau
      alone == cycle(IF more = 0 THEN base ELSE base + 1, Absent)
  IN  [ tps     |-> RoundOf(rate(replicas - more, base, low) ++ rate(more, base + 1, high)),
        step    |-> RoundTo(token, Grain),
        slots   |-> slots * l[3],
        tau     |-> IF c.spec = Absent THEN Zero ELSE tau,
        speedup |-> IF c.spec = Absent THEN Whole(1) ELSE RoundTo(alone // token, Hundredth) ]

(* _compute_decode_core *)
DecodeCore(c, l, bs, input, output, e, paging, extra) ==
  LET seq    == input + output \div 2
      s      == ForAnswer(c.spec, Larger(output, 1))
      budget == CacheBudget(c, l[1], l[2], e)
      slots  == SlotsOf(c, l[1], l[2], seq, e, s, budget)
  IN  IF IsDecision(c.m) \/ ~ContextSupported(c.m, input, output) \/ budget = Absent \/ bs = 0
      THEN Absent
      ELSE IF CeilDiv(bs, Smaller(bs, l[3])) > slots THEN Absent
      ELSE DecodeResult(c, l, bs, seq, e, paging, extra, s, slots)

(* compute_decode, and compute_decode_capacity: one request on every replica *)
(* tells how many there may be.                                              *)
Decode(c, l, bs, inDist, outDist, e) ==
  DecodeCore(c, l, bs, AvgDist(inDist, InputLengths), AvgDist(outDist, OutputLengths), e,
             DecodePaging(inDist, outDist, e), Zero)
DecodeCapacity(c, l, inDist, outDist, e) ==
  LET r == Decode(c, l, l[3], inDist, outDist, e) IN IF r = Absent THEN 0 ELSE r.slots

-----------------------------------------------------------------------------
(* optimize_spec_k: the depth of most throughput at a declared load, or Absent *)
(* when not drafting is as fast.                                             *)

DraftDepths(p, most) ==
  IF p.ks = {} THEN 1..most ELSE p.ks \cap 1..most

AutoSpec(c, method, alphaOverride, l, inDist, outDist, e, probe) ==
  LET plain == [c EXCEPT !.spec = Absent]
      any   == ResolveSpec(c.m, method, 1, alphaOverride, c.prec)
      most  == Smaller(MaxDepth, Larger(AvgDist(outDist, OutputLengths), 1) - 1)
      users == Smaller(probe, DecodeCapacity(plain, l, inDist, outDist, e))
      base  == Decode(plain, l, users, inDist, outDist, e)
      drafted(k) == ResolveSpec(c.m, method, k, alphaOverride, c.prec)
      run(k) == Decode([c EXCEPT !.spec = drafted(k)], l, users, inDist, outDist, e)
      runs  == [k \in DraftDepths(any.profile, most) |-> run(k)]
      fit   == {k \in DOMAIN runs : runs[k] # Absent}
      best  == CHOOSE k \in fit : \A j \in fit :
                 runs[j].tps < runs[k].tps \/ (runs[j].tps = runs[k].tps /\ k <= j)
  IN  IF any = Absent \/ most = 0 \/ users = 0 THEN Absent
      ELSE IF base = Absent \/ fit = {} THEN Absent
      ELSE IF base.tps > 0 /\ Worthwhile \preceq Frac(runs[best].tps, base.tps) THEN drafted(best)
      ELSE Absent

(* spec_runtime_for: a depth of zero asks for the best one. *)
SpecFor(c, method, specK, alphaOverride, l, inDist, outDist, e, probe) ==
  IF method # "off" /\ specK = 0
  THEN AutoSpec(c, method, alphaOverride, l, inDist, outDist, e, probe)
  ELSE ResolveSpec(c.m, method, specK, alphaOverride, c.prec)
=============================================================================
