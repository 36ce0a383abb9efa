------------------------------ MODULE Serving -------------------------------
(***************************************************************************)
(* Requests served by a deployment (calc.py): prompts, whole tasks, users  *)
(* of a chat, embeddings, classifications and live speech; the batch sizes *)
(* the charts sweep; and the layout _preferred_strategy of placement.py    *)
(* scores highest.                                                         *)
(***************************************************************************)
EXTENDS Capacity

Clamped(x) == Least(Largest(x, Zero), Whole(1))
Plain(c)   == [c EXCEPT !.spec = Absent]

(* Weights read by a forward pass, and a pass over a batch of inputs. *)
WeightTime(c, tp, pp, bytes, e) ==
  Traffic(c, (bytes ** PeakFraction(c.m, pp)) // Whole(tp), e)
Compute(c, tp, linear, attention, e, phase) ==
  ComputeSeconds(c.g, c.m, c.prec, linear, attention, phase) // (Whole(tp) ** e.comp)
Moved(c, tp, pp, tokens, seq, e) == CommTotal(Communication(c.m, tp, pp, tokens, seq, c.g, e))

-----------------------------------------------------------------------------
(* Prompts. *)

(* What a prompt keeps resident: the cached prefix too, and the drafter's part. *)
PromptBytes(c, tp, pp, len, resident) ==
  LET drafter == IF c.spec = Absent THEN Whole(1) ELSE Whole(1) ++ c.spec.profile.kv
  IN  (SequenceBytes(c.m, resident, c.prec, pp, tp) ** drafter)
        ++ ResidualScratch(c.m, len, c.prec, pp, tp)

PromptSlots(c, tp, pp, len, resident, budget) ==
  LET each == PromptBytes(c, tp, pp, len, resident)
  IN  IF Positive(each) THEN FloorOf(budget // each)
      ELSE IF resident = 0 THEN Unbounded ELSE 0

(* The time of a batch: the pipeline fills and drains, attached drafters read *)
(* the prompt themselves.                                                     *)
PrefillTime(c, l, pr, len, e) ==
  LET tp == l[1]
      pp == l[2]
      reads  == c.spec # Absent /\ c.spec.profile.method \notin {"mtp", "ngram"}
      linear == (Whole(2 * pr) ** PrefillTokens(c.m, len, pp))
                  ++ (IF reads THEN Whole(2 * c.spec.active * pr * len)
                                          ** PeakFraction(c.m, pp) ELSE Zero)
      compute == Compute(c, tp, linear, PrefillAttention(c.m, pr, len, pp, TRUE), e, "prefill")
      bytes == PhaseBytes(c.m, c.prec, "prefill")
                 ++ (IF c.spec = Absent THEN Zero ELSE c.spec.bytes)
      base == Largest(compute, WeightTime(c, tp, pp, bytes, e)) ** Bubble(pp, pr)
      sent == Moved(c, tp, pp, Whole(pr * len), Whole(len), e)
  IN  Taxed(base ++ sent, e, Frac(13, 10), FixedPaging(Whole(len), e, Frac(7, 20)))
        ** TailMultiplier(c.m, e)

(* compute_prefill: a prompt that is cached whole costs nothing. *)
Prefill(c, l, bs, len, kept, e) ==
  LET resident == Larger(len, kept)
      budget == CacheBudget(c, l[1], l[2], e)
      slots  == PromptSlots(c, l[1], l[2], len, resident, budget)
      pr     == CeilDiv(bs, l[3])
      result(time, tps, rps) == [time |-> time, tps |-> tps, rps |-> rps, slots |-> slots * l[3]]
      timed(time) == LET rps == Whole(bs) // time
                     IN  result(time, RoundOf(rps ** Whole(len)), rps)
  IN  IF ~ContextSupported(c.m, resident, 0) \/ budget = Absent THEN Absent
      ELSE IF len = 0 THEN result(Zero, 0, Whole(Unbounded))
      ELSE IF pr > slots THEN Absent ELSE timed(PrefillTime(c, l, pr, len, e))

-----------------------------------------------------------------------------
(* Whole tasks: prompt and answer share the GPUs, and overlap but for the *)
(* interference of the phases.                                            *)

CycleTime(prefill, decode, c) ==
  LET longer == Largest(prefill, decode)
      shared == Clamped(Largest(c.pre.interference, c.dec.interference))
  IN  longer ++ (((prefill ++ decode) -- longer) ** shared)
PerSecond(bs, time) == IF Positive(time) THEN Whole(bs) // time ELSE Zero

TaskPrefill(c, l, bs, input, hitRate) ==
  Prefill(c, l, bs, EffectivePrefill(input, hitRate), input, c.pre)
TaskDecode(c, l, bs, input, output) ==
  DecodeCore(c, l, bs, input, output, c.dec,
             FixedPaging(Whole(input + output \div 2), c.dec, Whole(1)), Zero)

(* Both phases of a batch, Absent when either is refused. *)
Phases(c, l, bs, input, output, hitRate) ==
  LET prompt == TaskPrefill(c, l, bs, input, hitRate)
      answer == TaskDecode(c, l, bs, input, output)
  IN  IF IsDecision(c.m) \/ ~ContextSupported(c.m, input, output) THEN Absent
      ELSE IF prompt = Absent \/ answer = Absent THEN Absent
      ELSE [prompt |-> prompt, answer |-> answer]

(* compute_data.  Phases of one assignment have one layout; others are refused. *)
Data(c, pl, dl, bs, input, output, hitRate) ==
  LET both == Phases(c, dl, bs, input, output, hitRate)
      time == CycleTime(both.prompt.time, Whole(output) ** both.answer.step, c)
      rps  == PerSecond(bs, time)
  IN  IF pl # dl \/ both = Absent THEN Absent
      ELSE [ rps   |-> RoundTo(rps, Hundredth),
             tps   |-> RoundOf(rps ** Whole(input + output)),
             share |-> IF Positive(time) THEN both.prompt.time // time ELSE Zero ]

(* compute_data_capacity asks for one request on every replica. *)
DataCapacity(c, pl, dl, input, output, hitRate) ==
  LET both == Phases(c, dl, dl[3], input, output, hitRate)
  IN  IF pl # dl \/ both = Absent THEN 0 ELSE Smaller(both.prompt.slots, both.answer.slots)

(* compute_user_experience: the last of a batch of users sees the first token *)
(* after the prompts of all.                                                  *)
UserExperience(c, pl, dl, bs, inDist, outDist, hitRate) ==
  LET input  == AvgDist(inDist, InputLengths)
      answer == Decode(c, dl, bs, inDist, outDist, c.dec)
      prompt == TaskPrefill(c, dl, bs, input, hitRate)
      decode == Whole(AvgDist(outDist, OutputLengths)) ** answer.step
  IN  IF pl # dl \/ answer = Absent \/ prompt = Absent THEN Absent
      ELSE [ rps      |-> RoundTo(PerSecond(bs, CycleTime(prompt.time, decode, c)), Hundredth),
             step     |-> answer.step,
             ttft     |-> RoundTo(prompt.time, Whole(10) ** Grain),
             response |-> RoundTo(prompt.time ++ decode, Hundredth),
             inflight |-> bs ]

-----------------------------------------------------------------------------
(* Embeddings and classifications: one pass, no cache; the memory holds the *)
(* work of a batch.                                                         *)

Late(ep)   == ep.kind \in {"late", "hybrid"}
Single(ep) == ep.kind \in {"single", "hybrid"}

EmbeddingLength(m, seq) ==
  IF ~IsEmbedding(m) THEN 0 ELSE Smaller(Larger(seq, 1), Larger(m.embedding.maxLen, 1))

VectorsPerInput(m, seq) ==
  LET ep   == m.embedding
      most == Or(ep.documentLen, Or(ep.maxLen, seq))
  IN  IF Late(ep) THEN Larger(1, Smaller(Larger(seq, 1), most)) + (IF Single(ep) THEN 1 ELSE 0)
      ELSE 1

OutputBytes(m, seq) ==
  LET ep == m.embedding
      dim == IF Late(ep) THEN Or(ep.lateDim, ep.dim) ELSE ep.dim
  IN  Whole(VectorsPerInput(m, seq) * Larger(dim, 1)) ** Largest(ep.elem, Frac(1, 4))

EmbeddingScratch(m, seq, prec) ==
  LET hidden == Larger(Larger(Hidden(m), QueryHeads(m) * Larger(m.headDim, 1)), 1)
  IN  (Whole(4 * seq * hidden) ** KvElem(m, prec)) ++ OutputBytes(m, seq)

(* embedding_doc_stats, and the stats of documents of one length. *)
Docs(m) == [i \in DOMAIN DocLengths |-> EmbeddingLength(m, DocLengths[i])]
MeanDoc(dist, each) ==
  Total([i \in DOMAIN DocLengths |-> Weights(Aligned(dist, DocLengths))[i] ** each[i]],
        DOMAIN DocLengths)
DocStats(m, dist, prec) ==
  LET ns == Docs(m)
  IN  [ seq     |-> MeanDoc(dist, [i \in DOMAIN ns |-> Whole(ns[i])]),
        vectors |-> MeanDoc(dist, [i \in DOMAIN ns |-> Whole(VectorsPerInput(m, ns[i]))]),
        output  |-> MeanDoc(dist, [i \in DOMAIN ns |-> OutputBytes(m, ns[i])]),
        scratch |-> MeanDoc(dist, [i \in DOMAIN ns |-> EmbeddingScratch(m, ns[i], prec)]),
        tail    |-> [q \in {50, 90, 99} |-> Percentile(Aligned(dist, DocLengths), ns, Frac(q, 100))] ]
FixedStats(m, seq, prec) ==
  LET n == EmbeddingLength(m, seq)
  IN  [ seq |-> Whole(n), vectors |-> Whole(VectorsPerInput(m, n)), output |-> OutputBytes(m, n),
        scratch |-> EmbeddingScratch(m, n, prec), tail |-> [q \in {50, 90, 99} |-> n] ]

(* The attention of a batch of inputs of one length, and of a mix of documents. *)
InputWork(m, pr, seq, pp) ==
  PrefillAttention(m, pr, EmbeddingLength(m, seq), pp, m.embedding.causal)
EmbeddingWork(m, pr, dist, pp) ==
  MeanDoc(dist, [i \in DOMAIN DocLengths |-> InputWork(m, pr, DocLengths[i], pp)])

WorkSlots(budget, scratch) ==
  IF Positive(scratch) THEN FloorOf(budget // scratch) ELSE Unbounded

(* compute_embedding and compute_embedding_distribution: attention is the work *)
(* of a replica's part of the batch.                                           *)
EmbeddingRun(c, l, bs, stats, attention) ==
  LET e      == c.pre
      pr     == CeilDiv(bs, l[3])
      budget == CacheBudget(Plain(c), l[1], l[2], e)
      slots  == WorkSlots(budget, stats.scratch)
      linear == (Whole(2 * c.m.active * pr) ** stats.seq) ** PeakFraction(c.m, l[2])
      busy   == Largest(Compute(c, l[1], linear, attention, e, "prefill"),
                        WeightTime(c, l[1], l[2], PhaseBytes(c.m, c.prec, "decode"), e))
      time   == Taxed((busy ++ Traffic(c, stats.output ** Whole(pr), e))
                        ++ Moved(c, l[1], l[2], Whole(pr) ** stats.seq, stats.seq, e),
                      e, Frac(6, 5), FixedPaging(stats.seq, e, Frac(1, 5)))
      rps    == Whole(bs) // time
  IN  IF ~IsEmbedding(c.m) \/ budget = Absent THEN Absent
      ELSE IF pr > slots THEN Absent
      ELSE [ rps |-> RoundTo(rps, Hundredth), tps |-> RoundOf(rps ** stats.seq),
             vectors |-> RoundOf(rps ** stats.vectors), time |-> time,
             slots |-> slots * l[3], tail |-> stats.tail ]

Embedding(c, l, bs, seq) ==
  EmbeddingRun(c, l, bs, FixedStats(c.m, seq, c.prec),
               InputWork(c.m, CeilDiv(bs, l[3]), seq, l[2]))
EmbeddingDocs(c, l, bs, dist) ==
  EmbeddingRun(c, l, bs, DocStats(c.m, dist, c.prec),
               EmbeddingWork(c.m, CeilDiv(bs, l[3]), dist, l[2]))
EmbeddingCapacity(c, l, dist) ==
  LET r == EmbeddingDocs(c, l, l[3], dist) IN IF r = Absent THEN 0 ELSE r.slots

(* compute_decision: the whole input in one pass, one per question for some. *)
DecisionAllowed(m, seq, bs, questions, options) ==
  /\ IsDecision(m)
  /\ seq \in 1..Decides[m.key].maxLen
  /\ bs >= 1 /\ questions >= 1
  /\ options >= Larger(2, Decides[m.key].minOptions)
  /\ Decides[m.key].maxOptions > 0 => options <= Decides[m.key].maxOptions

DecisionScratch(m, seq, answers) ==
  Whole(8 * seq * Larger(Hidden(m), m.heads * m.headDim) + 4 * answers)
    ++ (Whole(2) ** LinearState(m, "bf16", 1))

Decision(c, l, bs, seq, questions, options) ==
  LET e      == c.pre
      d      == Decides[c.m.key]
      pr     == CeilDiv(bs, l[3])
      budget == CacheBudget(Plain(c), l[1], l[2], e)
      slots  == FloorOf(budget // DecisionScratch(c.m, seq, questions * options))
      linear == Whole(2 * c.m.active * pr * seq) ** PeakFraction(c.m, l[2])
      work   == linear ++ PrefillAttention(c.m, pr, seq, l[2], d.causal)
      compute == work // (ModelFlops(c.g, c.m, c.prec, "decode") ** (Whole(l[1]) ** e.comp))
      pass   == Largest(compute, WeightTime(c, l[1], l[2], PhaseBytes(c.m, c.prec, "decode"), e))
                  ++ Moved(c, l[1], l[2], Whole(pr * seq), Whole(seq), e)
      passes == Whole(IF d.perQuestion THEN questions ELSE 1)
      time   == Taxed((passes ** pass) ++ Traffic(c, Whole(4 * questions * options * pr), e),
                      e, Frac(6, 5), FixedPaging(Whole(seq), e, Frac(1, 5)))
      rps    == Whole(bs) // time
  IN  IF ~DecisionAllowed(c.m, seq, bs, questions, options) \/ budget = Absent THEN Absent
      ELSE IF pr > slots THEN Absent
      ELSE [ rps |-> rps, decisions |-> rps ** Whole(questions),
             tps |-> rps ** Whole(seq), time |-> time, slots |-> slots * l[3] ]

-----------------------------------------------------------------------------
(* Live speech.  A realtime profile either pays per streamed token or per   *)
(* chunk of audio; chunk, frames, acoustic and text positions are whole.    *)

(* speech_chunk_work *)
ChunkShape(sp) ==
  [ frames   |-> Larger(sp.frameRate * sp.chunk, 1),
    acoustic |-> sp.embedRate * sp.chunk,
    text     |-> IF sp.decoderParams > 0 THEN Larger(sp.rate * sp.chunk, 1) ELSE 0 ]

ChunkFlops(m, sp, n) ==
  LET window == Smaller(n.frames, Or(sp.window, n.frames))
      width  == sp.audioHeads * sp.audioDim
      encoder == Whole(2 * sp.encoderParams * n.frames
                         + 4 * sp.audioLayers * width * n.frames * window) ** sp.replay
      prefill == (Whole(2 * sp.decoderParams * n.acoustic)
                    ++ PrefillAttention(m, 1, n.acoustic, 1, TRUE)) ** sp.prefillReplay
      decode == Whole(2 * sp.decoderParams * n.text)
                  ++ (Whole(n.text) ** DecodeAttention(m, 1, n.acoustic + n.text \div 2, 1))
  IN  (encoder ++ prefill) ++ decode
CrossFlops(m, sp, n) ==
  IF sp.cross THEN Whole(4 * AttentionLayers(m) * m.heads * m.headDim * n.frames * n.text) ELSE Zero

ChunkScratch(m, sp, n, prec) ==
  (Whole(8 * (n.frames * Larger(sp.audioHeads * sp.audioDim, 1) + n.acoustic * Hidden(m)))
     ++ CacheOf(m, n.acoustic + n.text, prec))
    ++ (IF sp.cross
            THEN Whole(2 * KvLayers(m) * m.kvHeads * m.headDim * n.frames) ** KvElem(m, prec)
            ELSE Zero)

ChunkReads(m, sp, n, prec) ==
  LET decoder == Least(Frac(sp.decoderParams, Larger(m.total, 1)), Whole(1))
      replay  == IF n.acoustic > 0 THEN sp.prefillReplay ELSE Zero
  IN  GpuWeightBytes(m, prec)
        ** (((Whole(1) -- decoder) ** sp.replay)
                   ++ (decoder ** (replay ++ Whole(n.text))))

(* _compute_speech_chunk_capacity *)
ChunkCapacity(c, l, users) ==
  LET sp == c.m.speech
      e  == c.dec
      n  == ChunkShape(sp)
      budget == CacheBudget(Plain(c), l[1], l[2], e)
      slots  == FloorOf(budget // Largest(ChunkScratch(c.m, sp, n, c.prec), Whole(1)))
      batch  == CeilDiv(users, l[3])
      compute == Compute(c, l[1], Whole(batch) ** ChunkFlops(c.m, sp, n),
                         Whole(batch) ** CrossFlops(c.m, sp, n), e, "decode")
                   ** PeakFraction(c.m, l[2])
      positions == Larger(1, sp.chunk * (sp.embedRate + sp.rate))
      busy == Largest(compute, WeightTime(c, l[1], l[2], ChunkReads(c.m, sp, n, c.prec), e))
      time == Taxed(busy ++ Moved(c, l[1], l[2], Whole(batch * positions), Whole(positions), e),
                    e, Frac(6, 5), FixedPaging(Whole(positions), e, Frac(1, 5)))
                ** TailMultiplier(c.m, e)
      factor == Whole(sp.chunk) // time
  IN  IF budget = Absent THEN Absent
      ELSE IF batch > slots THEN Absent
      ELSE [ factor |-> RoundTo(factor, Frac(1, 1000)), slots |-> slots * l[3],
             tps |-> RoundOf(Whole(users * sp.rate) ** factor) ]

(* compute_realtime_capacity *)
StreamCapacity(c, l, users) ==
  LET sp    == c.m.speech
      state == Larger(sp.state, 1)
      r == DecodeCore(Plain(c), l, users, state, 0, c.dec,
                      FixedPaging(Whole(state), c.dec, Frac(1, 2)), AudioWork(sp, 1, l[2]))
      each == Frac(r.tps, users)
  IN  IF r = Absent THEN Absent
      ELSE [ factor |-> RoundTo(each // Whole(sp.rate), Frac(1, 1000)),
             slots |-> r.slots, tps |-> r.tps ]
RealtimeCapacity(c, l, users) ==
  IF ~IsSpeech(c.m) \/ users = 0 THEN Absent
  ELSE IF c.m.speech.chunk > 0 THEN ChunkCapacity(c, l, users) ELSE StreamCapacity(c, l, users)

KeepsUp(c, l, users) ==
  LET r == RealtimeCapacity(c, l, users) IN r # Absent /\ Whole(1) \preceq r.factor

(* compute_realtime_max_users: doubling until users lag behind, then halving. *)
RealtimeMaxUsers(c, l) ==
  LET doubled[n \in Nat] ==
        IF n > MaxUsers THEN n ELSE IF KeepsUp(c, l, n) THEN doubled[2 * n] ELSE n
      between[x \in Nat \X Nat \X Nat] ==              \* <<low, high, best>>
        LET mid == (x[1] + x[2]) \div 2
        IN  IF x[1] > x[2] THEN x[3]
            ELSE IF KeepsUp(c, l, mid) THEN between[<<mid + 1, x[2], mid>>]
            ELSE between[<<x[1], mid - 1, x[3]>>]
      over == doubled[1]
      best == over \div 2
  IN  IF ~IsSpeech(c.m) THEN 0
      ELSE IF over > MaxUsers THEN MaxUsers
      ELSE between[<<best + 1, Larger(best, over - 1), best>>]

-----------------------------------------------------------------------------
(* The batch sizes of a chart: powers of two to past the largest capacity.   *)

Doublings(first, most) ==
  LET from[n \in Nat] == IF n > most THEN {} ELSE {n} \cup from[2 * n] IN from[first]

(* _batch_axis_sweep *)
BatchAxisSweep(capacities, fallback) ==
  LET caps == {n \in capacities : 0 < n /\ n < Unbounded}
      top(S) == CHOOSE n \in S : \A k \in S : k <= n
      past == Larger(2, CeilOf(Whole(top(caps)) ** Frac(28, 25)))
      target == Larger(top(fallback \cup {1}), past)
  IN  IF caps = {} THEN fallback ELSE fallback \cup Doublings(1, target) \cup caps \cup {target}

(* The charts of one panel or two.  A row is an assignment that runs:         *)
(* [c, pre, dec, mix], with the layouts of the phases and what its panel asks *)
(* for, [inDist, outDist, docs, input, output, hitRate].                      *)

IsText(m) == ~IsEmbedding(m) /\ ~IsSpeech(m) /\ ~IsDecision(m)

(* The documents of a panel, or the bucket nearest to its input. *)
DocDist(mix) ==
  LET off(i) == Abs(DocLengths[i] - Larger(mix.input, 1))
      nearest == CHOOSE i \in DOMAIN DocLengths :
                   \A j \in DOMAIN DocLengths : off(i) < off(j) \/ (off(i) = off(j) /\ i <= j)
  IN  IF Len(mix.docs) = Len(DocLengths) THEN mix.docs
      ELSE [i \in DOMAIN DocLengths |-> IF i = nearest THEN 100 ELSE 0]

TaskCapacity(r, input, output) == DataCapacity(r.c, r.pre, r.dec, input, output, r.mix.hitRate)
WithAnswers(rows) == {r \in rows : ~IsEmbedding(r.c.m)}

DecodeBatches(rows, fallback) ==
  BatchAxisSweep({DecodeCapacity(r.c, r.dec, r.mix.inDist, r.mix.outDist, r.c.dec) :
                    r \in {x \in rows : IsText(x.c.m)}}, fallback)
RealtimeBatches(rows, fallback) ==
  BatchAxisSweep({RealtimeMaxUsers(r.c, r.dec) : r \in {x \in rows : IsSpeech(x.c.m)}}, fallback)
EmbeddingBatches(rows, fallback) ==
  BatchAxisSweep({EmbeddingCapacity(r.c, r.pre, DocDist(r.mix)) :
                    r \in {x \in rows : IsEmbedding(x.c.m)}}, fallback)
DataBatches(rows, fallback) ==
  BatchAxisSweep({TaskCapacity(r, r.mix.input, r.mix.output) : r \in WithAnswers(rows)}, fallback)

(* get_processing_pareto_bs: for every mix of the presets, <<prompts, answers>>. *)
ParetoBatches(rows, presets, fallback) ==
  BatchAxisSweep({TaskCapacity(x[1], AvgDist(x[2][1], InputLengths), AvgDist(x[2][2], OutputLengths)) :
                    x \in WithAnswers(rows) \X presets}, fallback)

(* compute_stats_data over the rows of a panel and its mix: the most tokens   *)
(* of all its models together, from the fewest tasks.                         *)
StatsPeak(rows, mix, fallback) ==
  LET serving == {i \in DOMAIN rows : ~IsEmbedding(rows[i].c.m)}
      sizes == DataBatches({rows[i] : i \in DOMAIN rows}, fallback)
      tps(r, bs) == LET d == Data(r.c, r.pre, r.dec, bs, mix.input, mix.output, mix.hitRate)
                    IN  IF d = Absent THEN 0 ELSE d.tps
      total == [bs \in sizes |-> SumOf([i \in serving |-> tps(rows[i], bs)])]
      peak == CHOOSE bs \in sizes :
                \A n \in sizes : total[n] < total[bs] \/ (total[n] = total[bs] /\ bs <= n)
  IN  [ tps |-> total[peak], bs |-> IF total[peak] > 0 THEN peak ELSE 0,
        rps |-> IF mix.input + mix.output > 0 THEN Frac(total[peak], mix.input + mix.output)
                ELSE Zero ]

-----------------------------------------------------------------------------
(* What the projection engine makes of a deployment (economics.py).          *)

(* _best_deployment_result_for_model, over the batches of                     *)
(* _deployment_capacity_for_profile: the most tokens, from the fewest inputs. *)
DeploymentPeak(c, pl, dl, input, output, hitRate, fallback) ==
  LET sizes == BatchAxisSweep({DataCapacity(c, pl, dl, input, output, hitRate)}, fallback)
      found == [bs \in sizes |-> Data(c, pl, dl, bs, input, output, hitRate)]
      run   == {bs \in sizes : found[bs] # Absent}
      top   == CHOOSE bs \in run :
                 \A n \in run : \/ found[n].tps < found[bs].tps
                                \/ found[n].tps = found[bs].tps /\ bs <= n
  IN  IF run = {} THEN Absent ELSE found[top]

(* _native_deployment_capacity: tasks per second of work that is not text; an *)
(* input that is too long is refused.                                         *)
NativeRate(c, l, seq, streaming, fallback) ==
  LET result(bs) == IF IsDecision(c.m) THEN Decision(c, l, bs, seq, 1, 4) ELSE Embedding(c, l, bs, seq)
      longest == IF IsDecision(c.m) THEN Decides[c.m.key].maxLen ELSE c.m.embedding.maxLen
      rates   == {r.rps : r \in {result(bs) : bs \in fallback} \ {Absent}}
  IN  IF IsSpeech(c.m)
      THEN IF streaming /\ ~c.m.speech.streaming THEN Zero ELSE Whole(RealtimeMaxUsers(c, l))
      ELSE IF seq > longest \/ rates = {} THEN Zero ELSE LargestOf(rates)

(* _deployment_capacity_for_profile: useful tokens (or seconds of audio) of a  *)
(* day at full load.  A profile is [input, output, perRequest, hitRate,        *)
(* streaming]; what serves less than a hundredth of a request does not run.    *)
DailyTokens(c, l, profile, day, fallback) ==
  LET input == Larger(profile.input, 1)
      peak  == DeploymentPeak(c, l, l, profile.input, profile.output, profile.hitRate, fallback)
      native == NativeRate(c, l, input, profile.streaming, fallback)
  IN  IF IsSpeech(c.m) THEN native ** Whole(day)
      ELSE IF IsDecision(c.m) \/ IsEmbedding(c.m) THEN native ** Whole(day * input)
      ELSE IF peak = Absent THEN Zero
      ELSE peak.rps ** Whole(day * Larger(profile.perRequest, 1))

-----------------------------------------------------------------------------
(* _preferred_strategy: the layout of most throughput over a few batches.    *)
(* A workload w is [input, output, task, hitRate, docs]: distributions, the  *)
(* prompt length of a task, hit rate of the prefix cache, documents.         *)

(* _probe_batch_sizes *)
ProbeBatches(dp) ==
  LET from[n \in Nat] == IF n >= MaxProbe THEN {n} ELSE {n} \cup from[2 * n]
  IN  from[Larger(1, dp)]

(* What a probe is judged by: throughput, then a second number. *)
ProbeMetric(c, l, phase, w, bs) ==
  LET prompt == Larger(1, EffectivePrefill(Larger(w.task, AvgDist(w.input, InputLengths)), w.hitRate))
      judged(r) == IF r = Absent THEN Absent ELSE <<Whole(r.tps), r.rps>>
      exact(r)  == IF r = Absent THEN Absent ELSE <<r.tps, r.rps>>
      decode(r) == IF r = Absent THEN Absent ELSE <<Whole(r.tps), Zero -- r.step>>
  IN  CASE IsDecision(c.m)  -> exact(Decision(c, l, bs, w.task, 1, 4))
        [] ~IsDecision(c.m) /\ IsEmbedding(c.m) -> judged(EmbeddingDocs(c, l, bs, w.docs))
        [] OTHER -> IF phase = "prefill" THEN judged(Prefill(c, l, bs, prompt, 0, c.pre))
                    ELSE decode(Decode(c, l, bs, w.input, w.output, c.dec))

(* Mutant of LayoutScore: the shape alone decides. *)
ScoreOfShape(c, l, phase, w) == ShapeScore(c, l, Zero)

(* The score of a layout: its best probe, then its shape; a layout that no *)
(* probe fits is scored by its shape alone.                                *)
LayoutScore(c, l, phase, w) ==
  LET e == IF phase = "prefill" THEN c.pre ELSE c.dec
      budget == CacheBudget(c, l[1], l[2], e)
      probes == {ProbeMetric(c, l, phase, w, bs) : bs \in ProbeBatches(l[3])} \ {Absent}
      peak == CHOOSE x \in probes : \A y \in probes : x = y \/ Lesser(y, x)
  IN  (IF probes = {} THEN <<>> ELSE peak)
        \o ShapeScore(c, l, IF budget = Absent THEN Zero ELSE budget)

PreferredStrategy(c, n, phase, w) ==
  LET valid == ValidStrategies(c, n)
      score == [l \in valid |-> LayoutScore(c, l, phase, w)]
  IN  IF valid = {} THEN DefaultStrategy(c, n) ELSE FirstBest(c, valid, score)
=============================================================================
