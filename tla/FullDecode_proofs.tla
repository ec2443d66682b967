--------------------------- MODULE FullDecode_proofs ---------------------------
(* What holds of every sequence of calls, whatever their parameters, their     *)
(* number of processors and the bounds: with no_context a window is prompted   *)
(* only by what its own call was given or has said; when a call's threads have *)
(* succeeded, the encoder has seen all of its audio; the segments of a state   *)
(* follow one another, as written and as read through the table of the times;  *)
(* and a prompt fits the text context.  The first parts are about what the      *)
(* model computes: prompts, the tokens of a window, the segments of speech, the *)
(* table; then each property has its invariant, step by step.                  *)
EXTENDS FullDecode, NumberLemmas, SequenceTheorems, TLAPS

Decoding == {"window", "pass", "output"}

Sampled == Stamps \cup {Text, Eot}

\* The result of a decoder: its timestamps never go back, all of them are in what
\* the window moves by, and the window begins at the first token if that is one.
Spoken(r) ==
  /\ r.tokens \in Seq(Sampled) /\ r.tid \in Int /\ r.delta \in 0..ChunkFrames
  /\ r.len \in Nat
  /\ \A k \in 1..Len(r.tokens) : 2 * r.tokens[k] <= r.delta
  /\ \A j, k \in 1..Len(r.tokens) : j <= k /\ r.tokens[k] > 0 => r.tokens[j] <= r.tokens[k]
  /\ r.tokens # <<>> /\ r.tokens[1] >= 0 => r.tid = r.tokens[1]

\* What a prompt may hold, with room for the marker in front of it.
PromptMax(p) == AtLeast(0, MaxPromptCtx(p) - 1)

\* No call's budget is too small for an initial prompt that may be carried to it:
\* when it is, the code takes a negative number of tokens from the rolling past.
KeepsBudget ==
  \A p, q \in Params :
     p.carry_initial_prompt /\ p.prompt > 0 /\ q.carry_initial_prompt /\ q.n_max_text_ctx > 0
     => AtLeast(1, MaxPromptCtx(p) - 1) <= MaxPromptCtx(q) - 1

\* A state and the variables of a thread, as far as prompts go: what is carried
\* was given to some call and cut to its budget.
PastFits(past) ==
  \/ past = <<>>
  \/ \E p \in Params : /\ p.carry_initial_prompt /\ p.prompt > 0
                      /\ Len(past) <= AtLeast(1, MaxPromptCtx(p) - 1)
StateOK(s) ==
  /\ DOMAIN s = DOMAIN FreeState /\ s.past0 \in Seq(Origins) /\ s.past1 \in Seq(Origins)
  /\ PastFits(s.past0)
ThreadOK(t) ==
  /\ DOMAIN t = DOMAIN Idle /\ t.prompt \in Seq(Origins)
  /\ t.at \in {"idle", "begin", "window", "pass", "output", "done"}
  /\ t.at \in {"pass", "output"} => Spoken(t.best.run)

PromptTypes ==
  /\ call \in 0..Len(Calls) /\ par \in Params /\ main \in {"idle", "run", "done"}
  /\ st = [c \in Chunks |-> st[c]] /\ th = [c \in Chunks |-> th[c]]
  /\ \A c \in Chunks : StateOK(st[c]) /\ ThreadOK(th[c])

IdleBetween == main = "idle" => th = [c \in Chunks |-> Idle]
Called == main # "idle" => call \in Origins
PromptsFit == KeepsBudget => \A c \in Chunks : Len(th[c].prompt) <= PromptMax(par)

\* The rolling prompts are the call's own from the time a thread decodes.
Own(s, t) ==
  /\ t.prompt \in Seq({call})
  /\ t.at \in Decoding => s.past0 \in Seq({call}) /\ s.past1 \in Seq({call})
OwnPrompts == par.no_context => \A c \in Chunks : Own(st[c], th[c])

PromptInv == PromptTypes /\ IdleBetween /\ Called /\ PromptsFit /\ OwnPrompts

-------------------------------------------------------------------------------
(* The operators on prompts.                                                  *)

\* What LastOf takes from a sequence are elements of it.
LEMMA LastOfSeq ==
  ASSUME NEW S, NEW s \in Seq(S), NEW n \in Int, n <= Len(s)
  PROVE  LastOf(s, n) \in Seq(S)
<1>1. Len(s) \in Nat
  OBVIOUS
<1>2. CASE n <= 0
  <2>1. SubSeq(s, Len(s) - n + 1, Len(s)) = <<>>
    BY <1>1, <1>2
  <2> QED BY <2>1 DEF LastOf
<1>3. CASE n > 0
  <2>1. \A i \in (Len(s) - n + 1)..Len(s) : s[i] \in S
    BY <1>1, <1>3
  <2> QED BY <1>1, <1>3, <2>1 DEF LastOf
<1> QED BY <1>2, <1>3

\* Tokens name their call.
LEMMA TokensSeq ==
  ASSUME NEW n \in Nat
  PROVE  Tokens(n) \in Seq({call})
BY DEF Tokens

LEMMA SeqIsMonotone ==
  ASSUME NEW S, NEW T, S \subseteq T, NEW s \in Seq(S)
  PROVE  s \in Seq(T)
OBVIOUS

\* The parameters of a call are typed as FullAssumption says.
LEMMA ParamsTyped ==
  ASSUME NEW p \in Params
  PROVE  /\ p.prompt \in Nat /\ p.n_max_text_ctx \in Int /\ MaxPromptCtx(p) \in Int
         /\ p.processors \in 1..MaxProcessors /\ p.samples \in Nat /\ p.offset \in Nat
         /\ p.duration \in Int
         /\ p.vads \subseteq Seq({"speech", "between", "silence"})
         /\ \A probs \in p.vads : Len(probs) = NumChunks(p.samples)
<1>1. PICK k \in DOMAIN Calls : p \in Calls[k]
  BY DEF Params, Range
<1>2. /\ p.prompt \in Nat /\ p.n_max_text_ctx \in Int
      /\ p.processors \in 1..MaxProcessors /\ p.samples \in Nat /\ p.offset \in Nat
      /\ p.duration \in Int
      /\ p.vads \subseteq Seq({"speech", "between", "silence"})
      /\ \A probs \in p.vads : Len(probs) = NumChunks(p.samples)
  BY <1>1, FullAssumption DEF FullAssumption
<1> QED BY <1>2, FullAssumption DEF FullAssumption, MaxPromptCtx, AtMost

\* Any call may be made with its parameters.
LEMMA CallParams ==
  ASSUME NEW k \in 1..Len(Calls)
  PROVE  Calls[k] \subseteq Params
<1>1. k \in DOMAIN Calls
  BY FullAssumption DEF FullAssumption
<1> QED BY <1>1 DEF Params, Range

\* The past a window is prompted with is a part of the rolling prompts.
LEMMA ContextSeq ==
  ASSUME NEW S, NEW p \in Params, NEW s, NEW temperature,
         s.past0 \in Seq(S), s.past1 \in Seq(S)
  PROVE  Context(p, s, temperature) \in Seq(S)
<1> DEFINE take0 == p.carry_initial_prompt /\ s.past0 # <<>>
           n0    == IF take0 THEN Len(s.past0) ELSE 0
           n1    == AtMost(MaxPromptCtx(p) - n0 - 1, Len(s.past1))
<1>1. Len(s.past0) \in Nat /\ Len(s.past1) \in Nat /\ MaxPromptCtx(p) \in Int
  BY ParamsTyped
<1>2. n0 \in Int /\ n0 <= Len(s.past0)
  BY <1>1
<1>3. n1 \in Int /\ n1 <= Len(s.past1)
  BY <1>1, <1>2 DEF AtMost
<1>4. LastOf(s.past0, n0) \in Seq(S)
  BY <1>2, LastOfSeq
<1>5. LastOf(s.past1, n1) \in Seq(S)
  BY <1>3, LastOfSeq
<1> HIDE DEF n0, n1
<1>6. LastOf(s.past0, n0) \o LastOf(s.past1, n1) \in Seq(S)
  BY <1>4, <1>5
<1>7. <<>> \in Seq(S)
  OBVIOUS
<1> USE DEF n0, n1
<1> QED BY <1>6, <1>7 DEF Context

\* It leaves room for the marker in front of it.
LEMMA ContextFits ==
  ASSUME KeepsBudget, NEW S, NEW p \in Params, NEW s, NEW temperature,
         s.past0 \in Seq(S), s.past1 \in Seq(S), PastFits(s.past0)
  PROVE  Len(Context(p, s, temperature)) <= PromptMax(p)
<1> DEFINE take0 == p.carry_initial_prompt /\ s.past0 # <<>>
           n0    == IF take0 THEN Len(s.past0) ELSE 0
           n1    == AtMost(MaxPromptCtx(p) - n0 - 1, Len(s.past1))
           m     == MaxPromptCtx(p)
           l0    == Len(s.past0)
           l1    == Len(s.past1)
<1>1. l0 \in Nat /\ l1 \in Nat
  OBVIOUS
<1>2. m \in Int /\ (p.n_max_text_ctx > 0 => m > 0)
  <2>1. p.n_max_text_ctx \in Int /\ TextCtx \in Nat \ {0}
    BY ParamsTyped, FullAssumption DEF FullAssumption
  <2>. QED BY <2>1 DEF MaxPromptCtx, AtMost
<1>3. n0 \in Nat /\ n0 <= l0 /\ (n0 # 0 => p.carry_initial_prompt /\ s.past0 # <<>>)
  BY <1>1
<1>. HIDE DEF l0, l1, m
<1>4. n1 \in Int /\ n1 <= l1 /\ n1 <= m - n0 - 1
  BY <1>1, <1>2, <1>3 DEF AtMost, l1, m
<1>. HIDE DEF n0, n1
<1>5. \A n \in Int, r \in Seq(S) :
         n <= Len(r) => LastOf(r, n) \in Seq(S) /\ Len(LastOf(r, n)) = (IF n > 0 THEN n ELSE 0)
  <2>. SUFFICES ASSUME NEW n \in Int, NEW r \in Seq(S), n <= Len(r)
                PROVE  /\ LastOf(r, n) \in Seq(S)
                       /\ Len(LastOf(r, n)) = (IF n > 0 THEN n ELSE 0)
    OBVIOUS
  <2>1. LastOf(r, n) \in Seq(S)
    BY LastOfSeq
  <2>2. Len(LastOf(r, n)) = (IF n > 0 THEN n ELSE 0)
    BY DEF LastOf
  <2>. QED BY <2>1, <2>2
<1>6. /\ LastOf(s.past0, n0) \in Seq(S) /\ Len(LastOf(s.past0, n0)) = n0
      /\ LastOf(s.past1, n1) \in Seq(S)
      /\ Len(LastOf(s.past1, n1)) = (IF n1 > 0 THEN n1 ELSE 0)
  BY <1>1, <1>3, <1>4, <1>5 DEF l0, l1
<1>7. Len(LastOf(s.past0, n0) \o LastOf(s.past1, n1)) = n0 + (IF n1 > 0 THEN n1 ELSE 0)
  <2>1. \A a, b \in Seq(S) : Len(a \o b) = Len(a) + Len(b)
    OBVIOUS
  <2>. QED BY <1>6, <2>1
<1>8. ASSUME p.n_max_text_ctx > 0
      PROVE  n0 + (IF n1 > 0 THEN n1 ELSE 0) <= PromptMax(p)
  <2>1. ASSUME n0 # 0
        PROVE  n0 <= m - 1
    <3>1. PICK q \in Params : /\ q.carry_initial_prompt /\ q.prompt > 0
                              /\ l0 <= AtLeast(1, MaxPromptCtx(q) - 1)
      BY <1>3, <2>1 DEF PastFits, l0
    <3>2. MaxPromptCtx(q) \in Int
      BY ParamsTyped
    <3>3. AtLeast(1, MaxPromptCtx(q) - 1) <= m - 1
      BY <1>3, <1>8, <2>1, <3>1 DEF KeepsBudget, m
    <3>. QED BY <1>1, <1>2, <1>3, <3>1, <3>2, <3>3 DEF AtLeast
  <2>. QED BY <1>2, <1>3, <1>4, <1>8, <2>1 DEF PromptMax, AtLeast, m
<1>9. Len(<<>>) <= PromptMax(p)
  BY <1>2 DEF PromptMax, AtLeast, m
<1>10. \/ Context(p, s, temperature) = <<>>
       \/ /\ p.n_max_text_ctx > 0
          /\ Context(p, s, temperature) = LastOf(s.past0, n0) \o LastOf(s.past1, n1)
  BY DEF Context, n0, n1
<1>. QED BY <1>7, <1>8, <1>9, <1>10

LEMMA NothingFits ==
  ASSUME NEW p \in Params
  PROVE  Len(<<>>) <= PromptMax(p)
<1>1. MaxPromptCtx(p) \in Int
  BY ParamsTyped
<1>. QED BY <1>1 DEF PromptMax, AtLeast

\* Forgotten and WithPrompt change the rolling prompts alone.
LEMMA PromptOfCall ==
  ASSUME call \in Origins, NEW p \in Params, NEW s, StateOK(s)
  PROVE  /\ StateOK(WithPrompt(p, Forgotten(p, s)))
         /\ p.no_context => /\ WithPrompt(p, Forgotten(p, s)).past0 \in Seq({call})
                            /\ WithPrompt(p, Forgotten(p, s)).past1 \in Seq({call})
<1> DEFINE f == Forgotten(p, s)
           w == WithPrompt(p, f)
<1>1. StateOK(f) /\ (p.no_context => f.past0 \in Seq({call}) /\ f.past1 \in Seq({call}))
  <2>1. PastFits(<<>>)
    BY DEF PastFits
  <2>. QED BY <2>1 DEF Forgotten, StateOK, FreeState
<1>2. \A n \in Nat : /\ Tokens(n) \in Seq({call}) /\ Tokens(n) \in Seq(Origins)
                     /\ Len(Tokens(n)) = n
  <2>1. \A n \in Nat : Tokens(n) \in Seq({call}) /\ Tokens(n) \in Seq(Origins)
    BY TokensSeq, SeqIsMonotone
  <2>. QED BY <2>1 DEF Tokens
<1>3. p.prompt \in Nat /\ AtMost(p.prompt, AtLeast(1, MaxPromptCtx(p) - 1)) \in Nat
  BY ParamsTyped DEF AtMost, AtLeast
<1>8. /\ MaxPromptCtx(p) \in Int
      /\ AtMost(p.prompt, AtLeast(1, MaxPromptCtx(p) - 1)) <= AtLeast(1, MaxPromptCtx(p) - 1)
  BY ParamsTyped DEF AtMost, AtLeast
<1> HIDE DEF f
<1>4. CASE p.prompt = 0
  <2>1. w = f
    BY <1>4 DEF WithPrompt
  <2> QED BY <1>1, <2>1 DEF f
<1>5. CASE p.prompt # 0 /\ ~p.carry_initial_prompt
  <2>1. w = [f EXCEPT !.past1 = Tokens(p.prompt) \o @]
    BY <1>5 DEF WithPrompt
  <2>2. w.past0 = f.past0 /\ w.past1 = Tokens(p.prompt) \o f.past1 /\ DOMAIN w = DOMAIN f
    BY <2>1, <1>1 DEF StateOK, FreeState
  <2>3. Tokens(p.prompt) \o f.past1 \in Seq(Origins)
    BY <1>1, <1>2, <1>3 DEF StateOK
  <2>4. p.no_context => Tokens(p.prompt) \o f.past1 \in Seq({call})
    BY <1>1, <1>2, <1>3
  <2> QED BY <1>1, <2>2, <2>3, <2>4 DEF StateOK, f
<1>6. CASE p.prompt # 0 /\ p.carry_initial_prompt /\ f.past0 # <<>>
  <2>1. w = f
    BY <1>6 DEF WithPrompt
  <2> QED BY <1>1, <2>1 DEF f
<1>7. CASE p.prompt # 0 /\ p.carry_initial_prompt /\ f.past0 = <<>>
  <2> DEFINE n == AtMost(p.prompt, AtLeast(1, MaxPromptCtx(p) - 1))
  <2>1. w = [f EXCEPT !.past0 = Tokens(n)]
    BY <1>7 DEF WithPrompt
  <2>2. w.past1 = f.past1 /\ w.past0 = Tokens(n) /\ DOMAIN w = DOMAIN f
    BY <2>1, <1>1 DEF StateOK, FreeState
  <2>3. n \in Nat /\ n <= AtLeast(1, MaxPromptCtx(p) - 1)
    BY <1>3, <1>8
  <2>. HIDE DEF n
  <2>4. PastFits(w.past0)
    <3>1. p.prompt > 0
      BY <1>3, <1>7
    <3>2. Len(w.past0) = n
      BY <1>2, <2>2, <2>3
    <3>. QED BY <1>7, <2>3, <3>1, <3>2 DEF PastFits
  <2> QED BY <1>1, <1>2, <2>2, <2>3, <2>4 DEF StateOK, f
<1> QED BY <1>4, <1>5, <1>6, <1>7 DEF f

-------------------------------------------------------------------------------
(* What a decoder samples.                                                     *)

\* A decoder's record stays one when it takes a token.
LEMMA UpdatedIsRun ==
  ASSUME NEW p, NEW r \in Run, r.tokens # <<>>, NEW left
  PROVE  Updated(p, r, left) \in Run
<1>. DEFINE token == Last(r.tokens)
            i     == Len(r.tokens) - 1
            moved == IF MovesWindow(token)
                     THEN [r EXCEPT !.delta = 2 * token, !.len = i + 1, !.has_ts = TRUE]
                     ELSE r
<1>1. ChunkFrames \in Nat \ {0}
  BY FullAssumption DEF FullAssumption
<1>2. r.tokens \in Seq(Sampled) /\ token \in Sampled /\ i \in Nat
  BY DEF Run, Sampled, Last
<1>3. MovesWindow(token) => 2 * token \in 0..ChunkFrames
  <2>. SUFFICES ASSUME NEW x \in Sampled, MovesWindow(x) PROVE 2 * x \in 0..ChunkFrames
    BY <1>2
  <2>1. x \in 0..(ChunkFrames \div 2)
    BY DEF Sampled, Stamps, MovesWindow, Text, Eot
  <2>. QED BY <1>1, <2>1
<1>. HIDE DEF token
<1>4. moved \in Run
  <2>1. ASSUME MovesWindow(token)
        PROVE  [r EXCEPT !.delta = 2 * token, !.len = i + 1, !.has_ts = TRUE] \in Run
    <3>1. 2 * token \in 0..ChunkFrames /\ i + 1 \in Nat
      BY <1>2, <1>3, <2>1
    <3>2. \A d \in 0..ChunkFrames, n \in Nat :
            [r EXCEPT !.delta = d, !.len = n, !.has_ts = TRUE] \in Run
      BY DEF Run
    <3>. HIDE DEF i
    <3>. QED BY <3>1, <3>2
  <2>. QED BY <2>1
<1>. HIDE DEF moved
<1>5. \A n \in Nat, d \in 0..ChunkFrames :
        [moved EXCEPT !.status = "completed", !.len = n, !.delta = d] \in Run
  BY <1>4 DEF Run
<1>6. [r EXCEPT !.status = "failed"] \in Run /\ [moved EXCEPT !.status = "failed"] \in Run
  BY <1>4 DEF Run
<1>7. moved.len \in Nat /\ i + 1 \in Nat /\ moved.delta \in 0..ChunkFrames
        /\ ChunkFrames \in 0..ChunkFrames
  BY <1>1, <1>2, <1>4 DEF Run
<1>. DEFINE atEnd == moved.delta + DeltaMin >= left
            unstamped == moved.len = 0 /\ ~p.no_timestamps
            whole == p.single_segment \/ p.no_timestamps
            n == IF unstamped \/ whole THEN i + 1 ELSE moved.len
            d == IF whole THEN ChunkFrames ELSE moved.delta
            done == [moved EXCEPT !.status = "completed", !.len = n, !.delta = d]
<1>8. done \in Run
  <2>1. n \in Nat /\ d \in 0..ChunkFrames
    BY <1>7
  <2>. HIDE DEF n, d
  <2>. QED BY <1>5, <2>1
<1>9. \/ Updated(p, r, left) = [r EXCEPT !.status = "failed"]
      \/ Updated(p, r, left) = [moved EXCEPT !.status = "failed"]
      \/ Updated(p, r, left) = done
      \/ Updated(p, r, left) = moved
  BY DEF Updated, moved, i, token
<1>. QED BY <1>4, <1>6, <1>8, <1>9

\* What holds of a fresh record, and stays true with a token, is true of a run.
LEMMA RunsWithin ==
  ASSUME NEW p, NEW left, NEW S, Fresh \in S, \A r \in S : Grown(p, r, left) \subseteq S
  PROVE  Runs(p, left) \subseteq S
<1>. DEFINE grown(R) == UNION {Grown(p, r, left) : r \in R}
            b == {Fresh}
            n == MaxTokens
            body(f, k) == IF k = 0 THEN b ELSE grown(f[k - 1])
            after == CHOOSE f : f = [k \in 0..n |-> body(f, k)]
            T == SUBSET S
            F == [k \in 1..n |-> [R \in T |-> grown(R)]]
<1>1. Runs(p, left) = after[n] /\ n \in Nat
  BY FullAssumption DEF FullAssumption, Runs
<1>2. b \in T
  OBVIOUS
<1>3. \A R \in T : grown(R) \in T
  OBVIOUS
<1>. HIDE DEF T, grown, b, n
<1>4. \A k \in 1..n : \A R \in T : F[k][R] = grown(R)
  OBVIOUS
<1>. HIDE DEF F
<1>5. n \in Nat /\ StepsWithin(F, n, T)
  BY <1>1, <1>3, <1>4 DEF StepsWithin
<1>6. PICK g \in [0..n -> T] : Leads(g, n, b, F)
  BY <1>2, <1>5, Recursion
<1>7. \A k \in 0..n : g[k] = body(g, k)
  <2>. SUFFICES ASSUME NEW k \in 0..n, k # 0 PROVE g[k] = grown(g[k - 1])
    BY <1>1, <1>6 DEF Leads
  <2>1. k \in 1..n /\ g[k - 1] \in T /\ g[k] = F[k][g[k - 1]]
    BY <1>1, <1>6 DEF Leads
  <2>. QED BY <1>4, <2>1
<1>. HIDE DEF body
<1>8. g = [k \in 0..n |-> body(g, k)]
  BY <1>6, <1>7
<1>9. after = [k \in 0..n |-> body(after, k)]
  BY <1>8
<1>. HIDE DEF after
<1>10. after[0] = b /\ \A k \in 1..n : after[k] = grown(after[k - 1])
  <2>1. \A k \in 0..n : after[k] = body(after, k)
    BY <1>9
  <2>. QED BY <1>1, <2>1 DEF body
<1>11. after[n] \in T
  <2>1. n \in Nat /\ after[0] \in T /\ \A k \in 1..n : after[k - 1] \in T => after[k] \in T
    BY <1>1, <1>2, <1>3, <1>10
  <2>. QED BY <2>1, StaysWithin, Zenon
<1>. QED BY <1>1, <1>11 DEF T
\* The timestamps of a decoder never go back, all of them are in what the window
\* moves by, and the window begins at the first token if that is one.
Rises(r) ==
  /\ r.len <= Len(r.tokens)
  /\ \A k \in 1..Len(r.tokens) : 2 * r.tokens[k] <= r.delta
  /\ \A j, k \in 1..Len(r.tokens) : j <= k /\ r.tokens[k] > 0 => r.tokens[j] <= r.tokens[k]
  /\ r.tokens # <<>> /\ r.tokens[1] >= 0 => r.tid = r.tokens[1]
\* While it samples, the last of them is what the window moves by.
Moves(r) ==
  IF r.has_ts THEN \E s \in Stamps : r.delta = 2 * s
  ELSE \A k \in 1..Len(r.tokens) : r.tokens[k] <= 0
Timed(r) == Rises(r) /\ (r.status = "live" => Moves(r))
TimedRuns == {r \in Run : Timed(r)}

\* The tokens of a run with its newest, before the update.
Taken(r, token, tid, ts) ==
  /\ ts \in Seq(Sampled) /\ Len(ts) = Len(r.tokens) + 1 /\ ts[Len(ts)] = token
  /\ token \in Sampled
  /\ token > 0 /\ r.has_ts => r.delta <= 2 * token
  /\ \A j, k \in 1..Len(ts) : j <= k /\ ts[k] > 0 => ts[j] <= ts[k]
  /\ ts[1] >= 0 => tid = ts[1]
  /\ \A k \in 1..Len(ts) : \/ k \in 1..Len(r.tokens) /\ ts[k] = r.tokens[k]
                           \/ k = Len(ts) /\ ts[k] = token

LEMMA TokenTaken ==
  ASSUME NEW p, NEW r \in TimedRuns, r.status = "live",
         NEW token \in Allowed(p, r), NEW tid \in Tids(p, r, token)
  PROVE  Taken(r, token, tid, Append(r.tokens, token))
<1>. DEFINE ts == Append(r.tokens, token)
<1>1. /\ r \in Run /\ Rises(r) /\ Moves(r) /\ ChunkFrames \in Nat
      /\ Sampled \subseteq Int /\ Stamps \subseteq Nat /\ r.delta \in Nat
  BY FullAssumption DEF TimedRuns, Timed, FullAssumption, Sampled, Stamps, Text, Eot, Run
<1>2. token \in Sampled /\ token \in Int
  <2>1. StampsLeft(p, r) \subseteq Stamps
    BY DEF StampsLeft
  <2>. QED BY <1>1, <2>1 DEF Allowed, Sampled
<1>3. r.tokens \in Seq(Sampled)
  BY <1>1 DEF Run, Sampled
<1>. DEFINE n == Len(r.tokens)
<1>4. /\ ts \in Seq(Sampled) /\ Len(ts) = n + 1 /\ n \in Nat
      /\ ts[n + 1] = token /\ \A k \in 1..n : ts[k] = r.tokens[k] /\ ts[k] \in Int
  <2>1. /\ n \in Nat /\ ts \in Seq(Sampled) /\ Len(ts) = n + 1 /\ ts[n + 1] = token
        /\ \A k \in 1..n : ts[k] = r.tokens[k]
    BY <1>2, <1>3
  <2>2. \A k \in 1..n : r.tokens[k] \in Int
    <3>1. \A k \in 1..n : r.tokens[k] \in Sampled
      BY <1>3
    <3>. QED BY <1>1, <3>1
  <2>. HIDE DEF n
  <2>. QED BY <2>1, <2>2
<1>. HIDE DEF n, ts
<1>5. ASSUME token > 0, r.has_ts PROVE r.delta <= 2 * token
  <2>1. token \in StampsLeft(p, r)
    BY <1>2, <1>5 DEF Allowed, Text, Eot
  <2>2. token >= r.delta \div 2
    BY <1>5, <2>1 DEF StampsLeft
  <2>3. PICK s \in Stamps : r.delta = 2 * s
    BY <1>1, <1>5 DEF Moves
  <2>4. s \in Nat /\ r.delta \div 2 = s
    BY <1>1, <2>3
  <2>. QED BY <1>2, <2>2, <2>3, <2>4
<1>6. ASSUME NEW k \in 1..n, token > 0 PROVE r.tokens[k] <= token
  <2>1. r.tokens[k] \in Int
    BY <1>4
  <2>2. CASE r.has_ts
    <3>1. 2 * r.tokens[k] <= r.delta
      BY <1>1 DEF Rises, n
    <3>2. r.delta <= 2 * token
      BY <1>5, <1>6, <2>2
    <3>. QED BY <1>1, <1>2, <2>1, <3>1, <3>2
  <2>3. CASE ~r.has_ts
    <3>1. r.tokens[k] <= 0
      BY <1>1, <2>3 DEF Moves, n
    <3>. QED BY <1>2, <1>6, <2>1, <3>1
  <2>. QED BY <2>2, <2>3
<1>7. ASSUME NEW j \in 1..(n + 1), NEW k \in 1..(n + 1), j <= k, ts[k] > 0
      PROVE  ts[j] <= ts[k]
  <2>1. CASE k <= n
    <3>1. j \in 1..n /\ k \in 1..n
      BY <1>4, <1>7, <2>1
    <3>2. r.tokens[k] > 0 => r.tokens[j] <= r.tokens[k]
      BY <1>1, <1>7, <3>1 DEF Rises, n
    <3>. QED BY <1>4, <1>7, <3>1, <3>2
  <2>2. CASE k = n + 1 /\ j <= n
    <3>1. j \in 1..n /\ token > 0
      BY <1>4, <1>7, <2>2
    <3>. QED BY <1>4, <1>6, <2>2, <3>1
  <2>3. CASE k = n + 1 /\ j = n + 1
    BY <1>2, <1>4, <2>3
  <2>. QED BY <1>4, <1>7, <2>1, <2>2, <2>3
<1>8. ASSUME ts[1] >= 0 PROVE tid = ts[1]
  <2>1. CASE r.tokens = <<>>
    <3>1. ts[1] = token
      BY <2>1 DEF ts
    <3>2. Tids(p, r, token) = {token}
      BY <1>8, <2>1, <3>1 DEF Tids, IsStamp
    <3>. QED BY <3>1, <3>2
  <2>2. CASE r.tokens # <<>>
    <3>1. Tids(p, r, token) = {r.tid}
      BY <2>2 DEF Tids
    <3>2. ts[1] = r.tokens[1]
      BY <1>3, <1>4, <2>2 DEF n
    <3>. QED BY <1>1, <1>8, <2>2, <3>1, <3>2 DEF Rises
  <2>. QED BY <2>1, <2>2
<1>9. \A k \in 1..Len(ts) : \/ k \in 1..n /\ ts[k] = r.tokens[k]
                            \/ k = Len(ts) /\ ts[k] = token
  BY <1>4
<1>10. Taken(r, token, tid, ts)
  BY <1>2, <1>4, <1>5, <1>7, <1>8, <1>9 DEF n, Taken
<1>. QED BY <1>10 DEF ts

\* A run that has just taken its newest token.
Sampling(q) ==
  /\ q \in Run /\ q.tokens # <<>> /\ q.status = "live" /\ q.len <= Len(q.tokens)
  /\ \A k \in 1..Len(q.tokens) : 2 * q.tokens[k] <= q.delta \/ q.tokens[Len(q.tokens)] > 0
  /\ \A j, k \in 1..Len(q.tokens) : j <= k /\ q.tokens[k] > 0 => q.tokens[j] <= q.tokens[k]
  /\ q.tokens[1] >= 0 => q.tid = q.tokens[1]
  /\ IF q.tokens[Len(q.tokens)] > 0 THEN q.has_ts => q.delta <= 2 * q.tokens[Len(q.tokens)]
     ELSE Moves(q)

LEMMA UpdatedIsTimed ==
  ASSUME NEW p, NEW q, Sampling(q), NEW left
  PROVE  Updated(p, q, left) \in TimedRuns
<1>. DEFINE token == Last(q.tokens)
            i     == Len(q.tokens) - 1
            moved == IF MovesWindow(token)
                     THEN [q EXCEPT !.delta = 2 * token, !.len = i + 1, !.has_ts = TRUE]
                     ELSE q
            atEnd == moved.delta + DeltaMin >= left
            unstamped == moved.len = 0 /\ ~p.no_timestamps
            whole == p.single_segment \/ p.no_timestamps
            n == IF unstamped \/ whole THEN i + 1 ELSE moved.len
            d == IF whole THEN ChunkFrames ELSE moved.delta
            done == [moved EXCEPT !.status = "completed", !.len = n, !.delta = d]
            ts == q.tokens
<1>1. /\ ChunkFrames \in Nat /\ Sampled \subseteq Int /\ Stamps \subseteq Nat
      /\ \A s \in Stamps : 2 * s <= ChunkFrames
      /\ \A x \in Sampled : x > 0 => x \in Stamps
  <2>1. ChunkFrames \in Nat
    BY FullAssumption DEF FullAssumption
  <2>2. \A s \in Stamps : s \in Nat /\ 2 * s <= ChunkFrames
    BY <2>1 DEF Stamps
  <2>. QED BY <2>1, <2>2 DEF Sampled, Text, Eot
<1>2. /\ q \in Run /\ ts \in Seq(Sampled) /\ q.delta \in Nat /\ q.len \in Nat
      /\ q.has_ts \in BOOLEAN /\ q.status = "live"
      /\ DOMAIN q = {"tokens", "tid", "delta", "has_ts", "len", "status"}
  BY <1>1 DEF Sampling, Run, Sampled
<1>3. /\ Len(ts) \in Nat \ {0} /\ token = ts[Len(ts)] /\ token \in Sampled
      /\ \A k \in 1..Len(ts) : ts[k] \in Sampled
  BY <1>2 DEF Sampling, Last
<1>4. /\ \A k \in 1..Len(ts) : ts[k] \in Int
      /\ token \in Int /\ i + 1 = Len(ts) /\ (MovesWindow(token) <=> token > 0)
  <2>1. \A k \in 1..Len(ts) : ts[k] \in Int
    BY <1>1, <1>3
  <2>2. MovesWindow(token) <=> token > 0
    BY DEF MovesWindow
  <2>3. token \in Int
    BY <1>1, <1>3
  <2>. HIDE DEF token, ts
  <2>4. Len(ts) - 1 + 1 = Len(ts)
    BY <1>3
  <2>. QED BY <2>1, <2>2, <2>3, <2>4 DEF ts
<1>5. /\ q.len <= Len(ts)
      /\ \A k \in 1..Len(ts) : 2 * ts[k] <= q.delta \/ token > 0
      /\ \A j, k \in 1..Len(ts) : j <= k /\ ts[k] > 0 => ts[j] <= ts[k]
      /\ ts[1] >= 0 => q.tid = ts[1]
      /\ token > 0 => (q.has_ts => q.delta <= 2 * token)
      /\ ~(token > 0) => Moves(q)
  BY <1>3 DEF Sampling
<1>. DEFINE x == 2 * token
            m == i + 1
<1>6. x \in Int /\ m \in Nat /\ m = Len(ts)
  BY <1>3, <1>4
<1>7. /\ moved.tokens = ts /\ moved.tid = q.tid /\ moved.status = "live"
      /\ moved.delta = (IF token > 0 THEN x ELSE q.delta)
      /\ moved.len = (IF token > 0 THEN m ELSE q.len)
      /\ moved.has_ts = (IF token > 0 THEN TRUE ELSE q.has_ts)
      /\ DOMAIN moved = {"tokens", "tid", "delta", "has_ts", "len", "status"}
  <2>1. moved = IF token > 0 THEN [q EXCEPT !.delta = x, !.len = m, !.has_ts = TRUE] ELSE q
    BY <1>4
  <2>. HIDE DEF moved, x, m, token
  <2>. QED BY <1>2, <2>1
<1>. HIDE DEF moved
<1>8. \A k \in 1..Len(ts) : 2 * ts[k] <= moved.delta
  <2>. SUFFICES ASSUME NEW k \in 1..Len(ts) PROVE 2 * ts[k] <= moved.delta
    OBVIOUS
  <2>1. CASE token > 0
    <3>1. Len(ts) \in 1..Len(ts) /\ k <= Len(ts)
      BY <1>3
    <3>2. ts[k] <= token
      BY <1>3, <1>5, <2>1, <3>1
    <3>3. ts[k] \in Int
      BY <1>4
    <3>. HIDE DEF token, ts
    <3>. QED BY <1>4, <1>7, <2>1, <3>2, <3>3 DEF x
  <2>2. CASE ~(token > 0)
    BY <1>5, <1>7, <2>2
  <2>. QED BY <2>1, <2>2
<1>9. moved.len <= Len(ts) /\ moved.len \in Nat
  <2>. HIDE DEF m, token, ts
  <2>. QED BY <1>2, <1>5, <1>6, <1>7
<1>10. Moves(moved)
  <2>1. CASE token > 0
    <3>1. token \in Stamps /\ moved.has_ts /\ moved.delta = 2 * token
      BY <1>1, <1>3, <1>7, <2>1
    <3>. QED BY <3>1 DEF Moves
  <2>2. CASE ~(token > 0)
    <3>1. Moves(q)
      BY <1>5, <2>2
    <3>2. moved.delta = q.delta /\ moved.has_ts = q.has_ts /\ moved.tokens = q.tokens
      BY <1>7, <2>2
    <3>. QED BY <3>1, <3>2 DEF Moves
  <2>. QED BY <2>1, <2>2
<1>11. ~(MovesWindow(token) /\ q.has_ts /\ q.delta > 2 * token)
  <2>. HIDE DEF token
  <2>. QED BY <1>2, <1>4, <1>5
<1>12. \A k \in 1..Len(ts) : 2 * ts[k] <= ChunkFrames
  <2>. SUFFICES ASSUME NEW k \in 1..Len(ts) PROVE 2 * ts[k] <= ChunkFrames
    OBVIOUS
  <2>1. ts[k] \in Sampled /\ ts[k] \in Int
    BY <1>3, <1>4
  <2>. HIDE DEF ts
  <2>. QED BY <1>1, <2>1
<1>13. /\ n \in Nat /\ n <= Len(ts)
       /\ \A k \in 1..Len(ts) : 2 * ts[k] <= d
  BY <1>6, <1>8, <1>9, <1>12 DEF m
<1>. HIDE DEF n, d
<1>14. Updated(p, q, left) \in {[moved EXCEPT !.status = "failed"], done, moved}
  <2>1. \/ MovesWindow(token) /\ q.has_ts /\ q.delta > 2 * token
        \/ Updated(p, q, left) \in {[moved EXCEPT !.status = "failed"], done, moved}
    BY DEF Updated, moved, n, d
  <2>. QED BY <1>11, <2>1
<1>15. Updated(p, q, left) \in Run
  BY <1>2, UpdatedIsRun DEF Sampling
<1>16. ASSUME NEW u \in {[moved EXCEPT !.status = "failed"], done, moved}
       PROVE  Timed(u)
  <2>1. /\ u.tokens = ts /\ u.tid = q.tid /\ u.len <= Len(ts)
        /\ \A k \in 1..Len(ts) : 2 * ts[k] <= u.delta
        /\ u.status = "live" => u = moved
    <3>1. CASE u = done
      <4>1. u.tokens = ts /\ u.tid = q.tid /\ u.len = n /\ u.delta = d /\ u.status = "completed"
        BY <1>7, <3>1
      <4>. QED BY <1>13, <4>1
    <3>2. CASE u = moved
      BY <1>7, <1>8, <1>9, <3>2
    <3>3. CASE u = [moved EXCEPT !.status = "failed"]
      <4>1. /\ u.tokens = ts /\ u.tid = q.tid /\ u.len = moved.len /\ u.delta = moved.delta
            /\ u.status = "failed"
        BY <1>7, <3>3
      <4>. QED BY <1>8, <1>9, <4>1
    <3>. QED BY <3>1, <3>2, <3>3
  <2>2. Rises(u)
    <3>. HIDE DEF ts
    <3>. QED BY <1>5, <2>1 DEF Rises
  <2>. QED BY <1>10, <2>1, <2>2 DEF Timed
<1>. QED BY <1>14, <1>15, <1>16 DEF TimedRuns

LEMMA GrownAreTimed ==
  ASSUME NEW p, NEW r \in TimedRuns, NEW left
  PROVE  Grown(p, r, left) \subseteq TimedRuns
<1>. DEFINE with(token, tid) == [r EXCEPT !.tokens = Append(@, token), !.tid = tid]
<1>1. CASE r.status # "live"
  <2>1. Grown(p, r, left) = {r}
    BY <1>1 DEF Grown
  <2>. QED BY <2>1
<1>2. ASSUME r.status = "live", NEW token \in Allowed(p, r), NEW tid \in Tids(p, r, token)
      PROVE  Updated(p, with(token, tid), left) \in TimedRuns
  <2>. DEFINE q  == with(token, tid)
              ts == Append(r.tokens, token)
  <2>1. /\ r \in Run /\ Rises(r) /\ Moves(r) /\ r.delta \in Nat /\ r.len \in Nat
        /\ r.tokens \in Seq(Sampled) /\ Sampled \subseteq Int
    <3>1. r \in Run /\ Rises(r) /\ Moves(r)
      BY <1>2 DEF TimedRuns, Timed
    <3>2. Sampled \subseteq Int
      BY DEF Sampled, Stamps, Text, Eot
    <3>. QED BY <3>1, <3>2, FullAssumption DEF FullAssumption, Run, Sampled
  <2>2. q = [r EXCEPT !.tokens = ts, !.tid = tid]
    BY <2>1
  <2>. HIDE DEF ts
  <2>3. /\ ts \in Seq(Sampled) /\ Len(ts) = Len(r.tokens) + 1 /\ ts[Len(ts)] = token
        /\ token \in Sampled
        /\ token > 0 /\ r.has_ts => r.delta <= 2 * token
        /\ \A j, k \in 1..Len(ts) : j <= k /\ ts[k] > 0 => ts[j] <= ts[k]
        /\ ts[1] >= 0 => tid = ts[1]
        /\ \A k \in 1..Len(ts) : \/ k \in 1..Len(r.tokens) /\ ts[k] = r.tokens[k]
                                 \/ k = Len(ts) /\ ts[k] = token
    <3>1. Taken(r, token, tid, ts)
      BY <1>2, TokenTaken DEF ts
    <3>. QED BY <3>1 DEF Taken
  <2>4. tid \in Int
    <3>1. /\ StampsLeft(p, r) \subseteq Int /\ -Beg \in Int /\ r.tid \in Int /\ token \in Int
      BY <2>1, <2>3, FullAssumption DEF FullAssumption, StampsLeft, Stamps, Run
    <3>2. \/ tid = r.tid \/ tid = token \/ tid \in StampsLeft(p, r)
          \/ tid \in {IF p.beam_size > 0 THEN 0 ELSE -Beg}
      BY <1>2 DEF Tids
    <3>3. (IF p.beam_size > 0 THEN 0 ELSE -Beg) \in Int
      BY <3>1
    <3>. QED BY <3>1, <3>2, <3>3
  <2>. HIDE DEF q
  <2>5. /\ q \in Run /\ q.tokens = ts /\ q.tid = tid /\ q.delta = r.delta /\ q.len = r.len
        /\ q.has_ts = r.has_ts /\ q.status = "live"
    BY <1>2, <2>1, <2>2, <2>3, <2>4 DEF Run, Sampled
  <2>. DEFINE n == Len(ts)
  <2>6. /\ n \in Nat \ {0} /\ ts # <<>> /\ ts[n] = token /\ token \in Int
        /\ Len(r.tokens) \in Nat /\ n = Len(r.tokens) + 1
    <3>1. Len(r.tokens) \in Nat /\ Len(ts) \in Nat
      BY <2>1, <2>3
    <3>2. token \in Int
      BY <2>1, <2>3
    <3>3. n \in Nat \ {0} /\ n = Len(r.tokens) + 1 /\ ts[n] = token
      BY <2>3, <3>1
    <3>. QED BY <3>1, <3>2, <3>3
  <2>. HIDE DEF n
  <2>7. q.len <= n
    BY <2>1, <2>5, <2>6 DEF Rises
  <2>8. \A k \in 1..n : 2 * ts[k] <= q.delta \/ token > 0
    <3>. SUFFICES ASSUME NEW k \in 1..n, ~(token > 0) PROVE 2 * ts[k] <= q.delta
      OBVIOUS
    <3>1. CASE k \in 1..Len(r.tokens) /\ ts[k] = r.tokens[k]
      BY <2>1, <2>5, <3>1 DEF Rises
    <3>2. CASE ts[k] = token
      BY <2>1, <2>5, <2>6, <3>2
    <3>. QED BY <2>3, <3>1, <3>2 DEF n
  <2>9. ASSUME ~(token > 0) PROVE Moves(q)
    <3>1. CASE r.has_ts
      BY <2>1, <2>5, <3>1 DEF Moves
    <3>2. CASE ~r.has_ts
      <4>1. ASSUME NEW k \in 1..n PROVE ts[k] <= 0
        <5>1. CASE k \in 1..Len(r.tokens) /\ ts[k] = r.tokens[k]
          BY <2>1, <3>2, <5>1 DEF Moves
        <5>2. CASE ts[k] = token
          BY <2>6, <2>9, <5>2
        <5>. QED BY <2>3, <4>1, <5>1, <5>2 DEF n
      <4>. QED BY <2>5, <3>2, <4>1 DEF Moves, n
    <3>. QED BY <3>1, <3>2
  <2>10. Sampling(q)
    BY <2>3, <2>5, <2>6, <2>7, <2>8, <2>9 DEF Sampling, n
  <2>. QED BY <2>10, UpdatedIsTimed DEF q
<1>3. ASSUME r.status = "live"
      PROVE  Grown(p, r, left) = UNION {{Updated(p, with(token, tid), left) :
                                   tid \in Tids(p, r, token)} : token \in Allowed(p, r)}
  BY <1>3 DEF Grown
<1>. HIDE DEF with
<1>. QED BY <1>1, <1>2, <1>3

\* Whatever a decoder samples, its record is one whose timestamps rise.
LEMMA RunsAreTimed ==
  ASSUME NEW p, NEW left
  PROVE  Runs(p, left) \subseteq TimedRuns
<1>1. Fresh \in TimedRuns
  <2>1. <<>> \in Seq(Stamps \cup {Text, Eot})
    OBVIOUS
  <2>2. Fresh \in Run
    BY <2>1, FullAssumption DEF Fresh, Run, FullAssumption
  <2>3. Rises(Fresh) /\ Moves(Fresh)
    BY DEF Fresh, Rises, Moves
  <2>. QED BY <2>2, <2>3 DEF TimedRuns, Timed
<1>. QED BY <1>1, GrownAreTimed, RunsWithin

LEMMA BestIsSpoken ==
  ASSUME NEW p \in Params, NEW left \in Lefts, NEW temperature, NEW old, Spoken(old.run),
         NEW best \in Best(p, left, temperature, old)
  PROVE  Spoken(best.run)
<1>. DEFINE runs   == Runs(p, left)
            ended  == {[r EXCEPT !.tokens = SubSeq(@, 1, r.len)] :
                         r \in {q \in runs : q.status # "failed"}}
            loops  == {[r EXCEPT !.status = "failed"] :
                         r \in {q \in ended : q.len > EntropyLen}}
            failed == {q \in runs : q.status = "failed"}
            all    == Outcomes[p][left]
            fields == {"tokens", "tid", "delta", "len", "status", "has_ts"}
<1>1. \A r \in runs : r \in Run /\ DOMAIN r = fields /\ Spoken(r) /\ r.len <= Len(r.tokens)
  <2>. SUFFICES ASSUME NEW r \in runs
                PROVE  r \in Run /\ DOMAIN r = fields /\ Spoken(r) /\ r.len <= Len(r.tokens)
    OBVIOUS
  <2>1. r \in Run /\ Rises(r)
    BY RunsAreTimed DEF TimedRuns, Timed
  <2>2. /\ r.tokens \in Seq(Sampled) /\ r.tid \in Int /\ r.delta \in 0..ChunkFrames
        /\ r.len \in Nat /\ DOMAIN r = fields
    BY <2>1 DEF Run, Sampled
  <2>. QED BY <2>1, <2>2 DEF Rises, Spoken
<1>2. \A r \in failed : Spoken(r)
  BY <1>1
<1>3. \A r \in ended : Spoken(r) /\ DOMAIN r = fields
  <2>. SUFFICES ASSUME NEW r \in runs
                PROVE  LET q == [r EXCEPT !.tokens = SubSeq(@, 1, r.len)]
                       IN  Spoken(q) /\ DOMAIN q = fields
    OBVIOUS
  <2>. DEFINE q == [r EXCEPT !.tokens = SubSeq(@, 1, r.len)]
              ts == SubSeq(r.tokens, 1, r.len)
  <2>1. DOMAIN r = fields /\ Spoken(r) /\ r.len <= Len(r.tokens)
    BY <1>1
  <2>2. /\ q.tokens = ts /\ q.tid = r.tid /\ q.delta = r.delta /\ q.len = r.len
        /\ DOMAIN q = fields
    BY <2>1
  <2>3. /\ ts \in Seq(Sampled) /\ Len(ts) = r.len /\ r.len \in Nat
        /\ \A k \in 1..r.len : ts[k] = r.tokens[k] /\ k \in 1..Len(r.tokens)
    BY <2>1 DEF Spoken
  <2>. HIDE DEF q, ts, fields
  <2>4. /\ \A k \in 1..Len(ts) : 2 * ts[k] <= r.delta
        /\ \A j, k \in 1..Len(ts) : j <= k /\ ts[k] > 0 => ts[j] <= ts[k]
    BY <2>1, <2>3 DEF Spoken
  <2>5. ASSUME ts # <<>>, ts[1] >= 0 PROVE r.tid = ts[1]
    <3>1. 1 \in 1..r.len
      BY <2>3, <2>5
    <3>2. ts[1] = r.tokens[1] /\ 1 \in 1..Len(r.tokens)
      BY <2>3, <3>1
    <3>. QED BY <2>1, <2>5, <3>2 DEF Spoken
  <2>6. Spoken(q)
    BY <2>1, <2>2, <2>3, <2>4, <2>5 DEF Spoken
  <2>. QED BY <2>2, <2>6 DEF q
<1>4. \A r \in loops : Spoken(r)
  <2>. SUFFICES ASSUME NEW r \in ended PROVE Spoken([r EXCEPT !.status = "failed"])
    OBVIOUS
  <2>. DEFINE q == [r EXCEPT !.status = "failed"]
  <2>1. q.tokens = r.tokens /\ q.tid = r.tid /\ q.delta = r.delta /\ q.len = r.len
    BY <1>3
  <2>. HIDE DEF q
  <2>2. Spoken(q)
    BY <1>3, <2>1 DEF Spoken
  <2>. QED BY <2>2 DEF q
<1>5. all = [run : ended \cup loops, low : BOOLEAN] \cup [run : failed, low : {TRUE}]
  BY DEF Outcomes
<1>. HIDE DEF ended, loops, failed, all
<1>6. \A o \in all : Spoken(o.run)
  BY <1>2, <1>3, <1>4, <1>5
<1>7. best = old \/ \E o \in all : best.run = o.run
  BY DEF Best, WithId, all
<1>. QED BY <1>6, <1>7

-------------------------------------------------------------------------------
(* Segments of speech, the audio without silence, and the mapping of times.   *)

Spans == [start : Int, end : Int]
Listening == [speeches : Seq(Spans), speaking : BOOLEAN, temp_end : Int, prev_end : Int,
              next_start : Int, start : Int, has : BOOLEAN]

\* Times and places are numbers.
LEMMA NumbersOfSound ==
  ASSUME NEW a \in Int, NEW b \in Int
  PROVE  /\ AtMost(a, b) \in Int /\ AtLeast(a, b) \in Int
         /\ SamplesToCs(a) \in Int /\ CsToSamples(a) \in Int
<1>1. SamplesPerCs \in Nat \ {0}
  BY VadAssumption DEF VadAssumption
<1>2. 2 * SamplesPerCs \in Nat \ {0} /\ 2 * a + SamplesPerCs \in Int
  BY <1>1
<1>3. SamplesToCs(a) \in Int
  <2>. DEFINE x == 2 * a + SamplesPerCs
              y == 2 * SamplesPerCs
  <2>1. x \in Int /\ y \in Nat \ {0}
    BY <1>2
  <2>. HIDE DEF x, y
  <2>2. x \div y \in Int
    BY <2>1
  <2>. QED BY <2>2 DEF SamplesToCs, x, y
<1>. QED BY <1>1, <1>3 DEF AtMost, AtLeast, CsToSamples

LEMMA QuietListens ==
  ASSUME NEW s \in Listening
  PROVE  Quiet(s) \in Listening /\ Reset(s) \in Listening
<1>1. Quiet(s) \in Listening
  BY DEF Listening, Quiet
<1>2. Reset(s) \in Listening
  <2>. DEFINE zero == 0
  <2>1. zero \in Int
    OBVIOUS
  <2>. HIDE DEF zero
  <2>2. [s EXCEPT !.prev_end = zero, !.next_start = zero, !.temp_end = zero] \in Listening
    BY <2>1 DEF Listening
  <2>. QED BY <2>2 DEF Reset, zero
<1>. QED BY <1>1, <1>2

LEMMA PushListens ==
  ASSUME NEW s \in Listening, NEW t \in Int
  PROVE  Push(s, t) \in Listening
<1>. DEFINE x == Segment(s.start, t)
<1>1. x \in Spans
  BY DEF Segment, Spans, Listening
<1>. HIDE DEF x
<1>2. Append(s.speeches, x) \in Seq(Spans)
  BY <1>1 DEF Listening
<1>3. [s EXCEPT !.speeches = Append(@, x)] \in Listening
  BY <1>2 DEF Listening
<1>. QED BY <1>3 DEF Push, x

LEMMA SplitListens ==
  ASSUME NEW s \in Listening
  PROVE  SplitAtSilence(s) \in Listening
<1>. DEFINE cut == [Push(s, s.prev_end) EXCEPT !.has = TRUE]
<1>1. s.prev_end \in Int /\ s.next_start \in Int
  BY DEF Listening
<1>2. cut \in Listening
  <2>. DEFINE q == Push(s, s.prev_end)
  <2>1. q \in Listening
    BY <1>1, PushListens
  <2>. HIDE DEF q
  <2>2. [q EXCEPT !.has = TRUE] \in Listening
    BY <2>1 DEF Listening
  <2>. QED BY <2>2 DEF q
<1>. HIDE DEF cut
<1>3. Quiet(cut) \in Listening /\ [cut EXCEPT !.start = s.next_start] \in Listening
  <2>1. [cut EXCEPT !.start = s.next_start] \in Listening
    BY <1>1, <1>2 DEF Listening
  <2>. QED BY <1>2, <2>1, QuietListens
<1>4. \A x \in Listening : Reset(x) \in Listening
  BY QuietListens
<1>. QED BY <1>3, <1>4 DEF SplitAtSilence, cut

LEMMA SilenceListens ==
  ASSUME NEW s \in Listening, NEW now \in Int, NEW prob
  PROVE  SilenceAfterSpeech(s, now, prob) \in Listening
<1>. DEFINE te == IF s.temp_end = 0 THEN now ELSE s.temp_end
            pe == IF now - te > SilenceAtMax THEN te ELSE s.prev_end
            s1 == [s EXCEPT !.temp_end = te, !.prev_end = pe]
<1>1. te \in Int /\ pe \in Int
  BY DEF Listening
<1>2. s1 \in Listening
  <2>. HIDE DEF te, pe
  <2>. QED BY <1>1 DEF Listening
<1>3. Push(s1, te) \in Listening
  <2>. HIDE DEF te, s1
  <2>. QED BY <1>1, <1>2, PushListens
<1>4. \A x \in Listening : Reset(Quiet(x)) \in Listening
  BY QuietListens
<1>. HIDE DEF te, pe
<1>5. SilenceAfterSpeech(s, now, prob) \in {s, s1, Reset(Quiet(Push(s1, te))), Reset(Quiet(s1))}
  BY DEF SilenceAfterSpeech, te, pe
<1>. HIDE DEF s1
<1>. QED BY <1>2, <1>3, <1>4, <1>5

LEMMA HeardListens ==
  ASSUME NEW s0 \in Listening, NEW i \in Int, NEW prob, NEW max
  PROVE  Heard(s0, i, prob, max) \in Listening
<1>. DEFINE now == VadWindow * (i - 1)
            s   == BackToSpeech(s0, now, prob)
            on  == [s EXCEPT !.speaking = TRUE, !.start = now, !.has = TRUE]
<1>1. now \in Int
  BY VadAssumption DEF VadAssumption
<1>. HIDE DEF now
<1>2. s \in Listening
  <2>. DEFINE zero == 0
              ns == IF s0.next_start < s0.prev_end THEN now ELSE s0.next_start
  <2>1. ns \in Int /\ zero \in Int
    BY <1>1 DEF Listening
  <2>2. s = s0 \/ s = [s0 EXCEPT !.temp_end = zero, !.next_start = ns]
    BY DEF BackToSpeech
  <2>. HIDE DEF ns, zero
  <2>3. [s0 EXCEPT !.temp_end = zero, !.next_start = ns] \in Listening
    BY <2>1 DEF Listening
  <2>. HIDE DEF s
  <2>. QED BY <2>2, <2>3
<1>. HIDE DEF s
<1>3. on \in Listening
  BY <1>1, <1>2 DEF Listening
<1>4. SilenceAfterSpeech(SplitAtSilence(s), now, prob) \in Listening
        /\ SilenceAfterSpeech(s, now, prob) \in Listening
  BY <1>1, <1>2, SplitListens, SilenceListens
<1>5. Reset(Quiet(Push(s, now))) \in Listening
  BY <1>1, <1>2, PushListens, QuietListens
<1>. HIDE DEF on
<1>. QED BY <1>3, <1>4, <1>5 DEF Heard, on, s, now

\* Segments one after the other, within lim.
Spaced(ss, lim) ==
  /\ \A i \in 1..Len(ss) : 0 <= ss[i].start /\ ss[i].start <= ss[i].end /\ ss[i].end <= lim
  /\ \A i \in 1..(Len(ss) - 1) : ss[i].end <= ss[i + 1].start

LEMMA SpacedAppend ==
  ASSUME NEW ss \in Seq(Spans), NEW lim \in Int, Spaced(ss, lim), NEW x \in Spans,
         0 <= x.start, x.start <= x.end, x.end <= lim,
         ss # <<>> => Last(ss).end <= x.start
  PROVE  Append(ss, x) \in Seq(Spans) /\ Spaced(Append(ss, x), lim) /\ Last(Append(ss, x)) = x
           /\ Append(ss, x) # <<>>
<1>. DEFINE a == Append(ss, x)
            n == Len(ss)
<1>1. /\ a \in Seq(Spans) /\ Len(a) = n + 1 /\ n \in Nat /\ a[n + 1] = x
      /\ \A i \in 1..n : a[i] = ss[i]
  OBVIOUS
<1>2. Last(a) = x
  BY <1>1 DEF Last
<1>3. n >= 1 => ss[n].end <= x.start
  BY DEF Last
<1>. HIDE DEF a, n
<1>4. Spaced(a, lim)
  <2>1. \A i \in 1..Len(a) : 0 <= a[i].start /\ a[i].start <= a[i].end /\ a[i].end <= lim
    <3>. SUFFICES ASSUME NEW i \in 1..Len(a)
                  PROVE  0 <= a[i].start /\ a[i].start <= a[i].end /\ a[i].end <= lim
      OBVIOUS
    <3>1. CASE i = n + 1
      BY <1>1, <3>1
    <3>2. CASE i # n + 1
      BY <1>1, <3>2 DEF Spaced, n
    <3>. QED BY <3>1, <3>2
  <2>2. ASSUME NEW i \in 1..(Len(a) - 1) PROVE a[i].end <= a[i + 1].start
    <3>1. CASE i = n
      BY <1>1, <1>3, <3>1
    <3>2. CASE i # n
      BY <1>1, <3>2 DEF Spaced, n
    <3>. QED BY <3>1, <3>2
  <2>. QED BY <2>1, <2>2 DEF Spaced
<1>5. a # <<>>
  BY <1>1
<1>. QED BY <1>1, <1>2, <1>4, <1>5 DEF a

LEMMA SpacedLater ==
  ASSUME NEW ss \in Seq(Spans), NEW a \in Int, NEW b \in Int, a <= b, Spaced(ss, a)
  PROVE  Spaced(ss, b)
<1>1. \A i \in 1..Len(ss) : ss[i] \in Spans
  OBVIOUS
<1>2. \A i \in 1..Len(ss) : ss[i].end \in Int
  BY <1>1 DEF Spans
<1>. QED BY <1>2 DEF Spaced

\* What Quiet, Reset and Push change.
LEMMA QuietFields ==
  ASSUME NEW s \in Listening
  PROVE  /\ Quiet(s).speeches = s.speeches /\ ~Quiet(s).speaking /\ ~Quiet(s).has
         /\ \A f \in {"start", "temp_end", "prev_end", "next_start"} : Quiet(s)[f] = s[f]
         /\ Reset(s).temp_end = 0 /\ Reset(s).prev_end = 0 /\ Reset(s).next_start = 0
         /\ \A f \in {"speeches", "start", "speaking", "has"} : Reset(s)[f] = s[f]
<1>1. /\ Quiet(s).speeches = s.speeches /\ ~Quiet(s).speaking /\ ~Quiet(s).has
      /\ \A f \in {"start", "temp_end", "prev_end", "next_start"} : Quiet(s)[f] = s[f]
  BY DEF Listening, Quiet
<1>. DEFINE zero == 0
            q == [s EXCEPT !.prev_end = zero, !.next_start = zero, !.temp_end = zero]
<1>2. Reset(s) = q
  BY DEF Reset
<1>. HIDE DEF zero
<1>3. /\ q.temp_end = zero /\ q.prev_end = zero /\ q.next_start = zero
      /\ \A f \in {"speeches", "start", "speaking", "has"} : q[f] = s[f]
  BY DEF Listening
<1>. HIDE DEF q
<1>. QED BY <1>1, <1>2, <1>3 DEF zero

LEMMA PushFields ==
  ASSUME NEW s \in Listening, NEW t \in Int
  PROVE  /\ Push(s, t).speeches = Append(s.speeches, Segment(s.start, t))
         /\ \A f \in {"start", "temp_end", "prev_end", "next_start", "speaking", "has"} :
              Push(s, t)[f] = s[f]
<1>. DEFINE x == Append(s.speeches, Segment(s.start, t))
<1>1. Push(s, t) = [s EXCEPT !.speeches = x]
  BY DEF Push
<1>. HIDE DEF x
<1>2. /\ [s EXCEPT !.speeches = x].speeches = x
      /\ \A f \in {"start", "temp_end", "prev_end", "next_start", "speaking", "has"} :
           [s EXCEPT !.speeches = x][f] = s[f]
  BY DEF Listening
<1>. QED BY <1>1, <1>2 DEF x

\* The segments heard by sample lim follow one another; a segment is open while
\* there is speech, and begins when the one before it has ended.
Hears(s, lim) ==
  /\ Spaced(s.speeches, lim)
  /\ s.temp_end \in 0..lim /\ s.prev_end \in 0..lim /\ s.next_start \in 0..lim
  /\ s.start \in 0..lim
  /\ s.has = s.speaking
  /\ s.speaking => /\ s.speeches # <<>> => Last(s.speeches).end <= s.start
                   /\ s.temp_end # 0 => s.start <= s.temp_end
                   /\ s.prev_end # 0 => s.start <= s.prev_end
  /\ ~s.speaking => s.temp_end = 0 /\ s.prev_end = 0

\* An open segment that is pushed, to a place in it.
LEMMA PushHears ==
  ASSUME NEW lim \in Nat, NEW s \in Listening, Hears(s, lim), s.speaking,
         NEW t \in s.start..lim
  PROVE  /\ Push(s, t).speeches \in Seq(Spans) /\ Spaced(Push(s, t).speeches, lim)
         /\ Last(Push(s, t).speeches).end = t /\ Push(s, t).speeches # <<>>
         /\ Push(s, t) \in Listening /\ Push(s, t).start = s.start
         /\ Push(s, t).speaking = s.speaking
<1>. DEFINE y == Segment(s.start, t)
<1>1. s.speeches \in Seq(Spans) /\ Spaced(s.speeches, lim) /\ s.start \in 0..lim /\ t \in Int
  BY DEF Hears, Listening
<1>2. y \in Spans /\ y.start = s.start /\ y.end = t
  BY <1>1 DEF Segment, Spans
<1>3. s.speeches # <<>> => Last(s.speeches).end <= y.start
  BY <1>2 DEF Hears
<1>4. Push(s, t).speeches = Append(s.speeches, y)
  BY <1>1, PushFields
<1>. HIDE DEF y
<1>5. /\ Append(s.speeches, y) \in Seq(Spans) /\ Spaced(Append(s.speeches, y), lim)
      /\ Last(Append(s.speeches, y)) = y /\ Append(s.speeches, y) # <<>>
  BY <1>1, <1>2, <1>3, SpacedAppend
<1>6. Push(s, t) \in Listening /\ Push(s, t).start = s.start /\ Push(s, t).speaking = s.speaking
  BY <1>1, PushListens, PushFields
<1>. QED BY <1>2, <1>4, <1>5, <1>6

\* Whatever was pushed last, without an open segment.
LEMMA QuietHears ==
  ASSUME NEW lim \in Nat, NEW s \in Listening, Spaced(s.speeches, lim), s.start \in 0..lim
  PROVE  Hears(Reset(Quiet(s)), lim)
<1>. DEFINE q == Quiet(s)
            r == Reset(q)
<1>1. /\ q \in Listening /\ q.speeches = s.speeches /\ q.start = s.start
      /\ ~q.speaking /\ ~q.has
  BY QuietListens, QuietFields
<1>. HIDE DEF q
<1>2. /\ r \in Listening /\ r.speeches = s.speeches /\ r.start = s.start
      /\ r.speaking = q.speaking /\ r.has = q.has
      /\ r.temp_end = 0 /\ r.prev_end = 0 /\ r.next_start = 0
  BY <1>1, QuietListens, QuietFields
<1>3. q.speaking \in BOOLEAN /\ q.has \in BOOLEAN
  BY <1>1 DEF Listening
<1>. HIDE DEF r
<1>4. Hears(r, lim)
  BY <1>1, <1>2, <1>3 DEF Hears
<1>. QED BY <1>4 DEF r, q

LEMMA BackHears ==
  ASSUME NEW lim \in Nat, NEW s \in Listening, Hears(s, lim), NEW prob
  PROVE  Hears(BackToSpeech(s, lim, prob), lim) /\ BackToSpeech(s, lim, prob) \in Listening
<1>. DEFINE zero == 0
            ns == IF s.next_start < s.prev_end THEN lim ELSE s.next_start
            q  == [s EXCEPT !.temp_end = zero, !.next_start = ns]
<1>1. ns \in 0..lim
  BY DEF Hears
<1>2. BackToSpeech(s, lim, prob) = s \/ (BackToSpeech(s, lim, prob) = q /\ s.temp_end # 0)
  BY DEF BackToSpeech
<1>. HIDE DEF ns, zero
<1>3. /\ q.temp_end = zero /\ q.next_start = ns
      /\ \A f \in {"speeches", "start", "prev_end", "speaking", "has"} : q[f] = s[f]
  BY DEF Listening
<1>4. q \in Listening
  <2>1. zero \in Int /\ ns \in Int
    BY <1>1 DEF zero
  <2>. QED BY <2>1 DEF Listening
<1>. HIDE DEF q
<1>5. s.temp_end # 0 => Hears(q, lim)
  BY <1>1, <1>3 DEF Hears, zero
<1>. QED BY <1>2, <1>4, <1>5

LEMMA SplitHears ==
  ASSUME NEW lim \in Nat, NEW s \in Listening, Hears(s, lim), s.speaking, s.prev_end # 0
  PROVE  Hears(SplitAtSilence(s), lim)
<1>. DEFINE p   == Push(s, s.prev_end)
            cut == [p EXCEPT !.has = TRUE]
            on  == [cut EXCEPT !.start = s.next_start]
<1>1. /\ s.prev_end \in s.start..lim /\ s.prev_end \in Int /\ s.next_start \in 0..lim
      /\ s.start \in 0..lim
  BY DEF Hears, Listening
<1>2. /\ p \in Listening /\ Spaced(p.speeches, lim) /\ Last(p.speeches).end = s.prev_end
      /\ p.speaking = s.speaking /\ p.start = s.start
  BY <1>1, PushHears
<1>. HIDE DEF p
<1>3. /\ cut \in Listening /\ cut.speeches = p.speeches /\ cut.start = s.start
      /\ cut.speaking = s.speaking /\ cut.has = TRUE
  BY <1>2 DEF Listening
<1>. HIDE DEF cut
<1>4. Hears(Reset(Quiet(cut)), lim)
  BY <1>1, <1>2, <1>3, QuietHears
<1>5. ASSUME ~(s.next_start < s.prev_end) PROVE Hears(Reset(on), lim)
  <2>1. /\ on \in Listening /\ on.speeches = p.speeches /\ on.start = s.next_start
        /\ on.speaking = s.speaking /\ on.has = TRUE
    BY <1>1, <1>3 DEF Listening
  <2>. DEFINE r == Reset(on)
  <2>. HIDE DEF on
  <2>2. /\ r.speeches = p.speeches /\ r.start = s.next_start /\ r.has = TRUE
        /\ r.speaking = s.speaking
        /\ r.temp_end = 0 /\ r.prev_end = 0 /\ r.next_start = 0
    BY <2>1, QuietFields
  <2>. HIDE DEF r
  <2>3. s.speaking = TRUE
    BY DEF Listening
  <2>4. Last(p.speeches).end <= r.start
    BY <1>1, <1>2, <1>5, <2>2
  <2>5. r.has = r.speaking /\ r.speaking
    BY <2>2, <2>3
  <2>6. Spaced(r.speeches, lim) /\ r.start \in 0..lim /\ 0 \in 0..lim
    BY <1>1, <1>2, <2>2
  <2>7. Last(r.speeches).end <= r.start
    BY <2>2, <2>4
  <2>8. Hears(r, lim)
    BY <2>2, <2>5, <2>6, <2>7 DEF Hears
  <2>. QED BY <2>8 DEF r
<1>. QED BY <1>4, <1>5 DEF SplitAtSilence, p, cut, on

LEMMA SilenceHears ==
  ASSUME NEW lim \in Nat, NEW s \in Listening, Hears(s, lim), NEW prob
  PROVE  Hears(SilenceAfterSpeech(s, lim, prob), lim)
<1>. SUFFICES ASSUME s.speaking PROVE Hears(SilenceAfterSpeech(s, lim, prob), lim)
  BY DEF SilenceAfterSpeech
<1>. DEFINE te == IF s.temp_end = 0 THEN lim ELSE s.temp_end
            pe == IF lim - te > SilenceAtMax THEN te ELSE s.prev_end
            s1 == [s EXCEPT !.temp_end = te, !.prev_end = pe]
            p  == Push(s1, te)
<1>1. /\ te \in s.start..lim /\ te \in Int /\ pe \in 0..lim /\ pe \in Int
      /\ pe # 0 => s.start <= pe
      /\ te \in 0..lim /\ s.start \in 0..lim
  BY DEF Hears, Listening
<1>. HIDE DEF te, pe
<1>2. /\ s1 \in Listening /\ s1.temp_end = te /\ s1.prev_end = pe
      /\ \A f \in {"speeches", "start", "next_start", "speaking", "has"} : s1[f] = s[f]
  BY <1>1 DEF Listening
<1>. HIDE DEF s1
<1>3. Hears(s1, lim)
  <2>1. /\ s1.speeches = s.speeches /\ s1.start = s.start /\ s1.next_start = s.next_start
        /\ s1.speaking = s.speaking /\ s1.has = s.has
    BY <1>2
  <2>2. s1.has = s1.speaking /\ s1.speaking
    BY <2>1 DEF Hears
  <2>3. s.next_start \in 0..lim /\ Spaced(s.speeches, lim)
          /\ (s.speeches # <<>> => Last(s.speeches).end <= s.start)
    BY DEF Hears
  <2>4. s1.temp_end # 0 => s1.start <= s1.temp_end
    BY <1>1, <1>2, <2>1
  <2>5. s1.prev_end # 0 => s1.start <= s1.prev_end
    BY <1>1, <1>2, <2>1
  <2>. QED BY <1>1, <1>2, <2>1, <2>2, <2>3, <2>4, <2>5 DEF Hears
<1>4. p \in Listening /\ Spaced(p.speeches, lim) /\ p.start = s.start
  BY <1>1, <1>2, <1>3, PushHears
<1>. HIDE DEF p
<1>5. Hears(Reset(Quiet(p)), lim)
  BY <1>1, <1>4, QuietHears
<1>6. Hears(Reset(Quiet(s1)), lim)
  <2>1. Spaced(s1.speeches, lim) /\ s1.start \in 0..lim
    BY <1>3 DEF Hears
  <2>. QED BY <1>2, <2>1, QuietHears
<1>7. SilenceAfterSpeech(s, lim, prob) \in {s, s1, Reset(Quiet(p)), Reset(Quiet(s1))}
  BY DEF SilenceAfterSpeech, te, pe, s1, p
<1>. QED BY <1>3, <1>5, <1>6, <1>7

\* So it goes on with every probability.
LEMMA HeardHears ==
  ASSUME NEW i \in Nat \ {0}, NEW s0 \in Listening, Hears(s0, VadWindow * (i - 1)),
         NEW prob, NEW max
  PROVE  Hears(Heard(s0, i, prob, max), VadWindow * i)
<1>. DEFINE now == VadWindow * (i - 1)
            s   == BackToSpeech(s0, now, prob)
            on  == [s EXCEPT !.speaking = TRUE, !.start = now, !.has = TRUE]
            h   == Heard(s0, i, prob, max)
<1>1. now \in Nat /\ now \in Int /\ VadWindow * i \in Int /\ now <= VadWindow * i
  BY VadAssumption DEF VadAssumption
<1>2. h \in Listening
  BY HeardListens
<1>. HIDE DEF now
<1>3. s \in Listening /\ Hears(s, now)
  BY <1>1, BackHears DEF now
<1>. HIDE DEF s
<1>4. ~s.speaking => Hears(on, now)
  <2>1. /\ on.speaking = TRUE /\ on.has = TRUE /\ on.start = now
        /\ \A f \in {"speeches", "temp_end", "prev_end", "next_start"} : on[f] = s[f]
    BY <1>3 DEF Listening
  <2>. HIDE DEF on
  <2>2. now \in 0..now
    BY <1>1
  <2>3. s.speeches # <<>> => Last(s.speeches).end <= now
    <3>1. s.speeches \in Seq(Spans) /\ Spaced(s.speeches, now)
      BY <1>3 DEF Hears, Listening
    <3>. QED BY <3>1 DEF Spaced, Last
  <2>. QED BY <1>3, <2>1, <2>2, <2>3 DEF Hears
<1>5. Hears(SilenceAfterSpeech(s, now, prob), now)
  BY <1>1, <1>3, SilenceHears
<1>6. s.speaking /\ s.prev_end # 0
        => Hears(SilenceAfterSpeech(SplitAtSilence(s), now, prob), now)
  BY <1>1, <1>3, SplitHears, SplitListens, SilenceHears
<1>7. s.speaking => Hears(Reset(Quiet(Push(s, now))), now)
  <2>. SUFFICES ASSUME s.speaking PROVE Hears(Reset(Quiet(Push(s, now))), now)
    OBVIOUS
  <2>1. now \in s.start..now /\ s.start \in 0..now
    BY <1>1, <1>3 DEF Hears
  <2>2. Push(s, now) \in Listening /\ Spaced(Push(s, now).speeches, now)
          /\ Push(s, now).start = s.start
    BY <1>1, <1>3, <2>1, PushHears
  <2>. QED BY <1>1, <2>1, <2>2, QuietHears
<1>8. Hears(h, now)
  <2>. HIDE DEF on
  <2>2. CASE prob = "speech" /\ ~s.speaking
    <3>1. h = on
      BY <2>2 DEF Heard, on, s, now
    <3>. QED BY <1>4, <2>2, <3>1
  <2>3. CASE ~(prob = "speech" /\ ~s.speaking) /\ s.speaking /\ now - s.start > max
    <3>1. h = IF s.prev_end # 0 THEN SilenceAfterSpeech(SplitAtSilence(s), now, prob)
              ELSE Reset(Quiet(Push(s, now)))
      BY <2>3 DEF Heard, s, now
    <3>. QED BY <1>6, <1>7, <2>3, <3>1
  <2>4. CASE ~(prob = "speech" /\ ~s.speaking) /\ ~(s.speaking /\ now - s.start > max)
    <3>1. h = SilenceAfterSpeech(s, now, prob)
      BY <2>4 DEF Heard, s, now
    <3>. QED BY <1>5, <3>1
  <2>. QED BY <2>2, <2>3, <2>4
<1>. HIDE DEF h
<1>9. Spaced(h.speeches, VadWindow * i)
  BY <1>1, <1>2, <1>8, SpacedLater DEF Hears, Listening
<1>10. Hears(h, VadWindow * i)
  <2>. DEFINE w == VadWindow * i
  <2>1. w \in Int /\ now <= w /\ Spaced(h.speeches, w)
    BY <1>1, <1>9
  <2>. HIDE DEF w
  <2>2. Hears(h, w)
    BY <1>1, <1>2, <1>8, <2>1 DEF Hears, Listening
  <2>. QED BY <2>2 DEF w
<1>. QED BY <1>10 DEF h

\* What is heard of the probabilities are segments.
LEMMA SpeechesAreSpans ==
  ASSUME NEW probs, Len(probs) \in Nat, NEW max
  PROVE  /\ Speeches(probs, max) \in Seq(Spans)
         /\ Spaced(Speeches(probs, max), Len(probs) * VadWindow)
<1>. DEFINE b == NoSpeech
            n == Len(probs)
            T == Listening
            step(x, k) == Heard(x, k, probs[k], max)
            body(f, k) == IF k = 0 THEN b ELSE Heard(f[k - 1], k, probs[k], max)
            after == CHOOSE f : f = [k \in 0..n |-> body(f, k)]
            F == [k \in 1..n |-> [x \in T |-> step(x, k)]]
            all == after[n]
            end == n * VadWindow
<1>1. Speeches(probs, max) = IF all.has /\ end - all.start > MinSpeech
                             THEN Push(all, end).speeches ELSE all.speeches
  BY DEF Speeches
<1>2. b \in T
  <2>1. <<>> \in Seq(Spans)
    OBVIOUS
  <2>. QED BY <2>1 DEF NoSpeech, Listening
<1>3. \A k \in 1..n : \A x \in T : step(x, k) \in T
  BY HeardListens
<1>4. end \in Int
  BY VadAssumption DEF VadAssumption
<1>5. \A f, k : body(f, k) = IF k = 0 THEN b ELSE step(f[k - 1], k)
  OBVIOUS
<1>. HIDE DEF T, step, b, body, end
<1>6. \A k \in 1..n : \A x \in T : F[k][x] = step(x, k)
  OBVIOUS
<1>. HIDE DEF F
<1>7. n \in Nat /\ StepsWithin(F, n, T)
  BY <1>3, <1>6 DEF StepsWithin
<1>. HIDE DEF n
<1>8. PICK g \in [0..n -> T] : Leads(g, n, b, F)
  BY <1>2, <1>7, Recursion
<1>9. g = [k \in 0..n |-> body(g, k)]
  <2>. SUFFICES ASSUME NEW k \in 0..n, k # 0 PROVE g[k] = step(g[k - 1], k)
    BY <1>5, <1>7, <1>8 DEF Leads
  <2>1. k \in 1..n /\ g[k - 1] \in T /\ g[k] = F[k][g[k - 1]]
    BY <1>7, <1>8 DEF Leads
  <2>. QED BY <1>6, <2>1
<1>10. after = [k \in 0..n |-> body(after, k)]
  BY <1>9
<1>. HIDE DEF after
<1>11. after[0] = b /\ \A k \in 1..n : after[k] = step(after[k - 1], k)
  <2>1. \A k \in 0..n : after[k] = body(after, k)
    BY <1>10
  <2>. QED BY <1>5, <1>7, <2>1
<1>12. \A k \in 0..n : after[k] \in T
  <2>. DEFINE P == {k \in 0..n : after[k] \in T}
  <2>1. n \in Nat /\ 0 \in P /\ \A k \in 1..n : k - 1 \in P => k \in P
    BY <1>2, <1>3, <1>7, <1>11
  <2>. HIDE DEF P
  <2>2. \A k \in 0..n : k \in P
    BY <2>1, Climbs, Zenon
  <2>. QED BY <2>2 DEF P
<1>13. \A k \in 0..n : Hears(after[k], VadWindow * k)
  <2>. DEFINE P == {k \in 0..n : Hears(after[k], VadWindow * k)}
  <2>1. 0 \in P
    <3>. DEFINE zero == 0
    <3>1. /\ zero \in 0..zero /\ b.speeches = <<>> /\ b.has = FALSE /\ b.speaking = FALSE
          /\ b.temp_end = 0 /\ b.prev_end = 0 /\ b.next_start = 0 /\ b.start = 0
      BY DEF b, NoSpeech
    <3>2. Spaced(b.speeches, 0)
      BY <3>1 DEF Spaced
    <3>3. Hears(b, 0)
      BY <3>1, <3>2 DEF Hears
    <3>4. VadWindow * 0 = 0
      BY VadAssumption DEF VadAssumption
    <3>. QED BY <1>7, <1>11, <3>3, <3>4
  <2>2. ASSUME NEW k \in 1..n, k - 1 \in P PROVE k \in P
    <3>1. /\ k \in Nat \ {0} /\ after[k - 1] \in Listening
          /\ Hears(after[k - 1], VadWindow * (k - 1))
      <4>1. k - 1 \in 0..n /\ k \in Nat \ {0}
        BY <1>7
      <4>2. after[k - 1] \in T
        BY <1>12, <4>1
      <4>3. Hears(after[k - 1], VadWindow * (k - 1))
        BY <2>2
      <4>. QED BY <4>1, <4>2, <4>3 DEF T
    <3>2. Hears(Heard(after[k - 1], k, probs[k], max), VadWindow * k)
      BY <3>1, HeardHears
    <3>3. after[k] = Heard(after[k - 1], k, probs[k], max)
      BY <1>11 DEF step
    <3>. QED BY <3>2, <3>3
  <2>. HIDE DEF P
  <2>3. \A k \in 0..n : k \in P
    BY <1>7, <2>1, <2>2, Climbs, Zenon
  <2>. QED BY <2>3 DEF P
<1>14. all \in Listening /\ Hears(all, end)
  <2>1. n \in 0..n /\ VadWindow * n = n * VadWindow
    BY <1>7, VadAssumption DEF VadAssumption
  <2>2. Hears(after[n], n * VadWindow) /\ after[n] \in T
    BY <1>12, <1>13, <2>1
  <2>. QED BY <2>2 DEF T, end, n
<1>. HIDE DEF all
<1>15. all.has => all.speaking /\ end \in all.start..end
  BY <1>4, <1>14 DEF Hears, Listening
<1>16. end \in Nat
  BY <1>7, VadAssumption DEF end, n, VadAssumption
<1>17. all.has => Push(all, end).speeches \in Seq(Spans) /\ Spaced(Push(all, end).speeches, end)
  BY <1>14, <1>15, <1>16, PushHears
<1>18. all.speeches \in Seq(Spans) /\ Spaced(all.speeches, end)
  BY <1>14 DEF Listening, Hears
<1>19. Speeches(probs, max) \in Seq(Spans) /\ Spaced(Speeches(probs, max), end)
  BY <1>1, <1>17, <1>18
<1>. QED BY <1>19 DEF end, n

LEMMA MergedAreSpans ==
  ASSUME NEW ss \in Seq(Spans), NEW lim \in Int, Spaced(ss, lim)
  PROVE  Merged(ss) \in Seq(Spans) /\ Spaced(Merged(ss), lim)
<1>. DEFINE b == << >>
            n == Len(ss)
            T == Seq(Spans)
            step(done, k) ==
              IF done # <<>> /\ ss[k].start - Last(done).end < MergeGap
              THEN [done EXCEPT ![Len(done)].end = ss[k].end] ELSE Append(done, ss[k])
            body(f, k) == IF k = 0 THEN b ELSE step(f[k - 1], k)
            after == CHOOSE f : f = [k \in 0..n |-> body(f, k)]
            F == [k \in 1..n |-> [x \in T |-> step(x, k)]]
<1>1. Merged(ss) = after[n] /\ n \in Nat /\ b \in T
  BY DEF Merged
<1>2. \A k \in 1..n : \A x \in T : step(x, k) \in T
  <2>. SUFFICES ASSUME NEW k \in 1..n, NEW x \in T PROVE step(x, k) \in T
    OBVIOUS
  <2>1. ss[k] \in Spans /\ ss[k].end \in Int
    <3>1. ss[k] \in Spans
      OBVIOUS
    <3>. QED BY <3>1 DEF Spans
  <2>2. Append(x, ss[k]) \in T
    BY <2>1
  <2>3. ASSUME x # <<>>
        PROVE  [x EXCEPT ![Len(x)].end = ss[k].end] \in T
    <3>1. Len(x) \in DOMAIN x /\ x[Len(x)] \in Spans
      BY <2>3
    <3>. DEFINE e == ss[k].end
                y == [x[Len(x)] EXCEPT !.end = e]
    <3>2. e \in Int
      BY <2>1
    <3>. HIDE DEF e
    <3>3. y \in Spans
      BY <3>1, <3>2 DEF Spans
    <3>. HIDE DEF y
    <3>4. [x EXCEPT ![Len(x)] = y] \in T
      BY <3>1, <3>3
    <3>. QED BY <3>4 DEF y, e
  <2>. QED BY <2>2, <2>3
<1>3. \A f, k : body(f, k) = IF k = 0 THEN b ELSE step(f[k - 1], k)
  OBVIOUS
<1>. HIDE DEF T, step, b, body, n
<1>4. \A k \in 1..n : \A x \in T : F[k][x] = step(x, k)
  OBVIOUS
<1>. HIDE DEF F
<1>5. n \in Nat /\ StepsWithin(F, n, T)
  BY <1>1, <1>2, <1>4 DEF StepsWithin
<1>6. PICK g \in [0..n -> T] : Leads(g, n, b, F)
  BY <1>1, <1>5, Recursion
<1>7. g = [k \in 0..n |-> body(g, k)]
  <2>. SUFFICES ASSUME NEW k \in 0..n, k # 0 PROVE g[k] = step(g[k - 1], k)
    BY <1>3, <1>5, <1>6 DEF Leads
  <2>1. k \in 1..n /\ g[k - 1] \in T /\ g[k] = F[k][g[k - 1]]
    BY <1>5, <1>6 DEF Leads
  <2>. QED BY <1>4, <2>1
<1>8. after = [k \in 0..n |-> body(after, k)]
  BY <1>7
<1>. HIDE DEF after
<1>9. after[0] = b /\ \A k \in 1..n : after[k] = step(after[k - 1], k)
  <2>1. \A k \in 0..n : after[k] = body(after, k)
    BY <1>8
  <2>. QED BY <1>3, <1>5, <2>1
<1>10. \A k \in 0..n : after[k] \in T
  <2>. DEFINE P == {k \in 0..n : after[k] \in T}
  <2>1. n \in Nat /\ 0 \in P /\ \A k \in 1..n : k - 1 \in P => k \in P
    BY <1>1, <1>2, <1>5, <1>9
  <2>. HIDE DEF P
  <2>2. \A k \in 0..n : k \in P
    BY <2>1, Climbs, Zenon
  <2>. QED BY <2>2 DEF P
<1>11. \A k \in 1..n : /\ ss[k] \in Spans /\ ss[k].start \in Int /\ ss[k].end \in Int
                       /\ 0 <= ss[k].start /\ ss[k].start <= ss[k].end /\ ss[k].end <= lim
                       /\ k > 1 => ss[k - 1].end <= ss[k].start
  <2>. SUFFICES ASSUME NEW k \in 1..Len(ss)
                PROVE  /\ ss[k] \in Spans /\ ss[k].start \in Int /\ ss[k].end \in Int
                       /\ 0 <= ss[k].start /\ ss[k].start <= ss[k].end /\ ss[k].end <= lim
                       /\ k > 1 => ss[k - 1].end <= ss[k].start
    BY DEF n
  <2>1. ss[k] \in Spans
    OBVIOUS
  <2>2. k > 1 => k - 1 \in 1..(Len(ss) - 1) /\ (k - 1) + 1 = k
    OBVIOUS
  <2>. QED BY <2>1, <2>2 DEF Spans, Spaced
<1>. DEFINE Good(done, k) ==
              /\ Spaced(done, lim)
              /\ done # <<>> => k > 0 /\ Last(done).end = ss[k].end
<1>12. ASSUME NEW k \in 1..n, NEW x \in T, Good(x, k - 1)
       PROVE  Good(step(x, k), k)
  <2>. DEFINE e == ss[k].end
              s == ss[k]
  <2>1. /\ s \in Spans /\ s.start \in Int /\ e \in Int /\ s.end = e /\ e <= lim
        /\ 0 <= s.start /\ s.start <= s.end
        /\ x # <<>> => Last(x).end <= s.start
    <3>1. x # <<>> => k > 1 /\ Last(x).end = ss[k - 1].end
      <4>1. k \in Int /\ (x # <<>> => k - 1 > 0 /\ Last(x).end = ss[k - 1].end)
        BY <1>5, <1>12
      <4>. QED BY <4>1
    <3>2. /\ ss[k] \in Spans /\ ss[k].start \in Int /\ ss[k].end \in Int
          /\ 0 <= ss[k].start /\ ss[k].start <= ss[k].end /\ ss[k].end <= lim
          /\ k > 1 => ss[k - 1].end <= ss[k].start
      BY <1>11, Zenon
    <3>3. x # <<>> => Last(x).end <= ss[k].start
      BY <3>1, <3>2
    <3>. QED BY <3>2, <3>3
  <2>2. step(x, k) = IF x # <<>> /\ s.start - Last(x).end < MergeGap
                     THEN [x EXCEPT ![Len(x)].end = e] ELSE Append(x, s)
    BY DEF step
  <2>3. x \in Seq(Spans) /\ Spaced(x, lim)
    BY <1>12 DEF T
  <2>. HIDE DEF e, s
  <2>4. Spaced(Append(x, s), lim) /\ Last(Append(x, s)) = s
    BY <2>1, <2>3, SpacedAppend
  <2>5. ASSUME x # <<>>
        PROVE  /\ Spaced([x EXCEPT ![Len(x)].end = e], lim)
               /\ Last([x EXCEPT ![Len(x)].end = e]).end = e
    <3>. DEFINE m == Len(x)
                y == [x[m] EXCEPT !.end = e]
                z == [x EXCEPT ![m] = y]
    <3>1. m \in 1..m /\ x[m] \in Spans /\ Last(x) = x[m]
      BY <2>3, <2>5 DEF Last
    <3>2. y \in Spans /\ y.start = x[m].start /\ y.end = e
      BY <2>1, <3>1 DEF Spans
    <3>. HIDE DEF y
    <3>3. /\ z \in Seq(Spans) /\ Len(z) = m /\ z[m] = y
          /\ \A i \in 1..m : i # m => z[i] = x[i]
      BY <2>3, <3>1, <3>2
    <3>. HIDE DEF z, m
    <3>4. 0 <= x[m].start /\ x[m].start <= x[m].end /\ x[m].end <= e
            /\ x[m].start \in Int /\ x[m].end \in Int
      BY <2>1, <2>3, <2>5, <3>1 DEF Spaced, Spans, m
    <3>5. \A i \in 1..m : 0 <= z[i].start /\ z[i].start <= z[i].end /\ z[i].end <= lim
      <4>. SUFFICES ASSUME NEW i \in 1..m
                    PROVE  0 <= z[i].start /\ z[i].start <= z[i].end /\ z[i].end <= lim
        OBVIOUS
      <4>1. CASE i = m
        BY <2>1, <3>2, <3>3, <3>4, <4>1
      <4>2. CASE i # m
        BY <2>3, <3>3, <4>2 DEF Spaced, m
      <4>. QED BY <4>1, <4>2
    <3>6. ASSUME NEW i \in 1..(m - 1) PROVE z[i].end <= z[i + 1].start
      <4>1. z[i] = x[i] /\ x[i].end <= x[i + 1].start /\ i + 1 \in 1..m
        BY <2>3, <3>1, <3>3 DEF Spaced, m
      <4>2. z[i + 1].start = x[i + 1].start
        BY <3>2, <3>3, <4>1
      <4>. QED BY <4>1, <4>2
    <3>7. Spaced(z, lim)
      BY <3>3, <3>5, <3>6 DEF Spaced
    <3>8. Last(z).end = e
      BY <3>2, <3>3 DEF Last
    <3>. QED BY <3>7, <3>8 DEF z, y, m
  <2>6. Spaced(step(x, k), lim) /\ Last(step(x, k)).end = e
    BY <2>1, <2>2, <2>4, <2>5
  <2>. QED BY <1>5, <2>6 DEF e
<1>13. \A k \in 0..n : Good(after[k], k)
  <2>. DEFINE P == {k \in 0..n : Good(after[k], k)}
  <2>1. 0 \in P
    <3>1. b = <<>> /\ Spaced(b, lim)
      BY DEF Spaced, b
    <3>. QED BY <1>5, <1>9, <3>1
  <2>2. ASSUME NEW k \in 1..n, k - 1 \in P PROVE k \in P
    <3>1. k - 1 \in 0..n /\ after[k - 1] \in T /\ Good(after[k - 1], k - 1)
      BY <1>5, <1>10, <2>2
    <3>. HIDE DEF Good
    <3>2. Good(step(after[k - 1], k), k)
      BY <1>12, <3>1
    <3>. QED BY <1>9, <3>2
  <2>. HIDE DEF P
  <2>3. \A k \in 0..n : k \in P
    BY <1>5, <2>1, <2>2, Climbs, Zenon
  <2>. QED BY <2>3 DEF P
<1>14. n \in 0..n
  BY <1>5
<1>. QED BY <1>1, <1>10, <1>13, <1>14 DEF T

LEMMA LongOnesAreSpans ==
  ASSUME NEW ss \in Seq(Spans), NEW lim \in Int, Spaced(ss, lim)
  PROVE  /\ LongOnes(ss) \in Seq(Spans) /\ Spaced(LongOnes(ss), lim)
         /\ \A i \in 1..Len(LongOnes(ss)) : LongEnough(LongOnes(ss)[i])
<1>. DEFINE b == << >>
            n == Len(ss)
            T == Seq(Spans)
            step(done, k) == IF LongEnough(ss[k]) THEN Append(done, ss[k]) ELSE done
            body(f, k) == IF k = 0 THEN b ELSE step(f[k - 1], k)
            after == CHOOSE f : f = [k \in 0..n |-> body(f, k)]
            F == [k \in 1..n |-> [x \in T |-> step(x, k)]]
<1>1. LongOnes(ss) = after[n] /\ n \in Nat /\ b \in T
  BY DEF LongOnes
<1>2. \A k \in 1..n : \A x \in T : step(x, k) \in T
  OBVIOUS
<1>3. \A f, k : body(f, k) = IF k = 0 THEN b ELSE step(f[k - 1], k)
  OBVIOUS
<1>. HIDE DEF T, step, b, body, n
<1>4. \A k \in 1..n : \A x \in T : F[k][x] = step(x, k)
  OBVIOUS
<1>. HIDE DEF F
<1>5. n \in Nat /\ StepsWithin(F, n, T)
  BY <1>1, <1>2, <1>4 DEF StepsWithin
<1>6. PICK g \in [0..n -> T] : Leads(g, n, b, F)
  BY <1>1, <1>5, Recursion
<1>7. g = [k \in 0..n |-> body(g, k)]
  <2>. SUFFICES ASSUME NEW k \in 0..n, k # 0 PROVE g[k] = step(g[k - 1], k)
    BY <1>3, <1>5, <1>6 DEF Leads
  <2>1. k \in 1..n /\ g[k - 1] \in T /\ g[k] = F[k][g[k - 1]]
    BY <1>5, <1>6 DEF Leads
  <2>. QED BY <1>4, <2>1
<1>8. after = [k \in 0..n |-> body(after, k)]
  BY <1>7
<1>. HIDE DEF after
<1>9. after[0] = b /\ \A k \in 1..n : after[k] = step(after[k - 1], k)
  <2>1. \A k \in 0..n : after[k] = body(after, k)
    BY <1>8
  <2>. QED BY <1>3, <1>5, <2>1
<1>10. \A k \in 0..n : after[k] \in T
  <2>. DEFINE P == {k \in 0..n : after[k] \in T}
  <2>1. n \in Nat /\ 0 \in P /\ \A k \in 1..n : k - 1 \in P => k \in P
    BY <1>1, <1>2, <1>5, <1>9
  <2>. HIDE DEF P
  <2>2. \A k \in 0..n : k \in P
    BY <2>1, Climbs, Zenon
  <2>. QED BY <2>2 DEF P
<1>11. \A k \in 1..n : /\ ss[k] \in Spans /\ ss[k].start \in Int /\ ss[k].end \in Int
                       /\ 0 <= ss[k].start /\ ss[k].start <= ss[k].end /\ ss[k].end <= lim
                       /\ k > 1 => ss[k - 1].end <= ss[k].start
  <2>. SUFFICES ASSUME NEW k \in 1..Len(ss)
                PROVE  /\ ss[k] \in Spans /\ ss[k].start \in Int /\ ss[k].end \in Int
                       /\ 0 <= ss[k].start /\ ss[k].start <= ss[k].end /\ ss[k].end <= lim
                       /\ k > 1 => ss[k - 1].end <= ss[k].start
    BY DEF n
  <2>1. ss[k] \in Spans
    OBVIOUS
  <2>2. k > 1 => k - 1 \in 1..(Len(ss) - 1) /\ (k - 1) + 1 = k
    OBVIOUS
  <2>. QED BY <2>1, <2>2 DEF Spans, Spaced
<1>. DEFINE Good(done, k) ==
              /\ Spaced(done, lim) /\ \A i \in 1..Len(done) : LongEnough(done[i])
              /\ done # <<>> => k > 0 /\ Last(done).end <= ss[k].end
<1>12. ASSUME NEW k \in 1..n, NEW x \in T, Good(x, k - 1)
       PROVE  Good(step(x, k), k)
  <2>1. /\ ss[k] \in Spans /\ ss[k].end \in Int /\ ss[k].start \in Int
        /\ x # <<>> => Last(x).end \in Int /\ Last(x).end <= ss[k].start
    <3>1. x # <<>> => k > 1 /\ Last(x).end <= ss[k - 1].end
      <4>1. k \in Int /\ (x # <<>> => k - 1 > 0 /\ Last(x).end <= ss[k - 1].end)
        BY <1>5, <1>12
      <4>. QED BY <4>1
    <3>2. x # <<>> => Last(x) \in Spans /\ Last(x).end \in Int
      <4>1. x # <<>> => Last(x) \in Spans
        BY <1>12 DEF T, Last
      <4>. QED BY <4>1 DEF Spans
    <3>3. k > 1 => k - 1 \in 1..n
      BY <1>5
    <3>4. k > 1 => ss[k - 1].end \in Int
      BY <1>5, <1>11, <3>3
    <3>5. /\ ss[k] \in Spans /\ ss[k].start \in Int /\ ss[k].end \in Int
          /\ k > 1 => ss[k - 1].end <= ss[k].start
      BY <1>11, Zenon
    <3>6. x # <<>> => Last(x).end <= ss[k].start
      BY <3>1, <3>2, <3>4, <3>5
    <3>. QED BY <3>2, <3>5, <3>6
  <2>2. step(x, k) = IF LongEnough(ss[k]) THEN Append(x, ss[k]) ELSE x
    BY DEF step
  <2>3. x \in Seq(Spans) /\ Spaced(x, lim)
    BY <1>12 DEF T
  <2>4. Spaced(Append(x, ss[k]), lim) /\ Last(Append(x, ss[k])) = ss[k]
    <3>. DEFINE s == ss[k]
    <3>1. /\ s \in Spans /\ 0 <= s.start /\ s.start <= s.end /\ s.end <= lim
          /\ x # <<>> => Last(x).end <= s.start
      <4>1. ss[k] \in Spans /\ 0 <= ss[k].start /\ ss[k].start <= ss[k].end /\ ss[k].end <= lim
        BY <1>11, Zenon
      <4>. QED BY <2>1, <4>1
    <3>. HIDE DEF s
    <3>2. Spaced(Append(x, s), lim) /\ Last(Append(x, s)) = s
      BY <2>3, <3>1, SpacedAppend
    <3>. QED BY <3>2 DEF s
  <2>5. LongEnough(ss[k]) => \A i \in 1..Len(Append(x, ss[k])) : LongEnough(Append(x, ss[k])[i])
    BY <1>12, <2>3
  <2>6. CASE LongEnough(ss[k])
    BY <1>5, <2>1, <2>2, <2>4, <2>5, <2>6
  <2>7. CASE ~LongEnough(ss[k])
    <3>1. x # <<>> => k > 0 /\ Last(x).end <= ss[k].end
      <4>1. ss[k].start <= ss[k].end
        BY <1>11, Zenon
      <4>2. k > 0
        BY <1>5
      <4>. QED BY <2>1, <4>1, <4>2
    <3>. QED BY <1>12, <2>2, <2>7, <3>1
  <2>. QED BY <2>6, <2>7
<1>13. \A k \in 0..n : Good(after[k], k)
  <2>. DEFINE P == {k \in 0..n : Good(after[k], k)}
  <2>1. 0 \in P
    <3>1. b = <<>> /\ Spaced(b, lim)
      BY DEF Spaced, b
    <3>. QED BY <1>5, <1>9, <3>1
  <2>2. ASSUME NEW k \in 1..n, k - 1 \in P PROVE k \in P
    <3>1. k - 1 \in 0..n /\ after[k - 1] \in T /\ Good(after[k - 1], k - 1)
      BY <1>5, <1>10, <2>2
    <3>. HIDE DEF Good
    <3>2. Good(step(after[k - 1], k), k)
      BY <1>12, <3>1
    <3>. QED BY <1>9, <3>2
  <2>. HIDE DEF P
  <2>3. \A k \in 0..n : k \in P
    BY <1>5, <2>1, <2>2, Climbs, Zenon
  <2>. QED BY <2>3 DEF P
<1>14. n \in 0..n
  BY <1>5
<1>. QED BY <1>1, <1>10, <1>13, <1>14 DEF T

\* A division by a positive number keeps the order.
LEMMA DivisionKeepsOrder ==
  ASSUME NEW a \in Int, NEW b \in Int, a <= b, NEW d \in Nat \ {0}
  PROVE  a \div d <= b \div d
<1>. DEFINE p == a \div d
            q == b \div d
<1>1. /\ p \in Int /\ q \in Int /\ d * p <= a /\ a < d * p + d /\ d * q <= b /\ b < d * q + d
  OBVIOUS
<1>. HIDE DEF p, q
<1>2. ASSUME q < p PROVE FALSE
  <2>1. q + 1 <= p
    BY <1>1, <1>2
  <2>2. d * (q + 1) <= d * p
    BY <1>1, <2>1
  <2>3. d * (q + 1) = d * q + d
    BY <1>1
  <2>4. d * q \in Int /\ d * p \in Int
    BY <1>1
  <2>. QED BY <1>1, <2>2, <2>3, <2>4
<1>. QED BY <1>1, <1>2 DEF p, q

LEMMA TimesKeepOrder ==
  ASSUME NEW a \in Int, NEW b \in Int, a <= b
  PROVE  /\ SamplesToCs(a) <= SamplesToCs(b) /\ CsToSamples(a) <= CsToSamples(b)
         /\ 0 <= a => 0 <= SamplesToCs(a) /\ 0 <= CsToSamples(a)
<1>1. SamplesPerCs \in Nat \ {0}
  BY VadAssumption DEF VadAssumption
<1>. DEFINE x == 2 * a + SamplesPerCs
            y == 2 * b + SamplesPerCs
            d == 2 * SamplesPerCs
<1>2. x \in Int /\ y \in Int /\ x <= y /\ d \in Nat \ {0} /\ (0 <= a => x \in Nat)
  BY <1>1
<1>. HIDE DEF x, y, d
<1>3. x \div d <= y \div d
  BY <1>2, DivisionKeepsOrder
<1>4. 0 <= a => 0 <= x \div d
  BY <1>2
<1>5. CsToSamples(a) <= CsToSamples(b) /\ (0 <= a => 0 <= CsToSamples(a))
  BY <1>1 DEF CsToSamples
<1>. QED BY <1>3, <1>4, <1>5 DEF SamplesToCs, x, y, d

\* Whole centiseconds are not lost in the rounding.
LEMMA LaterByCs ==
  ASSUME NEW x \in Int, NEW t \in Int
  PROVE  /\ SamplesToCs(x + t * SamplesPerCs) = SamplesToCs(x) + t
         /\ SamplesToCs(CsToSamples(t)) = t
<1>1. SamplesPerCs \in Nat \ {0}
  BY VadAssumption DEF VadAssumption
<1>. DEFINE d == 2 * SamplesPerCs
<1>2. d \in Nat \ {0}
  BY <1>1
<1>3. ASSUME NEW a \in Int
      PROVE  (a + d * t) \div d = a \div d + t
  <2>. DEFINE p == a \div d
              y == a + d * t
              q == y \div d
  <2>1. p \in Int /\ d * p <= a /\ a < d * p + d
    BY <1>2
  <2>2. d * t \in Int /\ d * p \in Int
    BY <1>2, <2>1
  <2>3. y \in Int /\ y = a + d * t
    BY <2>2
  <2>. HIDE DEF y
  <2>4. q \in Int /\ d * q <= y /\ y < d * q + d
    BY <1>2, <2>3
  <2>. HIDE DEF p, q, d
  <2>5. d * (p + t) = d * p + d * t /\ d * (p + t) \in Int /\ d * q \in Int
    BY <1>2, <2>1, <2>4
  <2>6. ASSUME q < p + t PROVE FALSE
    <3>1. d * (q + 1) <= d * (p + t) /\ d * (q + 1) = d * q + d
      BY <1>2, <2>1, <2>4, <2>6
    <3>. QED BY <1>2, <2>1, <2>2, <2>3, <2>4, <2>5, <3>1
  <2>7. ASSUME p + t < q PROVE FALSE
    <3>1. d * (p + t + 1) <= d * q /\ d * (p + t + 1) = d * (p + t) + d
      BY <1>2, <2>1, <2>4, <2>7
    <3>. QED BY <1>2, <2>1, <2>2, <2>3, <2>4, <2>5, <3>1
  <2>8. q = p + t
    BY <2>1, <2>4, <2>6, <2>7
  <2>. QED BY <2>8 DEF p, q, y
<1>4. /\ 2 * (x + t * SamplesPerCs) + SamplesPerCs = (2 * x + SamplesPerCs) + d * t
      /\ 2 * x + SamplesPerCs \in Int
  BY <1>1
<1>5. SamplesToCs(x + t * SamplesPerCs) = SamplesToCs(x) + t
  BY <1>3, <1>4 DEF SamplesToCs
<1>6. 2 * (t * SamplesPerCs) + SamplesPerCs = SamplesPerCs + d * t /\ SamplesPerCs \div d = 0
  <2>1. SamplesPerCs < d
    BY <1>1
  <2>2. SamplesPerCs \div d = 0
    <3>. DEFINE q == SamplesPerCs \div d
    <3>1. q \in Int /\ d * q <= SamplesPerCs /\ SamplesPerCs < d * q + d
      BY <1>1, <1>2
    <3>. HIDE DEF q, d
    <3>2. q >= 1 => d * q >= d
      BY <1>2, <3>1
    <3>3. q <= -1 => d * q <= -d
      BY <1>2, <3>1
    <3>4. q = 0
      BY <1>1, <1>2, <2>1, <3>1, <3>2, <3>3
    <3>. QED BY <3>4 DEF q
  <2>. QED BY <1>1, <2>2
<1>7. SamplesToCs(CsToSamples(t)) = t
  BY <1>1, <1>3, <1>6 DEF SamplesToCs, CsToSamples
<1>. QED BY <1>5, <1>7

LEMMA PaddedAreSpans ==
  ASSUME NEW ss \in Seq(Spans), NEW end \in Int, Spaced(ss, end)
  PROVE  /\ Padded(ss, end) \in Seq(Spans) /\ Spaced(Padded(ss, end), SamplesToCs(end))
         /\ \A i \in 1..Len(Padded(ss, end)) :
              /\ i \in 1..Len(ss) /\ Padded(ss, end)[i].start <= SamplesToCs(ss[i].start)
              /\ SamplesToCs(ss[i].end) <= Padded(ss, end)[i].end
<1>. DEFINE gap(i)  == ss[i + 1].start - ss[i].end
            pad(i)  == IF gap(i) < 2 * SpeechPad THEN gap(i) \div 2 ELSE SpeechPad
            from(i) == AtLeast(0, ss[i].start - (IF i = 1 THEN SpeechPad ELSE pad(i - 1)))
            to(i)   == IF i < Len(ss) THEN AtMost(ss[i].end + pad(i), end)
                       ELSE AtMost(ss[i].end + SpeechPad, end)
<1>1. SpeechPad \in Int
  BY VadAssumption DEF VadAssumption
<1>2. \A i \in 1..Len(ss) : ss[i].start \in Int /\ ss[i].end \in Int
  <2>1. \A i \in 1..Len(ss) : ss[i] \in Spans
    OBVIOUS
  <2>2. \A s \in Spans : s.start \in Int /\ s.end \in Int
    BY DEF Spans
  <2>. QED BY <2>1, <2>2
<1>3. \A i \in 1..(Len(ss) - 1) : pad(i) \in Int
  <2>. SUFFICES ASSUME NEW i \in 1..(Len(ss) - 1) PROVE pad(i) \in Int
    OBVIOUS
  <2>1. gap(i) \in Int
    BY <1>2
  <2>. HIDE DEF gap
  <2>. QED BY <1>1, <2>1
<1>4. \A i \in 1..Len(ss) : /\ 0 <= ss[i].start /\ ss[i].start <= ss[i].end
                            /\ ss[i].end <= end
  BY DEF Spaced
<1>5. \A i \in 1..(Len(ss) - 1) :
         0 <= pad(i) /\ ss[i].end + pad(i) <= ss[i + 1].start - pad(i)
  <2>. SUFFICES ASSUME NEW i \in 1..(Len(ss) - 1)
                PROVE  0 <= pad(i) /\ ss[i].end + pad(i) <= ss[i + 1].start - pad(i)
    OBVIOUS
  <2>1. ss[i].end \in Int /\ ss[i + 1].start \in Int /\ SpeechPad \in Nat
    BY <1>2, VadAssumption DEF VadAssumption
  <2>4. ss[i].end <= ss[i + 1].start
    BY DEF Spaced
  <2>5. gap(i) \in Nat /\ gap(i) = ss[i + 1].start - ss[i].end
    BY <2>1, <2>4
  <2>. HIDE DEF gap
  <2>6. \A g, s \in Nat : LET x == IF g < 2 * s THEN g \div 2 ELSE s
                            IN  x \in Nat /\ 2 * x <= g
    OBVIOUS
  <2>2. pad(i) \in Nat /\ 2 * pad(i) <= gap(i)
    BY <2>1, <2>5, <2>6
  <2>. HIDE DEF pad
  <2>. QED BY <2>1, <2>2, <2>5
<1>. HIDE DEF pad
<1>6. \A i \in 1..Len(ss) : from(i) \in Int /\ to(i) \in Int
  <2>. SUFFICES ASSUME NEW i \in 1..Len(ss) PROVE from(i) \in Int /\ to(i) \in Int
    OBVIOUS
  <2>1. ss[i].start - (IF i = 1 THEN SpeechPad ELSE pad(i - 1)) \in Int
    BY <1>1, <1>2, <1>3
  <2>2. i < Len(ss) => ss[i].end + pad(i) \in Int
    BY <1>1, <1>2, <1>3
  <2>3. ss[i].end + SpeechPad \in Int
    BY <1>1, <1>2
  <2>4. \A x, y \in Int : AtMost(x, y) \in Int /\ AtLeast(x, y) \in Int
    BY NumbersOfSound
  <2>5. from(i) \in Int
    BY <2>1, <2>4
  <2>6. to(i) \in Int
    <3>. HIDE DEF from
    <3>1. CASE i < Len(ss)
      BY <2>2, <2>4, <3>1
    <3>2. CASE ~(i < Len(ss))
      BY <2>3, <2>4, <3>2
    <3>. QED BY <3>1, <3>2
  <2>. QED BY <2>5, <2>6
<1>7. \A i \in 1..Len(ss) : /\ 0 <= from(i) /\ from(i) <= to(i) /\ to(i) <= end
                            /\ from(i) <= ss[i].start /\ ss[i].end <= to(i)
  <2>. SUFFICES ASSUME NEW i \in 1..Len(ss)
                PROVE  /\ 0 <= from(i) /\ from(i) <= to(i) /\ to(i) <= end
                       /\ from(i) <= ss[i].start /\ ss[i].end <= to(i)
    OBVIOUS
  <2>. DEFINE before == IF i = 1 THEN SpeechPad ELSE pad(i - 1)
              behind == IF i < Len(ss) THEN pad(i) ELSE SpeechPad
  <2>1. before \in Nat
    BY <1>1, <1>3, <1>5, VadAssumption DEF VadAssumption
  <2>2. behind \in Nat
    BY <1>1, <1>3, <1>5, VadAssumption DEF VadAssumption
  <2>3. /\ ss[i].start \in Nat /\ ss[i].end \in Int /\ ss[i].start <= ss[i].end
        /\ ss[i].end <= end
    BY <1>2, <1>4
  <2>4. from(i) = AtLeast(0, ss[i].start - before) /\ to(i) = AtMost(ss[i].end + behind, end)
    OBVIOUS
  <2>. HIDE DEF from, to, before, behind
  <2>5. 0 <= from(i) /\ from(i) <= ss[i].start
    BY <2>1, <2>3, <2>4 DEF AtLeast
  <2>6. ss[i].end <= to(i) /\ to(i) <= end
    BY <2>2, <2>3, <2>4 DEF AtMost
  <2>. QED BY <1>6, <2>3, <2>5, <2>6
<1>8. \A i \in 1..(Len(ss) - 1) : to(i) <= from(i + 1)
  <2>. SUFFICES ASSUME NEW i \in 1..(Len(ss) - 1) PROVE to(i) <= from(i + 1)
    OBVIOUS
  <2>1. /\ ss[i].end \in Int /\ pad(i) \in Int /\ ss[i + 1].start \in Int
        /\ ss[i].end + pad(i) <= ss[i + 1].start - pad(i)
    BY <1>2, <1>3, <1>5
  <2>2. /\ to(i) = AtMost(ss[i].end + pad(i), end)
        /\ from(i + 1) = AtLeast(0, ss[i + 1].start - pad(i))
    OBVIOUS
  <2>. HIDE DEF from, to
  <2>. QED BY <2>1, <2>2, SMTT(30) DEF AtMost, AtLeast
<1>. HIDE DEF from, to
<1>9. \A i \in 1..Len(ss) : Segment(SamplesToCs(from(i)), SamplesToCs(to(i))) \in Spans
  BY <1>6, NumbersOfSound DEF Segment, Spans
<1>10. Padded(ss, end)
        = [i \in 1..Len(ss) |-> Segment(SamplesToCs(from(i)), SamplesToCs(to(i)))]
  BY DEF Padded, from, to, pad
<1>11. Padded(ss, end) \in Seq(Spans)
  BY <1>9, <1>10
<1>. DEFINE r == Padded(ss, end)
<1>12. Len(r) = Len(ss) /\ \A i \in 1..Len(ss) :
        r[i].start = SamplesToCs(from(i)) /\ r[i].end = SamplesToCs(to(i))
  BY <1>10 DEF Segment
<1>. HIDE DEF r
<1>13. \A i \in 1..Len(r) : /\ 0 <= r[i].start /\ r[i].start <= r[i].end
                          /\ r[i].end <= SamplesToCs(end)
  BY <1>6, <1>7, <1>12, TimesKeepOrder
<1>14. \A i \in 1..(Len(r) - 1) : r[i].end <= r[i + 1].start
  <2>. SUFFICES ASSUME NEW i \in 1..(Len(r) - 1) PROVE r[i].end <= r[i + 1].start
    OBVIOUS
  <2>1. i \in 1..(Len(ss) - 1) /\ i \in 1..Len(ss) /\ i + 1 \in 1..Len(ss)
    BY <1>12
  <2>2. to(i) \in Int /\ from(i + 1) \in Int /\ to(i) <= from(i + 1)
    BY <1>6, <1>8, <2>1
  <2>. QED BY <1>12, <2>1, <2>2, TimesKeepOrder
<1>15. \A i \in 1..Len(r) :
         /\ i \in 1..Len(ss) /\ r[i].start <= SamplesToCs(ss[i].start)
         /\ SamplesToCs(ss[i].end) <= r[i].end
  BY <1>2, <1>6, <1>7, <1>12, TimesKeepOrder
<1>. QED BY <1>11, <1>13, <1>14, <1>15 DEF Spaced, r

\* The segments of speech follow one another, none begins so late that it would
\* be too short, and none is lost in the rounding.
LEMMA SegmentsOfSound ==
  ASSUME NEW probs, Len(probs) \in Nat, NEW max
  PROVE  /\ VadSegments(probs, max) \in Seq(Spans)
         /\ Spaced(VadSegments(probs, max), SamplesToCs(Len(probs) * VadWindow))
         /\ \A i \in 1..Len(VadSegments(probs, max)) :
              /\ VadSegments(probs, max)[i].start
                   <= SamplesToCs(Len(probs) * VadWindow - MinSpeech)
              /\ SamplesPerCs <= MinSpeech =>
                   VadSegments(probs, max)[i].start < VadSegments(probs, max)[i].end
<1>. DEFINE end == Len(probs) * VadWindow
<1>1. end \in Int
  BY VadAssumption DEF VadAssumption
<1>2. /\ Speeches(probs, max) \in Seq(Spans) /\ Spaced(Speeches(probs, max), end)
  BY SpeechesAreSpans
<1>. HIDE DEF end
<1>3. LET m == Merged(Speeches(probs, max)) IN m \in Seq(Spans) /\ Spaced(m, end)
  BY <1>1, <1>2, MergedAreSpans
<1>. DEFINE l == LongOnes(Merged(Speeches(probs, max)))
            r == Padded(l, end)
<1>4. /\ l \in Seq(Spans) /\ Spaced(l, end)
      /\ \A i \in 1..Len(l) : LongEnough(l[i])
  BY <1>1, <1>3, LongOnesAreSpans
<1>. HIDE DEF l
<1>5. /\ r \in Seq(Spans) /\ Spaced(r, SamplesToCs(end))
      /\ \A i \in 1..Len(r) : /\ i \in 1..Len(l) /\ r[i].start <= SamplesToCs(l[i].start)
                              /\ SamplesToCs(l[i].end) <= r[i].end
  BY <1>1, <1>4, PaddedAreSpans
<1>. HIDE DEF r
<1>6. ASSUME NEW i \in 1..Len(r)
      PROVE  /\ r[i].start <= SamplesToCs(end - MinSpeech)
             /\ SamplesPerCs <= MinSpeech => r[i].start < r[i].end
  <2>1. i \in 1..Len(l) /\ r[i] \in Spans /\ MinSpeech \in Nat
    BY <1>5, VadAssumption DEF VadAssumption
  <2>2. l[i] \in Spans
    BY <1>4, <2>1
  <2>3. l[i].start \in Int /\ l[i].end \in Int /\ r[i].start \in Int /\ r[i].end \in Int
    BY <2>1, <2>2 DEF Spans
  <2>4. l[i].end - l[i].start >= MinSpeech /\ l[i].end <= end
    BY <1>4, <2>1 DEF Spaced, LongEnough
  <2>5. l[i].start <= end - MinSpeech /\ end - MinSpeech \in Int
    BY <1>1, <2>1, <2>3, <2>4
  <2>6. SamplesToCs(l[i].start) <= SamplesToCs(end - MinSpeech)
    BY <2>3, <2>5, TimesKeepOrder
  <2>7. SamplesToCs(l[i].start) \in Int /\ SamplesToCs(end - MinSpeech) \in Int
    BY <2>3, <2>5, NumbersOfSound
  <2>8. r[i].start <= SamplesToCs(l[i].start) /\ SamplesToCs(l[i].end) <= r[i].end
    BY <1>5
  <2>9. ASSUME SamplesPerCs <= MinSpeech
        PROVE  r[i].start < r[i].end
    <3>. DEFINE next == l[i].start + 1 * SamplesPerCs
    <3>1. SamplesPerCs \in Nat
      BY VadAssumption DEF VadAssumption
    <3>2. next \in Int /\ next <= l[i].end
      BY <2>1, <2>3, <2>4, <2>9, <3>1
    <3>3. SamplesToCs(next) = SamplesToCs(l[i].start) + 1
      BY <2>3, LaterByCs
    <3>. HIDE DEF next
    <3>4. SamplesToCs(next) <= SamplesToCs(l[i].end)
      BY <2>3, <3>2, TimesKeepOrder
    <3>5. SamplesToCs(l[i].end) \in Int /\ SamplesToCs(next) \in Int
      BY <2>3, <3>2, NumbersOfSound
    <3>. QED BY <2>3, <2>7, <2>8, <3>3, <3>4, <3>5
  <2>. QED BY <2>3, <2>6, <2>7, <2>8, <2>9
<1>7. VadSegments(probs, max) = r
  BY DEF VadSegments, r, l, end
<1>. QED BY <1>5, <1>6, <1>7 DEF end

\* The length computed in advance is a number.
LEMMA LengthIsNumber ==
  ASSUME NEW segs \in Seq(Spans), NEW count \in Int
  PROVE  FilteredLength(segs, count) \in Int
<1>. DEFINE len(i) == AtMost(CsToSamples(segs[i].end)
                               + (IF i < Len(segs) THEN Overlap ELSE 0), count - 1)
                      - CsToSamples(segs[i].start)
            b == (Len(segs) - 1) * Gap
            n == Len(segs)
            T == Int
            step(sum, k) == sum + len(k)
            body(f, k) == IF k = 0 THEN b ELSE step(f[k - 1], k)
            after == CHOOSE f : f = [k \in 0..n |-> body(f, k)]
            F == [k \in 1..n |-> [x \in T |-> step(x, k)]]
<1>1. FilteredLength(segs, count) = after[n] /\ n \in Nat /\ b \in T
  BY VadAssumption DEF VadAssumption, FilteredLength
<1>2. \A k \in 1..n : \A x \in T : step(x, k) \in T
  <2>. SUFFICES ASSUME NEW k \in 1..n PROVE len(k) \in Int
    OBVIOUS
  <2>1. segs[k].start \in Int /\ segs[k].end \in Int
    <3>1. segs[k] \in Spans
      OBVIOUS
    <3>. QED BY <3>1 DEF Spans
  <2>2. CsToSamples(segs[k].start) \in Int /\ CsToSamples(segs[k].end) \in Int
    BY <2>1, NumbersOfSound
  <2>3. CsToSamples(segs[k].end) + (IF k < Len(segs) THEN Overlap ELSE 0) \in Int
    BY <2>2, VadAssumption DEF VadAssumption
  <2>4. AtMost(CsToSamples(segs[k].end) + (IF k < Len(segs) THEN Overlap ELSE 0), count - 1)
          \in Int
    BY <2>3, NumbersOfSound
  <2>. QED BY <2>2, <2>4
<1>3. \A f, k : body(f, k) = IF k = 0 THEN b ELSE step(f[k - 1], k)
  OBVIOUS
<1>. HIDE DEF T, step, b, body, n
<1>4. \A k \in 1..n : \A x \in T : F[k][x] = step(x, k)
  OBVIOUS
<1>. HIDE DEF F
<1>5. n \in Nat /\ StepsWithin(F, n, T)
  BY <1>1, <1>2, <1>4 DEF StepsWithin
<1>6. PICK g \in [0..n -> T] : Leads(g, n, b, F)
  BY <1>1, <1>5, Recursion
<1>7. g = [k \in 0..n |-> body(g, k)]
  <2>. SUFFICES ASSUME NEW k \in 0..n, k # 0 PROVE g[k] = step(g[k - 1], k)
    BY <1>3, <1>5, <1>6 DEF Leads
  <2>1. k \in 1..n /\ g[k - 1] \in T /\ g[k] = F[k][g[k - 1]]
    BY <1>5, <1>6 DEF Leads
  <2>. QED BY <1>4, <2>1
<1>8. after = [k \in 0..n |-> body(after, k)]
  BY <1>7
<1>. HIDE DEF after
<1>9. after[0] = b /\ \A k \in 1..n : after[k] = step(after[k - 1], k)
  <2>1. \A k \in 0..n : after[k] = body(after, k)
    BY <1>8
  <2>. QED BY <1>3, <1>5, <2>1
<1>10. after[n] \in T
  <2>1. n \in Nat /\ after[0] \in T /\ \A k \in 1..n : after[k - 1] \in T => after[k] \in T
    BY <1>1, <1>2, <1>5, <1>9
  <2>. QED BY <2>1, StaysWithin, Zenon
<1>. QED BY <1>1, <1>10 DEF T

Points == [processed : Int, original : Int]
Parts  == [at : Int, from : Int, len : Int]
Copies == [len : Int, points : Seq(Points), parts : Seq(Parts)]

\* Both times of the points rise, or stay.
Rising(ps) ==
  \A j \in 1..(Len(ps) - 1) : /\ ps[j].processed <= ps[j + 1].processed
                              /\ ps[j].original <= ps[j + 1].original
Follows(p, q) == p.processed <= q.processed /\ p.original <= q.original

LEMMA RisingJoin ==
  ASSUME NEW ps \in Seq(Points), NEW qs \in Seq(Points), Rising(ps), Rising(qs), qs # <<>>,
         ps # <<>> => Follows(Last(ps), qs[1])
  PROVE  /\ ps \o qs \in Seq(Points) /\ Rising(ps \o qs) /\ ps \o qs # <<>>
         /\ Last(ps \o qs) = Last(qs)
<1>. DEFINE r == ps \o qs
            m == Len(ps)
            n == Len(qs)
<1>1. /\ r \in Seq(Points) /\ Len(r) = m + n /\ m \in Nat /\ n \in Nat \ {0}
      /\ \A j \in 1..m : r[j] = ps[j]
      /\ \A j \in 1..n : r[m + j] = qs[j]
  OBVIOUS
<1>2. m > 0 => Follows(ps[m], qs[1])
  BY DEF Last
<1>3. Last(r) = Last(qs) /\ r # <<>>
  BY <1>1 DEF Last
<1>. HIDE DEF r, m, n
<1>4. ASSUME NEW j \in 1..(m + n - 1)
      PROVE  r[j].processed <= r[j + 1].processed /\ r[j].original <= r[j + 1].original
  <2>1. CASE j < m
    <3>1. j \in 1..(m - 1) /\ r[j] = ps[j] /\ r[j + 1] = ps[j + 1]
      BY <1>1, <2>1
    <3>. QED BY <3>1 DEF Rising, m
  <2>2. CASE j = m
    <3>1. r[j] = ps[m] /\ r[j + 1] = qs[1] /\ m > 0
      BY <1>1, <2>2
    <3>. QED BY <1>2, <3>1 DEF Follows
  <2>3. CASE j > m
    <3>. DEFINE i == j - m
    <3>1. i \in 1..(n - 1) /\ i + 1 \in 1..n /\ m + i = j /\ m + (i + 1) = j + 1
      BY <1>1, <2>3
    <3>2. r[j] = qs[i] /\ r[j + 1] = qs[i + 1]
      <4>. HIDE DEF i
      <4>1. r[m + i] = qs[i] /\ r[m + (i + 1)] = qs[i + 1]
        BY <1>1, <3>1
      <4>. QED BY <3>1, <4>1
    <3>. HIDE DEF i
    <3>. QED BY <3>1, <3>2 DEF Rising, n
  <2>. QED BY <1>1, <2>1, <2>2, <2>3
<1>5. Rising(r)
  BY <1>1, <1>4 DEF Rising
<1>. QED BY <1>1, <1>3, <1>5 DEF r

\* What is copied, with segments that follow one another: times rise.
RisesTo(f, segs, i) ==
  /\ Rising(f.points)
  /\ f.points # <<>> => /\ Last(f.points).processed <= SamplesToCs(f.len)
                        /\ i <= Len(segs) => Last(f.points).original <= segs[i].start

LEMMA CopiedRises ==
  ASSUME NEW segs \in Seq(Spans), NEW lim, Spaced(segs, lim), NEW i \in 1..Len(segs),
         NEW n \in Int, NEW f \in Copies, RisesTo(f, segs, i)
  PROVE  Copied(f, segs, i, n) \in Copies /\ RisesTo(Copied(f, segs, i, n), segs, i + 1)
<1>. DEFINE last  == i = Len(segs)
            from  == AtMost(CsToSamples(segs[i].start), n - 1)
            to    == AtMost(CsToSamples(segs[i].end), n - 1)
            whole == IF last THEN to ELSE AtMost(to + Overlap, n - 1)
            after == f.len + (whole - from)
            p1 == Point(SamplesToCs(f.len), segs[i].start)
            p2 == Point(SamplesToCs(f.len + (to - from)), segs[i].end)
            p3 == Point(SamplesToCs(after), segs[i].end)
            p4 == Point(SamplesToCs(after + Gap), segs[i + 1].start)
            ps == f.points \o <<p1, p2>>
            len == IF last THEN after ELSE after + Gap
            part == [at |-> f.len, from |-> from, len |-> to - from]
            parts == Append(f.parts, part)
            points == ps \o (IF last THEN <<>> ELSE <<p3, p4>>)
            g == [len |-> len, parts |-> parts, points |-> points]
<1>1. /\ segs[i] \in Spans /\ segs[i].start \in Int /\ segs[i].end \in Int
      /\ segs[i].start <= segs[i].end /\ f.len \in Int /\ f.points \in Seq(Points)
      /\ f.parts \in Seq(Parts)
  <2>1. segs[i] \in Spans
    OBVIOUS
  <2>. QED BY <2>1 DEF Spans, Copies, Spaced
<1>2. ~last => /\ segs[i + 1].start \in Int /\ segs[i].end <= segs[i + 1].start
  <2>. SUFFICES ASSUME ~last PROVE segs[i + 1].start \in Int /\ segs[i].end <= segs[i + 1].start
    OBVIOUS
  <2>1. segs[i + 1] \in Spans /\ i \in 1..(Len(segs) - 1)
    OBVIOUS
  <2>. QED BY <2>1 DEF Spans, Spaced
<1>3. /\ from \in Int /\ to \in Int /\ from <= to
  <2>1. CsToSamples(segs[i].start) <= CsToSamples(segs[i].end)
          /\ CsToSamples(segs[i].start) \in Int /\ CsToSamples(segs[i].end) \in Int
    BY <1>1, TimesKeepOrder, NumbersOfSound
  <2>. QED BY <2>1 DEF AtMost
<1>4. to <= n - 1
  <2>1. CsToSamples(segs[i].end) \in Int
    BY <1>1, NumbersOfSound
  <2>. QED BY <2>1 DEF AtMost
<1>. HIDE DEF from, to
<1>5. whole \in Int /\ to <= whole
  BY <1>3, <1>4, VadAssumption DEF VadAssumption, AtMost
<1>. HIDE DEF whole
<1>6. /\ after \in Int /\ f.len + (to - from) \in Int /\ after + Gap \in Int
      /\ f.len <= f.len + (to - from) /\ f.len + (to - from) <= after /\ after <= after + Gap
  BY <1>1, <1>3, <1>5, VadAssumption, SMTT(30) DEF VadAssumption
<1>. HIDE DEF after
<1>7. /\ p1 \in Points /\ p2 \in Points /\ Follows(p1, p2)
      /\ p1.processed = SamplesToCs(f.len) /\ p1.original = segs[i].start
      /\ p2.processed <= SamplesToCs(after)
  <2>. DEFINE c1 == SamplesToCs(f.len)
              c2 == SamplesToCs(f.len + (to - from))
              c3 == SamplesToCs(after)
  <2>1. c1 \in Int /\ c2 \in Int /\ c3 \in Int /\ c1 <= c2 /\ c2 <= c3
    BY <1>1, <1>6, NumbersOfSound, TimesKeepOrder
  <2>. HIDE DEF c1, c2, c3
  <2>2. p1 = Point(c1, segs[i].start) /\ p2 = Point(c2, segs[i].end)
    BY DEF c1, c2
  <2>3. /\ p1 \in Points /\ p2 \in Points /\ p1.processed = c1 /\ p1.original = segs[i].start
        /\ p2.processed = c2 /\ p2.original = segs[i].end
    BY <1>1, <2>1, <2>2 DEF Point, Points
  <2>. HIDE DEF p1, p2
  <2>. QED BY <1>1, <2>1, <2>3 DEF Follows, c1, c3
<1>8. ~last => /\ p3 \in Points /\ p4 \in Points /\ Follows(p2, p3) /\ Follows(p3, p4)
               /\ p4.processed = SamplesToCs(after + Gap) /\ p4.original = segs[i + 1].start
  <2>. SUFFICES ASSUME ~last
                PROVE  /\ p3 \in Points /\ p4 \in Points /\ Follows(p2, p3) /\ Follows(p3, p4)
                       /\ p4.processed = SamplesToCs(after + Gap)
                       /\ p4.original = segs[i + 1].start
    OBVIOUS
  <2>. DEFINE c3 == SamplesToCs(after)
              c4 == SamplesToCs(after + Gap)
              e  == segs[i].end
              s  == segs[i + 1].start
  <2>1. c3 \in Int /\ c4 \in Int /\ c3 <= c4 /\ e \in Int /\ s \in Int /\ e <= s
    BY <1>1, <1>2, <1>6, NumbersOfSound, TimesKeepOrder
  <2>. HIDE DEF c3, c4, e, s
  <2>2. p3 = Point(c3, e) /\ p4 = Point(c4, s)
    BY DEF c3, c4, e, s
  <2>3. /\ p3 \in Points /\ p4 \in Points /\ p3.processed = c3 /\ p3.original = e
        /\ p4.processed = c4 /\ p4.original = s
    BY <2>1, <2>2 DEF Point, Points
  <2>4. p2.original = e /\ p2.processed <= c3
    BY <1>7 DEF Point, e, c3
  <2>. HIDE DEF p2, p3, p4
  <2>. QED BY <2>1, <2>3, <2>4 DEF Follows, c4, s
<1>. HIDE DEF p1, p2, p3, p4
<1>9. /\ ps \in Seq(Points) /\ Rising(ps) /\ ps # <<>> /\ Last(ps) = p2
  <2>1. /\ <<p1, p2>> \in Seq(Points) /\ Rising(<<p1, p2>>) /\ <<p1, p2>> # <<>>
        /\ Last(<<p1, p2>>) = p2 /\ <<p1, p2>>[1] = p1
    BY <1>7 DEF Rising, Follows, Last
  <2>2. f.points # <<>> => Follows(Last(f.points), p1)
    BY <1>7 DEF RisesTo, Follows
  <2>3. Rising(f.points)
    BY DEF RisesTo
  <2>. QED BY <1>1, <2>1, <2>2, <2>3, RisingJoin
<1>. HIDE DEF ps
<1>10. /\ points \in Seq(Points) /\ Rising(points) /\ points # <<>>
       /\ Last(points) = IF last THEN p2 ELSE p4
  <2>1. CASE last
    <3>1. points = ps
      BY <1>9, <2>1
    <3>. QED BY <1>9, <2>1, <3>1
  <2>2. CASE ~last
    <3>1. /\ <<p3, p4>> \in Seq(Points) /\ Rising(<<p3, p4>>) /\ <<p3, p4>> # <<>>
          /\ Last(<<p3, p4>>) = p4 /\ <<p3, p4>>[1] = p3
      BY <1>8, <2>2 DEF Rising, Follows, Last
    <3>2. points = ps \o <<p3, p4>>
      BY <2>2
    <3>3. Follows(Last(ps), p3)
      BY <1>8, <1>9, <2>2
    <3>. QED BY <1>9, <2>2, <3>1, <3>2, <3>3, RisingJoin
  <2>. QED BY <2>1, <2>2
<1>. HIDE DEF points
<1>11. parts \in Seq(Parts)
  <2>1. part \in Parts
    BY <1>1, <1>3 DEF Parts
  <2>. HIDE DEF part
  <2>. QED BY <1>1, <2>1
<1>. HIDE DEF parts, part
<1>12. len \in Int
  BY <1>6
<1>13. g \in Copies
  <2>. HIDE DEF len, last
  <2>. QED BY <1>10, <1>11, <1>12 DEF Copies
<1>14. Last(points).processed <= SamplesToCs(len)
  <2>1. CASE last
    <3>1. len = after /\ Last(points) = p2
      BY <1>10, <2>1
    <3>. HIDE DEF len
    <3>. QED BY <1>7, <3>1
  <2>2. CASE ~last
    <3>1. len = after + Gap /\ Last(points) = p4
      BY <1>10, <2>2
    <3>2. p4.processed = SamplesToCs(after + Gap) /\ SamplesToCs(after + Gap) \in Int
      BY <1>6, <1>8, <2>2, NumbersOfSound
    <3>. HIDE DEF len
    <3>. QED BY <3>1, <3>2
  <2>. QED BY <2>1, <2>2
<1>15. i + 1 <= Len(segs) => Last(points).original <= segs[i + 1].start
  BY <1>2, <1>8, <1>10
<1>16. RisesTo(g, segs, i + 1)
  <2>. HIDE DEF len, last
  <2>. QED BY <1>10, <1>14, <1>15 DEF RisesTo
<1>17. Copied(f, segs, i, n) = IF whole - from <= 0 THEN f ELSE g
  BY DEF Copied, last, from, to, whole, after, p1, p2, p3, p4, ps, len, part, parts, points, g
<1>18. RisesTo(f, segs, i + 1)
  <2>1. f.points # <<>> /\ i + 1 <= Len(segs) => Last(f.points).original <= segs[i + 1].start
    <3>. SUFFICES ASSUME f.points # <<>>, i + 1 <= Len(segs)
                  PROVE  Last(f.points).original <= segs[i + 1].start
      OBVIOUS
    <3>1. Last(f.points) \in Points /\ Last(f.points).original \in Int
      <4>1. Last(f.points) \in Points
        BY <1>1 DEF Last
      <4>. QED BY <4>1 DEF Points
    <3>2. Last(f.points).original <= segs[i].start
      BY DEF RisesTo
    <3>. QED BY <1>1, <1>2, <3>1, <3>2
  <2>. QED BY <2>1 DEF RisesTo
<1>. QED BY <1>13, <1>16, <1>17, <1>18

\* A table of times: processed times grow, and the original ones do not fall.
IsTable(t) ==
  /\ t \in Seq(Points)
  /\ \A i, j \in 1..Len(t) : i < j => /\ t[i].processed < t[j].processed
                                      /\ t[i].original <= t[j].original

\* A table holds of some points one for each processed time: the least.
Holds(t, R) ==
  /\ \A i \in 1..Len(t) : /\ t[i] \in R
                          /\ \A q \in R : q.processed = t[i].processed
                                         => t[i].original <= q.original
  /\ \A q \in R : \E i \in 1..Len(t) : t[i].processed = q.processed

LEMMA PlacedLast ==
  ASSUME NEW done, IsTable(done), NEW q \in Points, done # <<>> => Follows(Last(done), q),
         NEW R \in SUBSET Points, Holds(done, R)
  PROVE  /\ IsTable(Placed(done, q)) /\ Placed(done, q) # <<>>
         /\ Holds(Placed(done, q), R \cup {q})
         /\ Last(Placed(done, q)).processed = q.processed
         /\ Last(Placed(done, q)).original <= q.original
<1>. DEFINE n == Len(done)
            Fits(k) == /\ \A j \in 1..k : done[j].processed <= q.processed
                       /\ \A j \in (k + 1)..n : q.processed < done[j].processed
            k == CHOOSE k \in 0..n : Fits(k)
<1>1. done \in Seq(Points) /\ n \in Nat /\ \A j \in 1..n : done[j] \in Points
  BY DEF IsTable
<1>2. \A j \in 1..n : done[j].processed \in Int /\ done[j].original \in Int
  BY <1>1 DEF Points
<1>3. q.processed \in Int /\ q.original \in Int
  BY DEF Points
<1>4. \A j \in 1..n : done[j].processed <= q.processed /\ done[j].original <= q.original
  <2>. SUFFICES ASSUME NEW j \in 1..n
                PROVE  done[j].processed <= q.processed /\ done[j].original <= q.original
    OBVIOUS
  <2>1. n \in 1..n /\ done[n].processed <= q.processed /\ done[n].original <= q.original
    BY <1>1 DEF Last, Follows
  <2>2. j < n => done[j].processed < done[n].processed /\ done[j].original <= done[n].original
    BY <2>1 DEF IsTable
  <2>. QED BY <1>1, <1>2, <1>3, <2>1, <2>2
<1>5. k = n
  <2>1. n \in 0..n /\ Fits(n)
    BY <1>1, <1>4
  <2>2. \A m \in 0..n : Fits(m) => m = n
    <3>. SUFFICES ASSUME NEW m \in 0..n, Fits(m), m # n PROVE FALSE
      OBVIOUS
    <3>1. n \in (m + 1)..n /\ n \in 1..n
      BY <1>1
    <3>2. q.processed < done[n].processed
      BY <3>1
    <3>. QED BY <1>2, <1>3, <1>4, <3>1, <3>2
  <2>. HIDE DEF Fits
  <2>3. k \in 0..n /\ Fits(k)
    BY <2>1
  <2>. HIDE DEF k
  <2>. QED BY <2>2, <2>3
<1>6. Placed(done, q) = IF n > 0 /\ done[n].processed = q.processed THEN done
                        ELSE InsertAt(done, n + 1, q)
  <2>1. Placed(done, q) = IF k > 0 /\ done[k].processed = q.processed THEN done
                          ELSE InsertAt(done, k + 1, q)
    BY DEF Placed
  <2>. HIDE DEF k
  <2>. QED BY <1>5, <2>1
<1>. HIDE DEF k, Fits
<1>7. CASE n > 0 /\ done[n].processed = q.processed
  <2>1. Placed(done, q) = done /\ done # <<>> /\ Last(done) = done[n] /\ n \in 1..n
    BY <1>1, <1>6, <1>7 DEF Last
  <2>2. ASSUME NEW i \in 1..n
        PROVE  /\ done[i] \in R \cup {q}
               /\ \A p \in R \cup {q} : p.processed = done[i].processed
                                     => done[i].original <= p.original
    BY <1>4 DEF Holds
  <2>3. \A p \in R \cup {q} : \E i \in 1..n : done[i].processed = p.processed
    BY <1>7, <2>1 DEF Holds
  <2>4. Holds(done, R \cup {q})
    BY <2>2, <2>3 DEF Holds
  <2>. QED BY <1>4, <1>7, <2>1, <2>4
<1>8. CASE ~(n > 0 /\ done[n].processed = q.processed)
  <2>. DEFINE a == Append(done, q)
  <2>1. Placed(done, q) = a
    <3>1. Placed(done, q) = InsertAt(done, n + 1, q)
      BY <1>6, <1>8
    <3>2. SubSeq(done, 1, n) = done /\ SubSeq(done, n + 1, n) = <<>>
      BY <1>1
    <3>3. InsertAt(done, n + 1, q) = SubSeq(done, 1, n) \o <<q>> \o SubSeq(done, n + 1, n)
      <4>1. (n + 1) - 1 = n
        BY <1>1
      <4>. QED BY <4>1 DEF InsertAt
    <3>4. (done \o <<q>>) \o <<>> = a
      BY <1>1
    <3>. QED BY <3>1, <3>2, <3>3, <3>4
  <2>2. /\ a \in Seq(Points) /\ Len(a) = n + 1 /\ a[n + 1] = q
        /\ \A j \in 1..n : a[j] = done[j]
    BY <1>1
  <2>. HIDE DEF a
  <2>3. Last(a) = q /\ a # <<>>
    BY <1>1, <2>2 DEF Last
  <2>4. ASSUME NEW i \in 1..(n + 1), NEW j \in 1..(n + 1), i < j
        PROVE  a[i].processed < a[j].processed /\ a[i].original <= a[j].original
    <3>1. CASE j < n + 1
      <4>1. i \in 1..n /\ j \in 1..n /\ a[i] = done[i] /\ a[j] = done[j]
        BY <1>1, <2>2, <2>4, <3>1
      <4>. QED BY <2>4, <4>1 DEF IsTable, n
    <3>2. CASE j = n + 1
      <4>1. i \in 1..n /\ a[i] = done[i] /\ a[j] = q
        BY <1>1, <2>2, <2>4, <3>2
      <4>2. done[i].processed # q.processed
        <5>1. CASE i = n
          BY <1>8, <4>1, <5>1
        <5>2. CASE i # n
          <6>1. i < n /\ n \in 1..n
            BY <1>1, <4>1, <5>2
          <6>2. done[i].processed < done[n].processed
            BY <4>1, <6>1 DEF IsTable, n
          <6>. QED BY <1>2, <1>3, <1>4, <4>1, <6>1, <6>2
        <5>. QED BY <5>1, <5>2
      <4>. QED BY <1>2, <1>3, <1>4, <4>1, <4>2
    <3>. QED BY <1>1, <3>1, <3>2
  <2>5. IsTable(a)
    BY <1>1, <2>2, <2>4 DEF IsTable
  <2>6. \A i \in 1..n : done[i].processed < q.processed
    <3>. SUFFICES ASSUME NEW i \in 1..n PROVE done[i].processed < q.processed
      OBVIOUS
    <3>1. n + 1 \in 1..(n + 1) /\ i \in 1..(n + 1) /\ i < n + 1
      BY <1>1
    <3>2. a[i].processed < a[n + 1].processed
      BY <2>4, <3>1
    <3>. QED BY <2>2, <3>2
  <2>7. \A p \in R : p.processed # q.processed
    BY <1>2, <1>3, <2>6 DEF Holds
  <2>8. ASSUME NEW i \in 1..(n + 1)
        PROVE  /\ a[i] \in R \cup {q}
               /\ \A p \in R \cup {q} : p.processed = a[i].processed => a[i].original <= p.original
    <3>1. CASE i \in 1..n
      <4>1. a[i] = done[i] /\ a[i] \in R /\ a[i].processed # q.processed
        BY <1>2, <1>3, <2>2, <2>6, <3>1 DEF Holds
      <4>2. \A p \in R : p.processed = a[i].processed => a[i].original <= p.original
        BY <3>1, <4>1 DEF Holds
      <4>. QED BY <4>1, <4>2
    <3>2. CASE i = n + 1
      BY <1>3, <2>2, <2>7, <3>2
    <3>. QED BY <1>1, <3>1, <3>2
  <2>9. ASSUME NEW p \in R \cup {q}
        PROVE  \E i \in 1..(n + 1) : a[i].processed = p.processed
    <3>1. CASE p = q
      <4>1. n + 1 \in 1..(n + 1) /\ a[n + 1].processed = p.processed
        BY <1>1, <2>2, <3>1
      <4>. QED BY <4>1
    <3>2. CASE p \in R
      <4>1. PICK i \in 1..n : done[i].processed = p.processed
        BY <3>2 DEF Holds
      <4>2. i \in 1..(n + 1) /\ a[i].processed = p.processed
        BY <1>1, <2>2, <4>1
      <4>. QED BY <4>2
    <3>. QED BY <3>1, <3>2
  <2>10. Holds(a, R \cup {q})
    BY <2>2, <2>8, <2>9 DEF Holds
  <2>. QED BY <1>3, <2>1, <2>3, <2>5, <2>10
<1>. QED BY <1>7, <1>8

\* Points whose times rise make a table of times.
LEMMA TableOfRising ==
  ASSUME NEW points \in Seq(Points), Rising(points)
  PROVE  IsTable(Table(points)) /\ Holds(Table(points), Range(points))
<1>. DEFINE b == << >>
            n == Len(points)
            T == Seq(Points)
            upto(k) == {points[j] : j \in 1..k}
            Good(done, k) ==
              /\ IsTable(done) /\ Holds(done, upto(k))
              /\ done # <<>> => /\ k > 0 /\ Last(done).processed = points[k].processed
                                /\ Last(done).original <= points[k].original
            step(done, k) == Placed(done, points[k])
            body(f, k) == IF k = 0 THEN b ELSE step(f[k - 1], k)
            after == CHOOSE f : f = [k \in 0..n |-> body(f, k)]
            F == [k \in 1..n |-> [x \in T |-> IF Good(x, k - 1) THEN step(x, k) ELSE b]]
<1>1. Table(points) = after[n] /\ n \in Nat /\ b \in T /\ Good(b, 0)
  BY DEF Table, IsTable, Holds
<1>2. \A k \in 1..n : \A x \in T : Good(x, k - 1) => Good(step(x, k), k)
  <2>. SUFFICES ASSUME NEW k \in 1..n, NEW x \in T, Good(x, k - 1)
                PROVE  Good(step(x, k), k)
    OBVIOUS
  <2>1. points[k] \in Points
    OBVIOUS
  <2>2. x # <<>> => Follows(Last(x), points[k])
    <3>. SUFFICES ASSUME x # <<>> PROVE Follows(Last(x), points[k])
      OBVIOUS
    <3>1. /\ k - 1 > 0 /\ Last(x).processed = points[k - 1].processed
          /\ Last(x).original <= points[k - 1].original
      OBVIOUS
    <3>. DEFINE j == k - 1
    <3>2. j \in 1..(Len(points) - 1) /\ j + 1 = k /\ points[j] \in Points
      BY <3>1
    <3>3. points[j].processed <= points[j + 1].processed
            /\ points[j].original <= points[j + 1].original
      BY <3>2 DEF Rising
    <3>4. Last(x) \in Points
      BY DEF Last
    <3>5. /\ Last(x).original \in Int /\ points[j].original \in Int
          /\ points[k].original \in Int
      BY <2>1, <3>2, <3>4 DEF Points
    <3>. QED BY <3>1, <3>2, <3>3, <3>5 DEF Follows
  <2>3. k > 0
    OBVIOUS
  <2>4. upto(k - 1) \in SUBSET Points /\ upto(k) = upto(k - 1) \cup {points[k]}
    <3>1. \A j \in 1..k : points[j] \in Points
      OBVIOUS
    <3>2. 1..k = 1..(k - 1) \cup {k}
      OBVIOUS
    <3>. QED BY <3>1, <3>2
  <2>. HIDE DEF upto
  <2>5. IsTable(x) /\ Holds(x, upto(k - 1))
    OBVIOUS
  <2>6. /\ IsTable(Placed(x, points[k])) /\ Placed(x, points[k]) # <<>>
        /\ Holds(Placed(x, points[k]), upto(k - 1) \cup {points[k]})
        /\ Last(Placed(x, points[k])).processed = points[k].processed
        /\ Last(Placed(x, points[k])).original <= points[k].original
    BY <2>1, <2>2, <2>4, <2>5, PlacedLast
  <2>. QED BY <2>3, <2>4, <2>6
<1>3. \A x, k : Good(x, k) => x \in T
  BY DEF IsTable
<1>4. \A f, k : body(f, k) = IF k = 0 THEN b ELSE step(f[k - 1], k)
  OBVIOUS
<1>. HIDE DEF T, step, b, body, n, Good
<1>5. \A k \in 1..n : \A x \in T : F[k][x] = IF Good(x, k - 1) THEN step(x, k) ELSE b
  OBVIOUS
<1>. HIDE DEF F
<1>6. n \in Nat /\ StepsWithin(F, n, T)
  BY <1>1, <1>2, <1>3, <1>5 DEF StepsWithin
<1>7. PICK g \in [0..n -> T] : Leads(g, n, b, F)
  BY <1>1, <1>6, Recursion
<1>8. \A k \in 0..n : Good(g[k], k)
  <2>. DEFINE P == {k \in 0..n : Good(g[k], k)}
  <2>1. 0 \in P
    BY <1>1, <1>6, <1>7 DEF Leads
  <2>2. ASSUME NEW k \in 1..n, k - 1 \in P PROVE k \in P
    <3>1. k - 1 \in 0..n /\ Good(g[k - 1], k - 1) /\ g[k - 1] \in T
      BY <1>6, <1>7, <2>2
    <3>2. g[k] = step(g[k - 1], k)
      BY <1>5, <1>7, <3>1 DEF Leads
    <3>. QED BY <1>2, <3>1, <3>2
  <2>. HIDE DEF P
  <2>3. \A k \in 0..n : k \in P
    BY <1>6, <2>1, <2>2, Climbs, Zenon
  <2>. QED BY <2>3 DEF P
<1>9. g = [k \in 0..n |-> body(g, k)]
  <2>. SUFFICES ASSUME NEW k \in 0..n, k # 0 PROVE g[k] = step(g[k - 1], k)
    BY <1>4, <1>6, <1>7 DEF Leads
  <2>1. k \in 1..n /\ k - 1 \in 0..n /\ g[k - 1] \in T /\ g[k] = F[k][g[k - 1]]
    BY <1>6, <1>7 DEF Leads
  <2>. QED BY <1>5, <1>8, <2>1
<1>10. after = [k \in 0..n |-> body(after, k)]
  BY <1>9
<1>. HIDE DEF after
<1>11. after[0] = b /\ \A k \in 1..n : after[k] = step(after[k - 1], k)
  <2>1. \A k \in 0..n : after[k] = body(after, k)
    BY <1>10
  <2>. QED BY <1>4, <1>6, <2>1
<1>12. \A k \in 0..n : Good(after[k], k)
  <2>. DEFINE P == {k \in 0..n : Good(after[k], k)}
  <2>1. 0 \in P
    BY <1>1, <1>6, <1>11
  <2>2. ASSUME NEW k \in 1..n, k - 1 \in P PROVE k \in P
    <3>1. Good(after[k - 1], k - 1) /\ after[k - 1] \in T
      BY <1>3, <2>2
    <3>. QED BY <1>2, <1>11, <3>1
  <2>. HIDE DEF P
  <2>3. \A k \in 0..n : k \in P
    BY <1>6, <2>1, <2>2, Climbs, Zenon
  <2>. QED BY <2>3 DEF P
<1>13. n \in 0..n
  BY <1>6
<1>14. upto(n) = Range(points)
  BY DEF Range, n
<1>. QED BY <1>1, <1>12, <1>13, <1>14 DEF Good

-------------------------------------------------------------------------------
(* The mapping of times.                                                      *)

\* Interpolation between two points of a table does not leave them, and keeps
\* the order of times.
LEMMA Interpolated ==
  ASSUME NEW d \in Nat \ {0}, NEW h \in Nat, NEW x \in 0..d, NEW y \in 0..d, x <= y
  PROVE  /\ (x * h) \div d \in 0..h /\ (y * h) \div d \in 0..h
         /\ (x * h) \div d <= (y * h) \div d /\ (d * h) \div d = h
<1>1. x * h \in Int /\ y * h \in Int /\ d * h \in Int /\ 0 \in Int
  OBVIOUS
<1>2. 0 <= x * h /\ x * h <= y * h /\ y * h <= d * h /\ 0 <= y * h
  <2>1. x \in Nat /\ y \in Nat /\ y - x \in Nat /\ d - y \in Nat
    OBVIOUS
  <2>2. \A a, c \in Nat : a * c \in Nat
    OBVIOUS
  <2>3. x * h \in Nat /\ (y - x) * h \in Nat /\ (d - y) * h \in Nat
    BY <2>1, <2>2
  <2>4. (y - x) * h = y * h - x * h /\ (d - y) * h = d * h - y * h
    BY <2>1
  <2>. QED BY <1>1, <2>3, <2>4
<1>3. (d * h) \div d = h /\ 0 \div d = 0
  <2>. DEFINE q == (d * h) \div d
  <2>1. q \in Int /\ d * q <= d * h /\ d * h < d * q + d
    BY <1>1
  <2>. HIDE DEF q
  <2>2. d * q + d = d * (q + 1)
    BY <2>1
  <2>3. ~(h < q)
    <3>1. h < q => d * (h + 1) <= d * q /\ d * (h + 1) = d * h + d
      BY <2>1
    <3>. QED BY <1>1, <2>1, <3>1
  <2>4. ~(q < h)
    <3>1. q < h => d * (q + 1) <= d * h
      BY <2>1
    <3>. QED BY <1>1, <2>1, <2>2, <3>1
  <2>5. q = h
    BY <2>1, <2>3, <2>4
  <2>6. 0 \div d = 0
    OBVIOUS
  <2>. QED BY <2>5, <2>6 DEF q
<1>. DEFINE a == x * h
            c == y * h
            e == d * h
<1>4. a \in Int /\ c \in Int /\ e \in Int /\ 0 <= a /\ a <= c /\ c <= e /\ 0 <= c
  BY <1>1, <1>2
<1>5. e \div d = h /\ 0 \div d = 0
  BY <1>3
<1>. HIDE DEF a, c, e
<1>6. 0 \div d <= a \div d /\ a \div d <= c \div d /\ c \div d <= e \div d
  BY <1>4, DivisionKeepsOrder
<1>7. a \div d \in Int /\ c \div d \in Int
  BY <1>4
<1>8. a \div d \in 0..h /\ c \div d \in 0..h /\ a \div d <= c \div d
  BY <1>5, <1>6, <1>7
<1>. QED BY <1>3, <1>8 DEF a, c

\* A time within a table lies between two points of it.
LEMMA BetweenPoints ==
  ASSUME NEW t, IsTable(t), t # <<>>, NEW x \in Int,
         t[1].processed < x, x < Last(t).processed
  PROVE  \E k \in 2..Len(t) :
           /\ t[k - 1].processed < x /\ x <= t[k].processed
           /\ OriginalTime(x, t)
                = t[k - 1].original + ((x - t[k - 1].processed)
                    * (t[k].original - t[k - 1].original))
                      \div (t[k].processed - t[k - 1].processed)
<1>. DEFINE n == Len(t)
            At(k) == t[k].processed >= x /\ t[k - 1].processed < x
            k  == CHOOSE k \in 2..n : At(k)
            up == t[k]
            lo == t[k - 1]
<1>1. /\ t \in Seq(Points) /\ n \in Nat \ {0}
      /\ \A i \in 1..n : t[i].processed \in Int /\ t[i].original \in Int
  <2>1. t \in Seq(Points)
    BY DEF IsTable
  <2>2. \A i \in 1..n : t[i] \in Points
    BY <2>1
  <2>. QED BY <2>1, <2>2 DEF Points
<1>2. Last(t) = t[n]
  BY DEF Last
<1>3. \E m \in 2..n : At(m)
  <2>. DEFINE S == {m \in 1..n : x <= t[m].processed}
  <2>1. n \in S /\ S \subseteq Nat
    BY <1>1, <1>2
  <2>2. PICK m \in S : \A i \in S : m <= i
    <3>. HIDE DEF S
    <3>. QED BY <2>1, LeastNumber
  <2>3. m # 1 /\ m \in 1..n /\ x <= t[m].processed
    BY <1>1
  <2>4. m - 1 \in 1..n /\ m - 1 \notin S
    BY <2>2, <2>3
  <2>5. t[m - 1].processed < x
    BY <1>1, <2>4
  <2>6. m \in 2..n /\ At(m)
    BY <1>1, <2>3, <2>5
  <2>. QED BY <2>6
<1>4. k \in 2..n /\ At(k)
  <2>. HIDE DEF At
  <2>. QED BY <1>3
<1>5. OriginalTime(x, t) = IF up.processed = x THEN up.original
        ELSE lo.original + ((x - lo.processed) * (up.original - lo.original))
                           \div (up.processed - lo.processed)
  <2>1. ~(x <= t[1].processed) /\ ~(x >= Last(t).processed)
    <3>1. t[1].processed \in Int /\ Last(t).processed \in Int
      BY <1>1, <1>2
    <3>. QED BY <3>1
  <2>. QED BY <2>1 DEF OriginalTime, k, At, up, lo, n
<1>. HIDE DEF k
<1>6. /\ k \in 1..n /\ k - 1 \in 1..n /\ k - 1 < k
  BY <1>4
<1>7. /\ lo.processed \in Int /\ up.processed \in Int /\ lo.original \in Int
      /\ up.original \in Int /\ lo.processed < up.processed /\ lo.original <= up.original
  <2>1. lo.processed < up.processed /\ lo.original <= up.original
    BY <1>6 DEF IsTable, lo, up, n
  <2>. QED BY <1>1, <1>6, <2>1
<1>8. ASSUME up.processed = x
      PROVE  up.original = lo.original + ((x - lo.processed) * (up.original - lo.original))
                                         \div (up.processed - lo.processed)
  <2>. DEFINE d == up.processed - lo.processed
              h == up.original - lo.original
  <2>1. d \in Nat \ {0} /\ h \in Nat /\ x - lo.processed = d /\ 0 \in 0..d
          /\ up.original = lo.original + h
    BY <1>7, <1>8
  <2>. HIDE DEF d, h
  <2>2. (d * h) \div d = h
    BY <2>1, Interpolated
  <2>3. up.original = lo.original + (d * h) \div d
    BY <2>1, <2>2
  <2>. QED BY <2>1, <2>3 DEF d, h
<1>9. OriginalTime(x, t)
        = lo.original + ((x - lo.processed) * (up.original - lo.original))
                        \div (up.processed - lo.processed)
  BY <1>5, <1>8
<1>. QED BY <1>4, <1>9 DEF n, lo, up, At

\* The mapping keeps the order of times.
LEMMA MappingKeepsOrder ==
  ASSUME NEW t, IsTable(t), NEW a \in Int, NEW b \in Int, a <= b
  PROVE  OriginalTime(a, t) <= OriginalTime(b, t)
<1>1. CASE t = <<>>
  BY <1>1 DEF OriginalTime
<1>2. CASE t # <<>>
  <2>. DEFINE n == Len(t)
  <2>1. /\ t \in Seq(Points) /\ n \in Nat \ {0} /\ Last(t) = t[n]
        /\ \A i \in 1..n : t[i].processed \in Int /\ t[i].original \in Int
    <3>1. t \in Seq(Points)
      BY DEF IsTable
    <3>2. \A i \in 1..n : t[i] \in Points
      BY <3>1
    <3>. QED BY <1>2, <3>1, <3>2 DEF Points, Last
  <2>2. \A i, j \in 1..n : i <= j => t[i].original <= t[j].original
    <3>1. \A i, j \in 1..n : i < j => t[i].original <= t[j].original
      BY DEF IsTable
    <3>. QED BY <2>1, <3>1
  <2>3. \A i, j \in 1..n : i < j => t[i].processed < t[j].processed
    BY DEF IsTable
  <2>. DEFINE Mid(x) == t[1].processed < x /\ x < t[n].processed
              d(k) == t[k].processed - t[k - 1].processed
              h(k) == t[k].original - t[k - 1].original
              v(x, k) == t[k - 1].original + ((x - t[k - 1].processed) * h(k)) \div d(k)
              In(x, k) == t[k - 1].processed < x /\ x <= t[k].processed
  <2>4. \A x \in Int : Mid(x) => \E k \in 2..n : In(x, k) /\ OriginalTime(x, t) = v(x, k)
    BY <1>2, <2>1, BetweenPoints
  <2>5. \A x \in Int : ~Mid(x) =>
          \/ x <= t[1].processed /\ OriginalTime(x, t) = t[1].original
          \/ t[n].processed <= x /\ OriginalTime(x, t) = t[n].original
    <3>. SUFFICES ASSUME NEW x \in Int, ~Mid(x)
                  PROVE  \/ x <= t[1].processed /\ OriginalTime(x, t) = t[1].original
                         \/ t[n].processed <= x /\ OriginalTime(x, t) = t[n].original
      OBVIOUS
    <3>1. t[1].processed \in Int /\ t[n].processed \in Int
      BY <2>1
    <3>2. CASE x <= t[1].processed
      BY <1>2, <3>2 DEF OriginalTime
    <3>3. CASE ~(x <= t[1].processed)
      <4>1. x >= Last(t).processed
        BY <2>1, <3>1, <3>3
      <4>2. OriginalTime(x, t) = Last(t).original
        BY <1>2, <3>3, <4>1 DEF OriginalTime
      <4>. QED BY <2>1, <3>1, <4>1, <4>2
    <3>. QED BY <3>2, <3>3
  <2>6. \A k \in 2..n : /\ d(k) \in Nat \ {0} /\ h(k) \in Nat
                        /\ t[k - 1].processed \in Int /\ t[k].processed \in Int
                        /\ t[k - 1].original \in Int /\ t[k].original \in Int
    <3>. SUFFICES ASSUME NEW k \in 2..n
                  PROVE  /\ d(k) \in Nat \ {0} /\ h(k) \in Nat
                         /\ t[k - 1].processed \in Int /\ t[k].processed \in Int
                         /\ t[k - 1].original \in Int /\ t[k].original \in Int
      OBVIOUS
    <3>1. k - 1 \in 1..n /\ k \in 1..n /\ k - 1 < k
      BY <2>1
    <3>2. /\ t[k - 1].processed < t[k].processed /\ t[k - 1].original <= t[k].original
      BY <2>2, <2>3, <3>1
    <3>. QED BY <2>1, <3>1, <3>2, SMTT(20)
  <2>7. ASSUME NEW k \in 2..n, NEW x \in Int, NEW y \in Int, In(x, k), In(y, k), x <= y
        PROVE  /\ t[k - 1].original <= v(x, k) /\ v(x, k) <= v(y, k)
               /\ v(y, k) <= t[k].original /\ v(x, k) \in Int /\ v(y, k) \in Int
    <3>. DEFINE dk == d(k)
                hk == h(k)
                xo == x - t[k - 1].processed
                yo == y - t[k - 1].processed
                lo == t[k - 1].original
    <3>1. /\ dk \in Nat \ {0} /\ hk \in Nat /\ xo \in 0..dk /\ yo \in 0..dk /\ xo <= yo
          /\ lo \in Int /\ t[k].original = lo + hk
      <4>1. /\ d(k) \in Nat \ {0} /\ h(k) \in Nat
            /\ t[k - 1].processed \in Int /\ t[k].processed \in Int
            /\ t[k - 1].original \in Int /\ t[k].original \in Int
        BY <2>6
      <4>2. xo \in 0..dk /\ yo \in 0..dk /\ xo <= yo
        <5>. DEFINE p == t[k - 1].processed
                    q == t[k].processed
        <5>1. p \in Int /\ q \in Int /\ p < x /\ x <= q /\ p < y /\ y <= q /\ x <= y
          BY <2>7, <4>1
        <5>. HIDE DEF p, q
        <5>2. x - p \in 0..(q - p) /\ y - p \in 0..(q - p) /\ x - p <= y - p
          BY <5>1
        <5>. QED BY <5>2 DEF p, q
      <4>3. t[k].original = lo + hk
        <5>. DEFINE p == t[k - 1].original
                    q == t[k].original
        <5>1. p \in Int /\ q \in Int
          BY <4>1
        <5>. HIDE DEF p, q
        <5>2. q = p + (q - p)
          BY <5>1
        <5>. QED BY <5>2 DEF p, q
      <4>. QED BY <4>1, <4>2, <4>3
    <3>2. v(x, k) = lo + (xo * hk) \div dk /\ v(y, k) = lo + (yo * hk) \div dk
      OBVIOUS
    <3>. HIDE DEF dk, hk, xo, yo, lo, v
    <3>3. /\ (xo * hk) \div dk \in 0..hk /\ (yo * hk) \div dk \in 0..hk
          /\ (xo * hk) \div dk <= (yo * hk) \div dk
      BY <3>1, Interpolated
    <3>4. /\ lo <= v(x, k) /\ v(x, k) <= v(y, k) /\ v(y, k) <= lo + hk
          /\ v(x, k) \in Int /\ v(y, k) \in Int
      BY <3>1, <3>2, <3>3
    <3>. QED BY <3>1, <3>4 DEF lo
  <2>. HIDE DEF v, d, h
  <2>8. CASE Mid(a) /\ Mid(b)
    <3>1. PICK k \in 2..n : In(a, k) /\ OriginalTime(a, t) = v(a, k)
      BY <2>4, <2>8
    <3>2. PICK m \in 2..n : In(b, m) /\ OriginalTime(b, t) = v(b, m)
      BY <2>4, <2>8
    <3>3. k <= m
      <4>. SUFFICES ASSUME m < k PROVE FALSE
        OBVIOUS
      <4>1. m \in 1..n /\ k - 1 \in 1..n /\ (m = k - 1 \/ m < k - 1)
        OBVIOUS
      <4>2. t[m].processed <= t[k - 1].processed
        BY <2>1, <2>3, <4>1
      <4>3. t[m].processed \in Int /\ t[k - 1].processed \in Int
        BY <2>1, <4>1
      <4>. QED BY <3>1, <3>2, <4>2, <4>3
    <3>4. CASE k = m
      BY <2>7, <3>1, <3>2, <3>4
    <3>5. CASE k < m
      <4>1. /\ v(a, k) <= t[k].original /\ v(a, k) \in Int
            /\ t[m - 1].original <= v(b, m) /\ v(b, m) \in Int
        <5>1. a <= a /\ b <= b
          OBVIOUS
        <5>. HIDE DEF In
        <5>2. v(a, k) <= v(a, k) /\ v(a, k) <= t[k].original /\ v(a, k) \in Int
          BY <2>7, <3>1, <5>1
        <5>3. t[m - 1].original <= v(b, m) /\ v(b, m) \in Int
          BY <2>7, <3>2, <5>1
        <5>. QED BY <5>2, <5>3
      <4>2. k \in 1..n /\ m - 1 \in 1..n /\ k <= m - 1
        BY <3>5
      <4>3. /\ t[k].original <= t[m - 1].original
            /\ t[k].original \in Int /\ t[m - 1].original \in Int
        BY <2>1, <2>2, <4>2
      <4>. QED BY <3>1, <3>2, <4>1, <4>3
    <3>. QED BY <3>3, <3>4, <3>5
  <2>9. \A x \in Int : Mid(x) => /\ t[1].original <= OriginalTime(x, t)
                                 /\ OriginalTime(x, t) <= t[n].original
                                 /\ OriginalTime(x, t) \in Int
    <3>. SUFFICES ASSUME NEW x \in Int, Mid(x)
                  PROVE  /\ t[1].original <= OriginalTime(x, t)
                         /\ OriginalTime(x, t) <= t[n].original
                         /\ OriginalTime(x, t) \in Int
      OBVIOUS
    <3>1. PICK k \in 2..n : In(x, k) /\ OriginalTime(x, t) = v(x, k)
      BY <2>4
    <3>2. /\ t[k - 1].original <= v(x, k) /\ v(x, k) <= t[k].original /\ v(x, k) \in Int
      <4>1. x <= x
        OBVIOUS
      <4>. HIDE DEF In
      <4>. QED BY <2>7, <3>1, <4>1
    <3>3. k - 1 \in 1..n /\ k \in 1..n /\ 1 \in 1..n /\ n \in 1..n /\ 1 <= k - 1 /\ k <= n
      BY <2>1
    <3>4. /\ t[1].original <= t[k - 1].original /\ t[k].original <= t[n].original
          /\ t[1].original \in Int /\ t[n].original \in Int
          /\ t[k - 1].original \in Int /\ t[k].original \in Int
      BY <2>1, <2>2, <3>3
    <3>. QED BY <3>1, <3>2, <3>4
  <2>10. 1 \in 1..n /\ n \in 1..n /\ 1 <= n
    BY <2>1
  <2>11. /\ t[1].processed \in Int /\ t[n].processed \in Int
         /\ t[1].original \in Int /\ t[n].original \in Int
         /\ t[1].original <= t[n].original /\ t[1].processed <= t[n].processed
    BY <2>1, <2>2, <2>3, <2>10
  <2>12. CASE Mid(a) /\ ~Mid(b)
    BY <2>5, <2>9, <2>11, <2>12
  <2>13. CASE ~Mid(a) /\ Mid(b)
    BY <2>5, <2>9, <2>11, <2>13
  <2>14. CASE ~Mid(a) /\ ~Mid(b)
    <3>1. \/ a <= t[1].processed /\ OriginalTime(a, t) = t[1].original
          \/ t[n].processed <= a /\ OriginalTime(a, t) = t[n].original
      BY <2>5, <2>14
    <3>2. \/ b <= t[1].processed /\ OriginalTime(b, t) = t[1].original
          \/ t[n].processed <= b /\ OriginalTime(b, t) = t[n].original
      BY <2>5, <2>14
    <3>3. CASE n = 1
      BY <2>11, <3>1, <3>2, <3>3
    <3>4. CASE n # 1
      <4>1. t[1].processed < t[n].processed
        <5>1. 1 < n
          <6>1. n \in Nat /\ 1 <= n
            BY <2>1
          <6>. HIDE DEF n
          <6>. QED BY <3>4, <6>1
        <5>. QED BY <2>3, <2>10, <5>1
      <4>. QED BY <2>11, <3>1, <3>2, <4>1
    <3>. QED BY <3>3, <3>4
  <2>. QED BY <2>8, <2>12, <2>13, <2>14
<1>. QED BY <1>1, <1>2

\* Two of some points with none between them, each the least at its time: from
\* the first to the second the table moves evenly.
Row(R, lo, up) ==
  /\ lo \in R /\ up \in R /\ lo.processed <= up.processed
  /\ \A q \in R : /\ q.processed <= lo.processed \/ up.processed <= q.processed
                  /\ q.processed = lo.processed => lo.original <= q.original
                  /\ lo.processed < up.processed /\ q.processed = up.processed
                       => up.original <= q.original

\* A point of a table is mapped to its original time.
LEMMA AtRow ==
  ASSUME NEW t, IsTable(t), NEW j \in 1..Len(t)
  PROVE  OriginalTime(t[j].processed, t) = t[j].original
<1>. DEFINE n == Len(t)
            x == t[j].processed
<1>1. /\ t \in Seq(Points) /\ n \in Nat \ {0} /\ t # <<>> /\ Last(t) = t[n]
      /\ \A i \in 1..n : t[i].processed \in Int /\ t[i].original \in Int
  <2>1. t \in Seq(Points)
    BY DEF IsTable
  <2>2. \A i \in 1..n : t[i] \in Points
    BY <2>1
  <2>3. \A i \in 1..n : t[i].processed \in Int /\ t[i].original \in Int
    BY <2>2 DEF Points
  <2>4. n \in Nat \ {0} /\ t # <<>>
    BY <2>1
  <2>. QED BY <2>1, <2>3, <2>4 DEF Last
<1>2. \A i, k \in 1..n : i < k => t[i].processed < t[k].processed
  BY DEF IsTable
<1>3. CASE j = 1
  <2>1. x = t[1].processed /\ x \in Int /\ t[j].original = t[1].original
    BY <1>1, <1>3
  <2>. HIDE DEF x
  <2>2. x <= t[1].processed
    BY <2>1
  <2>3. OriginalTime(x, t) = t[1].original
    BY <1>1, <2>2 DEF OriginalTime
  <2>. QED BY <2>1, <2>3 DEF x
<1>4. CASE j # 1 /\ j = n
  <2>1. ~(x <= t[1].processed) /\ x >= Last(t).processed
    BY <1>1, <1>2, <1>4
  <2>2. Last(t).original = t[j].original
    BY <1>1, <1>4
  <2>. HIDE DEF x
  <2>3. OriginalTime(x, t) = Last(t).original
    BY <1>1, <2>1 DEF OriginalTime
  <2>. QED BY <2>2, <2>3 DEF x
<1>5. CASE j # 1 /\ j # n
  <2>1. t[1].processed < x /\ x < Last(t).processed /\ x \in Int
    BY <1>1, <1>2, <1>5
  <2>. HIDE DEF x
  <2>2. PICK k \in 2..n :
          /\ t[k - 1].processed < x /\ x <= t[k].processed
          /\ OriginalTime(x, t)
               = t[k - 1].original + ((x - t[k - 1].processed)
                   * (t[k].original - t[k - 1].original))
                     \div (t[k].processed - t[k - 1].processed)
    BY <1>1, <2>1, BetweenPoints
  <2>3. k - 1 \in 1..n /\ k \in 1..n /\ k - 1 < k
    BY <1>1, <2>2
  <2>4. ~(k < j) /\ ~(j <= k - 1)
    <3>1. k < j => t[k].processed < x
      BY <1>2, <2>3 DEF x
    <3>2. j < k - 1 => x < t[k - 1].processed
      BY <1>2, <2>3 DEF x
    <3>3. j = k - 1 => x = t[k - 1].processed
      BY DEF x
    <3>. QED BY <1>1, <2>1, <2>2, <2>3, <3>1, <3>2, <3>3, SMTT(30)
  <2>5. k = j
    BY <1>1, <2>3, <2>4
  <2>. DEFINE lo == t[k - 1]
              d == t[k].processed - lo.processed
              h == t[k].original - lo.original
  <2>6. d \in Nat \ {0} /\ h \in Nat /\ x - lo.processed = d /\ t[k].original = lo.original + h
    <3>1. lo.processed < t[k].processed /\ lo.original <= t[k].original
      BY <2>3 DEF IsTable
    <3>2. lo.processed \in Int /\ lo.original \in Int /\ t[k].processed \in Int
            /\ t[k].original \in Int
      BY <1>1, <2>3
    <3>3. x = t[k].processed
      BY <2>5 DEF x
    <3>. HIDE DEF lo
    <3>. QED BY <3>1, <3>2, <3>3
  <2>7. OriginalTime(x, t) = lo.original + ((x - lo.processed) * h) \div d
    BY <2>2
  <2>. HIDE DEF d, h, lo
  <2>8. 0 \in 0..d /\ (d * h) \div d = h
    <3>1. 0 \in 0..d
      BY <2>6
    <3>. QED BY <2>6, <3>1, Interpolated
  <2>9. OriginalTime(x, t) = t[k].original
    BY <2>6, <2>7, <2>8
  <2>. QED BY <2>5, <2>9 DEF x
<1>. QED BY <1>3, <1>4, <1>5

\* An interval that the mapping stretches by e keeps its times, and delays none
\* of them by more.
LEMMA Stretched ==
  ASSUME NEW d \in Nat \ {0}, NEW e \in Nat, NEW u \in 0..d
  PROVE  (u * (d + e)) \div d \in u..(u + e)
<1>. DEFINE a == u * d
            b == u * (d + e)
            c == (u + e) * d
<1>1. u \in Nat /\ d - u \in Nat
  OBVIOUS
<1>2. \A x, y \in Nat : x * y \in Nat
  OBVIOUS
<1>3. u * e \in Nat /\ (d - u) * e \in Nat /\ u * d \in Nat /\ e * d \in Nat
  BY <1>1, <1>2
<1>4. b = a + u * e /\ c = a + e * d /\ (d - u) * e = e * d - u * e
  BY <1>1
<1>5. a \in Int /\ b \in Int /\ c \in Int /\ a <= b /\ b <= c
  BY <1>3, <1>4
<1>6. a \div d = u /\ c \div d = u + e
  <2>1. \A h \in Nat : (d * h) \div d = h
    <3>1. 0 \in 0..d
      OBVIOUS
    <3>. QED BY <3>1, Interpolated
  <2>2. u + e \in Nat /\ a = d * u /\ c = d * (u + e)
    BY <1>1
  <2>. QED BY <1>1, <2>1, <2>2
<1>. HIDE DEF a, b, c
<1>7. a \div d <= b \div d /\ b \div d <= c \div d /\ b \div d \in Int
  BY <1>5, DivisionKeepsOrder
<1>8. b \div d \in u..(u + e)
  BY <1>6, <1>7
<1>. QED BY <1>8 DEF b

\* Between the two points times are kept but for what the table stretches them.
LEMMA RowIsRead ==
  ASSUME NEW t, IsTable(t), NEW R \in SUBSET Points, Holds(t, R),
         NEW lo, NEW up, Row(R, lo, up),
         NEW e \in Nat, up.original - lo.original = (up.processed - lo.processed) + e,
         NEW x \in lo.processed..up.processed
  PROVE  /\ OriginalTime(x, t) \in Int
         /\ OriginalTime(x, t) - lo.original - (x - lo.processed) \in 0..e
<1>. DEFINE n == Len(t)
<1>1. /\ t \in Seq(Points) /\ n \in Nat
      /\ \A i \in 1..n : t[i].processed \in Int /\ t[i].original \in Int
  <2>1. t \in Seq(Points)
    BY DEF IsTable
  <2>2. \A i \in 1..n : t[i] \in Points
    BY <2>1
  <2>. QED BY <2>1, <2>2 DEF Points
<1>2. \A i, k \in 1..n : i < k => t[i].processed < t[k].processed
  BY DEF IsTable
<1>3. /\ lo \in R /\ up \in R /\ lo.processed <= up.processed
      /\ lo.processed \in Int /\ lo.original \in Int
      /\ up.processed \in Int /\ up.original \in Int /\ x \in Int
      /\ lo.processed <= x /\ x <= up.processed
  <2>1. lo \in Points /\ up \in Points /\ lo \in R /\ up \in R /\ lo.processed <= up.processed
    BY DEF Row
  <2>2. /\ lo.processed \in Int /\ lo.original \in Int
        /\ up.processed \in Int /\ up.original \in Int
    BY <2>1 DEF Points
  <2>. QED BY <2>1, <2>2
<1>4. PICK a \in 1..n : t[a].processed = lo.processed /\ t[a].original = lo.original
  <2>1. PICK a \in 1..n : t[a].processed = lo.processed
    BY <1>3 DEF Holds
  <2>2. t[a].original <= lo.original /\ lo.original <= t[a].original
    BY <1>3, <2>1 DEF Holds, Row
  <2>. QED BY <1>1, <1>3, <2>1, <2>2
<1>5. CASE x = lo.processed
  <2>1. OriginalTime(x, t) = lo.original
    BY <1>4, <1>5, AtRow
  <2>. QED BY <1>3, <1>5, <2>1
<1>6. ASSUME x # lo.processed
      PROVE  \E b \in 1..n : t[b].processed = up.processed /\ t[b].original = up.original
  <2>1. PICK b \in 1..n : t[b].processed = up.processed
    BY <1>3 DEF Holds
  <2>2. lo.processed < up.processed
    BY <1>3, <1>6
  <2>3. t[b].original <= up.original /\ up.original <= t[b].original
    BY <1>3, <2>1, <2>2 DEF Holds, Row
  <2>. QED BY <1>1, <1>3, <2>1, <2>3
<1>7. CASE x # lo.processed /\ x = up.processed
  <2>1. OriginalTime(x, t) = up.original
    BY <1>6, <1>7, AtRow
  <2>. QED BY <1>3, <1>7, <2>1
<1>8. CASE x # lo.processed /\ x # up.processed
  <2>1. PICK b \in 1..n : t[b].processed = up.processed /\ t[b].original = up.original
    BY <1>6, <1>8
  <2>2. lo.processed < x /\ x < up.processed
    BY <1>3, <1>8
  <2>3. t # <<>> /\ Last(t) = t[n] /\ 1 \in 1..n /\ n \in 1..n
    BY <1>1, <1>4 DEF Last
  <2>4. t[1].processed < x /\ x < Last(t).processed
    <3>1. t[1].processed <= lo.processed
      BY <1>1, <1>2, <1>4, <2>3
    <3>2. up.processed <= t[n].processed
      BY <1>1, <1>2, <2>1, <2>3
    <3>3. t[1].processed \in Int /\ t[n].processed \in Int
      BY <1>1, <2>3
    <3>4. t[1].processed < x /\ x < t[n].processed
      BY <1>3, <2>2, <3>1, <3>2, <3>3
    <3>. QED BY <2>3, <3>4
  <2>5. PICK k \in 2..n :
          /\ t[k - 1].processed < x /\ x <= t[k].processed
          /\ OriginalTime(x, t)
               = t[k - 1].original + ((x - t[k - 1].processed)
                   * (t[k].original - t[k - 1].original))
                     \div (t[k].processed - t[k - 1].processed)
    BY <1>3, <2>3, <2>4, BetweenPoints
  <2>. DEFINE j == k - 1
  <2>6. j \in 1..n /\ k \in 1..n /\ j < k
    BY <1>1, <2>5
  <2>7. t[j] \in R /\ t[k] \in R
    BY <2>6 DEF Holds
  <2>8. t[j].processed < x /\ x <= t[k].processed
    BY <2>5
  <2>. HIDE DEF j
  <2>9. t[j].processed <= lo.processed /\ up.processed <= t[k].processed
    <3>1. /\ t[j].processed <= lo.processed \/ up.processed <= t[j].processed
          /\ t[k].processed <= lo.processed \/ up.processed <= t[k].processed
      BY <2>7 DEF Row
    <3>. QED BY <1>1, <1>3, <2>2, <2>6, <2>8, <3>1
  <2>10. j = a
    <3>1. ~(a < j)
      BY <1>1, <1>2, <1>3, <1>4, <2>6, <2>9
    <3>2. ~(k < a) /\ k # a
      <4>1. lo.processed < t[k].processed
        <5>1. t[k].processed \in Int
          BY <1>1, <2>6
        <5>. QED BY <1>3, <2>2, <2>8, <5>1
      <4>2. k # a
        BY <1>3, <1>4, <4>1
      <4>3. k < a => t[k].processed < lo.processed
        BY <1>2, <1>4, <2>6
      <4>4. ~(k < a)
        <5>1. t[k].processed \in Int
          BY <1>1, <2>6
        <5>. QED BY <1>3, <4>1, <4>3, <5>1
      <4>. QED BY <4>2, <4>4
    <3>3. k = j + 1
      BY <2>5 DEF j
    <3>. QED BY <1>1, <2>6, <3>1, <3>2, <3>3
  <2>11. k = b
    <3>1. ~(b < k) \/ b <= j
      BY <1>1, <2>5, <2>6 DEF j
    <3>2. b # j /\ ~(b < j)
      BY <1>1, <1>2, <1>3, <2>1, <2>2, <2>6, <2>8, SMTT(30)
    <3>3. ~(k < b)
      BY <1>1, <1>2, <1>3, <2>1, <2>6, <2>9
    <3>. QED BY <1>1, <2>1, <2>6, <3>1, <3>2, <3>3
  <2>. DEFINE d == up.processed - lo.processed
              u == x - lo.processed
  <2>12. OriginalTime(x, t)
           = lo.original + (u * (up.original - lo.original)) \div d
    BY <1>4, <2>1, <2>5, <2>10, <2>11 DEF j
  <2>13. /\ d \in Nat \ {0} /\ u \in 0..d /\ up.original - lo.original = d + e
    <3>. DEFINE p == lo.processed
                q == up.processed
    <3>1. p \in Int /\ q \in Int /\ x \in Int /\ p < x /\ x < q
      BY <1>3, <2>2
    <3>2. up.original - lo.original = d + e
      OBVIOUS
    <3>. HIDE DEF p, q
    <3>3. q - p \in Nat \ {0} /\ x - p \in 0..(q - p)
      BY <3>1
    <3>. QED BY <3>2, <3>3 DEF p, q
  <2>16. u \in Int /\ u = x - lo.processed
    BY <2>13
  <2>. HIDE DEF d, u
  <2>14. (u * (d + e)) \div d \in u..(u + e)
    BY <2>13, Stretched
  <2>. DEFINE v == (u * (d + e)) \div d
  <2>15. OriginalTime(x, t) = lo.original + v /\ v \in u..(u + e)
    BY <2>12, <2>13, <2>14
  <2>. HIDE DEF v
  <2>. DEFINE o == OriginalTime(x, t)
              l == lo.original
  <2>17. l \in Int /\ o = l + v /\ v \in u..(u + e)
    BY <1>3, <2>15
  <2>. HIDE DEF o, l
  <2>18. o \in Int /\ o - l - u \in 0..e
    BY <2>16, <2>17
  <2>. QED BY <2>16, <2>18 DEF o, l
<1>. QED BY <1>5, <1>7, <1>8

-------------------------------------------------------------------------------
(* The table inverts what was cut.                                            *)

\* Segments that are not lost in the rounding, begin in the audio, and end no
\* later than its last window, rounded, does.
Crisp(segs, n) ==
  \A i \in 1..Len(segs) :
    /\ segs[i].start < segs[i].end /\ CsToSamples(segs[i].start) <= n - 1
    /\ 2 * CsToSamples(segs[i].end) <= 2 * (n - 1) + 2 * VadWindow + SamplesPerCs

\* The points of a part: the times of its begin, and one at its end that is late
\* by no more than slack.
InRow(R, q, slack) ==
  \E up \in R, e \in 0..slack :
    /\ up.processed = SamplesToCs(q.at + q.len)
    /\ up.original - SamplesToCs(q.from) = (up.processed - SamplesToCs(q.at)) + e
    /\ Row(R, Point(SamplesToCs(q.at), SamplesToCs(q.from)), up)

\* What is copied ahead of segment i: all parts lie ahead of the place where it
\* will be put, and whatever point is there already says when it begins.
Kept(f, segs, i) ==
  /\ f.len \in Nat
  /\ \A k \in 1..Len(f.parts) :
       /\ InRow(Range(f.points), f.parts[k],
                IF k = Len(f.parts) /\ i > Len(segs) THEN Slack ELSE 0)
       /\ i <= Len(segs) => SamplesToCs(f.parts[k].at + f.parts[k].len) < SamplesToCs(f.len)
  /\ i <= Len(segs) => \A q \in Range(f.points) :
       /\ q.processed <= SamplesToCs(f.len)
       /\ q.processed = SamplesToCs(f.len) => segs[i].start <= q.original

LEMMA PointFields ==
  ASSUME NEW a \in Int, NEW b \in Int
  PROVE  Point(a, b) \in Points /\ Point(a, b).processed = a /\ Point(a, b).original = b
BY DEF Point, Points

LEMMA RangeOfJoin ==
  ASSUME NEW S, NEW a \in Seq(S), NEW b \in Seq(S)
  PROVE  Range(a \o b) = Range(a) \cup Range(b)
<1>. DEFINE m == Len(a)
            n == Len(b)
            r == a \o b
<1>1. /\ m \in Nat /\ n \in Nat /\ DOMAIN a = 1..m /\ DOMAIN b = 1..n /\ DOMAIN r = 1..(m + n)
      /\ \A j \in 1..m : r[j] = a[j]
      /\ \A j \in 1..n : r[m + j] = b[j]
  OBVIOUS
<1>. HIDE DEF m, n, r
<1>2. ASSUME NEW x \in Range(r) PROVE x \in Range(a) \cup Range(b)
  <2>1. PICK j \in 1..(m + n) : x = r[j]
    BY <1>1 DEF Range
  <2>2. CASE j <= m
    <3>1. j \in 1..m
      BY <1>1, <2>2
    <3>. QED BY <1>1, <2>1, <3>1 DEF Range
  <2>3. CASE ~(j <= m)
    <3>. DEFINE i == j - m
    <3>1. i \in 1..n /\ m + i = j
      BY <1>1, <2>3
    <3>. HIDE DEF i
    <3>. QED BY <1>1, <2>1, <3>1 DEF Range
  <2>. QED BY <2>2, <2>3
<1>3. ASSUME NEW x \in Range(a) PROVE x \in Range(r)
  <2>1. PICK j \in 1..m : x = a[j]
    BY <1>1 DEF Range
  <2>2. j \in 1..(m + n) /\ r[j] = x
    BY <1>1, <2>1
  <2>. QED BY <1>1, <2>2 DEF Range
<1>4. ASSUME NEW x \in Range(b) PROVE x \in Range(r)
  <2>1. PICK j \in 1..n : x = b[j]
    BY <1>1 DEF Range
  <2>2. m + j \in 1..(m + n) /\ r[m + j] = x
    BY <1>1, <2>1
  <2>. QED BY <1>1, <2>2 DEF Range
<1>. QED BY <1>2, <1>3, <1>4 DEF r

\* Later points leave two points neighbours.
LEMMA RowStays ==
  ASSUME NEW R \in SUBSET Points, NEW N \in SUBSET Points, NEW lo, NEW up, Row(R, lo, up),
         \A q \in N : up.processed < q.processed
  PROVE  Row(R \cup N, lo, up)
<1>1. lo \in Points /\ up \in Points /\ lo.processed <= up.processed
  BY DEF Row
<1>2. \A q \in Points : q.processed \in Int
  BY DEF Points
<1>3. \A q \in N : /\ up.processed <= q.processed /\ q.processed # lo.processed
                   /\ q.processed # up.processed
  BY <1>1, <1>2
<1>. QED BY <1>3 DEF Row

LEMMA PartStays ==
  ASSUME NEW R \in SUBSET Points, NEW N \in SUBSET Points, NEW q, NEW slack, InRow(R, q, slack),
         \A p \in N : SamplesToCs(q.at + q.len) < p.processed
  PROVE  InRow(R \cup N, q, slack)
BY RowStays DEF InRow

\* The two points of a part that is put behind all points there are.
LEMMA NewRow ==
  ASSUME NEW R \in SUBSET Points, NEW N \in SUBSET Points,
         NEW c1 \in Int, NEW c2 \in Int, NEW s \in Int, NEW e \in Int, c1 < c2, s <= e,
         \A q \in R : q.processed <= c1 /\ (q.processed = c1 => s <= q.original),
         \A q \in N : c2 <= q.processed /\ (q.processed = c2 => e <= q.original)
  PROVE  Row(R \cup {Point(c1, s), Point(c2, e)} \cup N, Point(c1, s), Point(c2, e))
<1>1. /\ Point(c1, s).processed = c1 /\ Point(c1, s).original = s
      /\ Point(c2, e).processed = c2 /\ Point(c2, e).original = e
  BY PointFields
<1>2. \A q \in Points : q.processed \in Int /\ q.original \in Int
  BY DEF Points
<1>. DEFINE lo == Point(c1, s)
            up == Point(c2, e)
            all == R \cup {lo, up} \cup N
<1>3. lo.processed = c1 /\ lo.original = s /\ up.processed = c2 /\ up.original = e
  BY <1>1
<1>. HIDE DEF lo, up
<1>4. ASSUME NEW q \in all
      PROVE  /\ q.processed <= c1 \/ c2 <= q.processed
             /\ q.processed = c1 => s <= q.original
             /\ q.processed = c2 => e <= q.original
  <2>1. CASE q \in R
    BY <1>2, <2>1
  <2>2. CASE q \in N
    BY <1>2, <2>2
  <2>3. CASE q = lo
    BY <1>3, <2>3
  <2>4. CASE q = up
    BY <1>3, <2>4
  <2>. QED BY <2>1, <2>2, <2>3, <2>4
<1>5. Row(all, lo, up)
  BY <1>3, <1>4 DEF Row
<1>. QED BY <1>5 DEF lo, up

\* A part too short for a time of its own: what is there first is its begin.
LEMMA NewPoint ==
  ASSUME NEW R \in SUBSET Points, NEW c \in Int, NEW s \in Int, NEW e \in Int, s <= e,
         \A q \in R : q.processed <= c /\ (q.processed = c => s <= q.original)
  PROVE  Row(R \cup {Point(c, s), Point(c, e)}, Point(c, s), Point(c, s))
<1>1. /\ Point(c, s).processed = c /\ Point(c, s).original = s
      /\ Point(c, e).processed = c /\ Point(c, e).original = e
  BY PointFields
<1>. DEFINE lo == Point(c, s)
            up == Point(c, e)
            all == R \cup {lo, up}
<1>2. lo.processed = c /\ lo.original = s /\ up.processed = c /\ up.original = e
  BY <1>1
<1>. HIDE DEF lo, up
<1>3. ASSUME NEW q \in all
      PROVE  q.processed <= c /\ (q.processed = c => s <= q.original)
  BY <1>2
<1>4. Row(all, lo, lo)
  BY <1>2, <1>3 DEF Row
<1>. QED BY <1>4 DEF lo, up

\* The slack is what the last window and the rounding can take.
LEMMA SlackCovers ==
  ASSUME NEW y \in Int, 2 * y <= 2 * VadWindow + SamplesPerCs
  PROVE  Slack \in Nat /\ y <= Slack * SamplesPerCs
<1>1. SamplesPerCs \in Nat \ {0} /\ VadWindow \in Nat
  BY VadAssumption DEF VadAssumption
<1>. DEFINE z == 2 * VadWindow + 3 * SamplesPerCs - 1
            d == 2 * SamplesPerCs
            k == z \div d
<1>2. z \in Nat /\ d \in Nat \ {0}
  BY <1>1
<1>3. Slack = k
  BY DEF Slack
<1>. HIDE DEF z, d
<1>4. k \in Nat /\ z < d * k + d
  BY <1>2
<1>. HIDE DEF k
<1>5. d * k = 2 * (k * SamplesPerCs) /\ k * SamplesPerCs \in Int
  BY <1>1, <1>4 DEF d
<1>. DEFINE m == k * SamplesPerCs
<1>6. 2 * VadWindow + 3 * SamplesPerCs - 1 < 2 * m + 2 * SamplesPerCs /\ m \in Int
  BY <1>4, <1>5 DEF z, d
<1>. HIDE DEF m
<1>7. y <= m
  BY <1>1, <1>6
<1>. QED BY <1>3, <1>4, <1>7 DEF m

\* A part that is cut out from s to e, and begins at len: where it begins is not
\* lost, and its length in the new audio is the segment's but for the slack.
Cut(s, e, n, len, from, to) ==
  /\ from \in Int /\ to \in Int /\ from <= to /\ SamplesToCs(from) = s
  /\ CsToSamples(e) <= n - 1 =>
       from < to /\ SamplesToCs(len + (to - from)) = SamplesToCs(len) + (e - s)
  /\ \E k \in 0..Slack : SamplesToCs(len + (to - from)) + k = SamplesToCs(len) + (e - s)

LEMMA CutOut ==
  ASSUME NEW s \in Int, NEW e \in Int, NEW n \in Int, NEW len \in Int, s < e,
         CsToSamples(s) <= n - 1,
         2 * CsToSamples(e) <= 2 * (n - 1) + 2 * VadWindow + SamplesPerCs,
         NEW from, from = AtMost(CsToSamples(s), n - 1),
         NEW to, to = AtMost(CsToSamples(e), n - 1)
  PROVE  Cut(s, e, n, len, from, to)
<1>. DEFINE a == CsToSamples(s)
            b == CsToSamples(e)
            L == (e - s) * SamplesPerCs
            c == SamplesToCs(len)
            c2 == SamplesToCs(len + (to - from))
<1>1. SamplesPerCs \in Nat \ {0}
  BY VadAssumption DEF VadAssumption
<1>2. a \in Int /\ b \in Int /\ b - a = L /\ L \in Int /\ 0 < L
  <2>1. (e - s) \in Nat \ {0}
    OBVIOUS
  <2>2. L \in Int /\ 0 < L
    BY <1>1, <2>1
  <2>3. e * SamplesPerCs - s * SamplesPerCs = (e - s) * SamplesPerCs
    BY <1>1
  <2>4. e * SamplesPerCs \in Int /\ s * SamplesPerCs \in Int
    BY <1>1
  <2>. QED BY <2>2, <2>3, <2>4 DEF CsToSamples
<1>3. SamplesToCs(a) = s
  BY LaterByCs
<1>. HIDE DEF a, b, L
<1>4. from = a /\ to \in Int /\ from <= to /\ (b <= n - 1 => to = b)
  <2>1. a <= n - 1 /\ from = AtMost(a, n - 1) /\ to = AtMost(b, n - 1)
    BY DEF a, b
  <2>. QED BY <1>2, <2>1 DEF AtMost
<1>5. SamplesToCs(len + L) = c + (e - s)
  BY LaterByCs DEF L
<1>6. b <= n - 1 => from < to /\ c2 = c + (e - s)
  <2>. SUFFICES ASSUME b <= n - 1 PROVE from < to /\ c2 = c + (e - s)
    OBVIOUS
  <2>1. to - from = L /\ from < to
    BY <1>2, <1>4
  <2>. QED BY <1>5, <2>1
<1>7. c2 \in Int /\ c \in Int
  <2>1. len + (to - from) \in Int
    BY <1>2, <1>4
  <2>. QED BY <2>1, NumbersOfSound
<1>8. Slack \in Nat
  BY <1>1, VadAssumption, SlackCovers DEF VadAssumption
<1>9. c2 <= c + (e - s) /\ c + (e - s) <= c2 + Slack
  <2>1. CASE b <= n - 1
    <3>. HIDE DEF c, c2
    <3>. QED BY <1>6, <1>7, <1>8, <2>1
  <2>2. CASE ~(b <= n - 1)
    <3>. DEFINE y == b - (n - 1)
                x == len + L
    <3>1. to = n - 1
      BY <1>2, <2>2 DEF AtMost, b
    <3>2. /\ y \in Int /\ x \in Int /\ 0 <= y /\ x - y = len + (to - from)
          /\ 2 * b <= 2 * (n - 1) + 2 * VadWindow + SamplesPerCs
      BY <1>2, <1>4, <2>2, <3>1 DEF b
    <3>3. 2 * y <= 2 * VadWindow + SamplesPerCs
      BY <1>1, <1>2, <3>2, VadAssumption DEF VadAssumption
    <3>. HIDE DEF y
    <3>4. y <= Slack * SamplesPerCs /\ Slack * SamplesPerCs \in Int
      BY <1>1, <1>8, <3>2, <3>3, SlackCovers
    <3>. DEFINE w == Slack * SamplesPerCs
                z == x - y
    <3>. HIDE DEF x
    <3>5. z \in Int /\ z <= x /\ x <= z + w
      <4>. HIDE DEF w
      <4>. QED BY <3>2, <3>4 DEF w
    <3>. HIDE DEF z
    <3>6. SamplesToCs(z) <= SamplesToCs(x) /\ SamplesToCs(x) <= SamplesToCs(z + w)
      <4>1. w \in Int
        BY <3>4
      <4>. HIDE DEF w
      <4>. QED BY <3>2, <3>5, <4>1, TimesKeepOrder
    <3>7. SamplesToCs(z + w) = SamplesToCs(z) + Slack
      BY <1>8, <3>5, LaterByCs DEF w
    <3>8. SamplesToCs(z) = c2 /\ SamplesToCs(x) = c + (e - s)
      BY <1>5, <3>2 DEF z, x
    <3>. HIDE DEF w, c, c2
    <3>. QED BY <3>6, <3>7, <3>8
  <2>. QED BY <2>1, <2>2
<1>10. \E k \in 0..Slack : c2 + k = c + (e - s)
  <2>. DEFINE k == c + (e - s) - c2
  <2>. HIDE DEF c, c2
  <2>1. k \in 0..Slack /\ c2 + k = c + (e - s)
    BY <1>7, <1>8, <1>9
  <2>. QED BY <2>1
<1>. QED BY <1>1, <1>2, <1>3, <1>4, <1>6, <1>10 DEF b, Cut

\* A part behind those there are.
LEMMA PartAdded ==
  ASSUME NEW R \in SUBSET Points, NEW N \in SUBSET Points, NEW parts \in Seq(Parts),
         NEW part, NEW slack, NEW c \in Int,
         \A k \in 1..Len(parts) : /\ InRow(R, parts[k], 0)
                                  /\ SamplesToCs(parts[k].at + parts[k].len) < c,
         \A p \in N : c <= p.processed,
         InRow(R \cup N, part, slack)
  PROVE  \A k \in 1..(Len(parts) + 1) :
           InRow(R \cup N, Append(parts, part)[k], IF k = Len(parts) + 1 THEN slack ELSE 0)
<1>1. Append(parts, part)[Len(parts) + 1] = part /\ Len(parts) \in Nat
  OBVIOUS
<1>2. ASSUME NEW k \in 1..Len(parts)
      PROVE  Append(parts, part)[k] = parts[k] /\ InRow(R \cup N, parts[k], 0)
  <2>1. parts[k] \in Parts /\ Append(parts, part)[k] = parts[k]
    OBVIOUS
  <2>. DEFINE q == parts[k]
              x == SamplesToCs(q.at + q.len)
  <2>2. q.at \in Int /\ q.len \in Int
    BY <2>1 DEF Parts
  <2>3. x \in Int /\ x < c /\ InRow(R, q, 0)
    <3>1. x < c /\ InRow(R, q, 0)
      OBVIOUS
    <3>2. q.at + q.len \in Int
      BY <2>2
    <3>. HIDE DEF q
    <3>. QED BY <3>1, <3>2, NumbersOfSound
  <2>. HIDE DEF q
  <2>4. \A p \in N : x < p.processed
    <3>1. \A p \in N : p.processed \in Int
      BY DEF Points
    <3>. HIDE DEF x
    <3>. QED BY <2>3, <3>1
  <2>5. InRow(R \cup N, q, 0)
    BY <2>3, <2>4, PartStays
  <2>. QED BY <2>1, <2>5 DEF q
<1>. QED
  <2>. SUFFICES ASSUME NEW k \in 1..(Len(parts) + 1)
                PROVE  InRow(R \cup N, Append(parts, part)[k],
                             IF k = Len(parts) + 1 THEN slack ELSE 0)
    OBVIOUS
  <2>1. CASE k = Len(parts) + 1
    BY <1>1, <2>1
  <2>2. CASE k # Len(parts) + 1
    <3>1. k \in 1..Len(parts)
      BY <1>1, <2>2
    <3>. QED BY <1>2, <2>2, <3>1
  <2>. QED BY <2>1, <2>2

\* A segment that another one follows.
LEMMA MiddleKept ==
  ASSUME NEW segs \in Seq(Spans), NEW lim, Spaced(segs, lim), NEW n \in Int, Crisp(segs, n),
         NEW i \in 1..(Len(segs) - 1), NEW f \in Copies, Kept(f, segs, i)
  PROVE  Kept(Copied(f, segs, i, n), segs, i + 1)
<1>. DEFINE s     == segs[i].start
            e     == segs[i].end
            next  == segs[i + 1].start
            from  == AtMost(CsToSamples(s), n - 1)
            to    == AtMost(CsToSamples(e), n - 1)
            whole == AtMost(to + Overlap, n - 1)
            after == f.len + (whole - from)
            c     == SamplesToCs(f.len)
            c2    == SamplesToCs(f.len + (to - from))
            c3    == SamplesToCs(after)
            c4    == SamplesToCs(after + Gap)
            part  == [at |-> f.len, from |-> from, len |-> to - from]
            N     == {Point(c3, e), Point(c4, next)}
            two   == <<Point(c, s), Point(c2, e)>>
            more  == <<Point(c3, e), Point(c4, next)>>
            points == f.points \o two \o more
            g     == [len |-> after + Gap, parts |-> Append(f.parts, part), points |-> points]
            R     == Range(f.points)
<1>1. /\ s \in Int /\ e \in Int /\ next \in Int /\ s < e /\ e <= next
      /\ f.len \in Nat /\ f.points \in Seq(Points) /\ f.parts \in Seq(Parts)
      /\ CsToSamples(s) <= n - 1 /\ CsToSamples(next) <= n - 1
      /\ 2 * CsToSamples(e) <= 2 * (n - 1) + 2 * VadWindow + SamplesPerCs
  <2>1. segs[i] \in Spans /\ segs[i + 1] \in Spans /\ i \in 1..Len(segs) /\ i + 1 \in 1..Len(segs)
    OBVIOUS
  <2>. QED BY <2>1 DEF Spans, Copies, Spaced, Crisp, Kept
<1>. HIDE DEF s, e, next
<1>2. CsToSamples(e) <= n - 1
  <2>1. CsToSamples(e) <= CsToSamples(next) /\ CsToSamples(e) \in Int /\ CsToSamples(next) \in Int
    BY <1>1, TimesKeepOrder, NumbersOfSound
  <2>. QED BY <1>1, <2>1
<1>3. /\ from \in Int /\ to \in Int /\ from < to /\ SamplesToCs(from) = s
      /\ c2 = c + (e - s)
  <2>1. /\ from = AtMost(CsToSamples(s), n - 1) /\ to = AtMost(CsToSamples(e), n - 1)
        /\ f.len \in Int
    BY <1>1
  <2>. HIDE DEF from, to
  <2>2. Cut(s, e, n, f.len, from, to)
    BY <1>1, <2>1, CutOut
  <2>. QED BY <1>2, <2>2 DEF Cut
<1>4. whole \in Int /\ to <= whole
  <2>1. to <= n - 1 /\ Overlap \in Nat
    BY <1>1, <1>2, VadAssumption DEF VadAssumption, AtMost
  <2>. HIDE DEF to
  <2>. QED BY <1>3, <2>1 DEF AtMost
<1>. HIDE DEF from, to, whole
<1>5. /\ f.len + (to - from) \in Int /\ after \in Nat /\ after + Gap \in Nat
      /\ f.len + (to - from) <= after /\ after + 1 * SamplesPerCs <= after + Gap
      /\ SamplesPerCs \in Nat
  <2>. DEFINE len == f.len
  <2>1. /\ Gap \in Nat /\ SamplesPerCs \in Nat /\ SamplesPerCs <= Gap /\ len \in Nat
        /\ 1 * SamplesPerCs = SamplesPerCs
    BY <1>1, VadAssumption DEF VadAssumption
  <2>. HIDE DEF len
  <2>2. after = len + (whole - from)
    BY DEF len
  <2>. HIDE DEF after
  <2>3. /\ len + (to - from) \in Int /\ after \in Nat /\ after + Gap \in Nat
        /\ len + (to - from) <= after /\ after + SamplesPerCs <= after + Gap
    BY <1>3, <1>4, <2>1, <2>2
  <2>. QED BY <2>1, <2>3 DEF len
<1>. HIDE DEF after
<1>6. /\ c \in Int /\ c2 \in Int /\ c3 \in Int /\ c4 \in Int
      /\ c < c2 /\ c2 <= c3 /\ c3 < c4
  <2>1. c \in Int /\ c2 \in Int /\ c3 \in Int /\ c4 \in Int /\ c2 <= c3
    <3>1. /\ f.len \in Int /\ f.len + (to - from) \in Int /\ after \in Int
          /\ after + Gap \in Int /\ f.len + (to - from) <= after
      BY <1>1, <1>5
    <3>. QED BY <3>1, NumbersOfSound, TimesKeepOrder
  <2>2. SamplesToCs(after + 1 * SamplesPerCs) = c3 + 1
    BY <1>5, LaterByCs
  <2>3. SamplesToCs(after + 1 * SamplesPerCs) <= c4
    <3>1. after + 1 * SamplesPerCs \in Int /\ after + Gap \in Int
      BY <1>5
    <3>. QED BY <1>5, <3>1, TimesKeepOrder
  <2>. HIDE DEF c, c2, c3, c4
  <2>. QED BY <1>1, <1>3, <2>1, <2>2, <2>3
<1>7. /\ part.at = f.len /\ part.from = from /\ part.len = to - from
      /\ SamplesToCs(part.at) = c /\ SamplesToCs(part.from) = s
      /\ SamplesToCs(part.at + part.len) = c2
  BY <1>3
<1>. HIDE DEF part
<1>. DEFINE P1 == Point(c, s)
            P2 == Point(c2, e)
            P3 == Point(c3, e)
            P4 == Point(c4, next)
<1>8. /\ P1 \in Points /\ P1.processed = c /\ P1.original = s
      /\ P2 \in Points /\ P2.processed = c2 /\ P2.original = e
      /\ P3 \in Points /\ P3.processed = c3 /\ P3.original = e
      /\ P4 \in Points /\ P4.processed = c4 /\ P4.original = next
  BY <1>1, <1>6, PointFields
<1>9. R \in SUBSET Points /\ \A q \in R : q.processed <= c /\ (q.processed = c => s <= q.original)
  <2>1. R \in SUBSET Points
    BY <1>1 DEF Range
  <2>2. i <= Len(segs)
    OBVIOUS
  <2>. QED BY <2>1, <2>2 DEF Kept, s, c
<1>10. Row(R \cup {P1, P2} \cup N, P1, P2)
  <2>1. \A q \in N : c2 <= q.processed /\ (q.processed = c2 => e <= q.original)
    <3>1. N = {P3, P4}
      OBVIOUS
    <3>. HIDE DEF N, c, c2, c3, c4, P3, P4
    <3>. QED BY <1>1, <1>6, <1>8, <3>1, SMTT(30)
  <2>2. N \in SUBSET Points
    BY <1>8
  <2>3. c \in Int /\ c2 \in Int /\ s \in Int /\ e \in Int /\ c < c2 /\ s <= e
    <3>. HIDE DEF c, c2
    <3>. QED BY <1>1, <1>6
  <2>. HIDE DEF N, R, c, c2
  <2>. QED BY <1>9, <2>1, <2>2, <2>3, NewRow
<1>. DEFINE M == {P1, P2} \cup N
<1>11. InRow(R \cup M, part, 0)
  <2>. DEFINE zero == 0
  <2>1. Row(R \cup M, P1, P2)
    <3>1. R \cup M = R \cup {P1, P2} \cup N
      OBVIOUS
    <3>. HIDE DEF M, N, R, P1, P2
    <3>. QED BY <1>10, <3>1
  <2>2. P2 \in R \cup M
    OBVIOUS
  <2>3. P2.original - s = (P2.processed - c) + zero /\ zero \in 0..zero
    <3>. HIDE DEF c, c2, P2
    <3>. QED BY <1>1, <1>3, <1>6, <1>8
  <2>4. P1 = Point(SamplesToCs(part.at), SamplesToCs(part.from))
    BY <1>7
  <2>5. P2.processed = SamplesToCs(part.at + part.len)
    BY <1>7, <1>8
  <2>. HIDE DEF M, N, R, P1, P2, zero
  <2>6. InRow(R \cup M, part, zero)
    BY <1>7, <2>1, <2>2, <2>3, <2>4, <2>5 DEF InRow
  <2>. QED BY <2>6 DEF zero
<1>12. \A q \in R \cup M : /\ q.processed <= c4
                           /\ q.processed = c4 => next <= q.original
  <2>1. M = {P1, P2, P3, P4}
    OBVIOUS
  <2>2. \A q \in R : q.processed \in Int /\ q.original \in Int
    BY <1>9 DEF Points
  <2>. HIDE DEF M, R, P1, P2, P3, P4, c, c2, c3, c4
  <2>3. ASSUME NEW q \in M
        PROVE  q.processed <= c4 /\ (q.processed = c4 => next <= q.original)
    <3>1. CASE q = P4
      BY <1>1, <1>6, <1>8, <3>1, SMTT(30)
    <3>2. CASE q = P3
      BY <1>6, <1>8, <3>2
    <3>3. CASE q = P2
      BY <1>6, <1>8, <3>3
    <3>4. CASE q = P1
      BY <1>6, <1>8, <3>4
    <3>. QED BY <2>1, <3>1, <3>2, <3>3, <3>4
  <2>4. \A q \in R : q.processed < c4
    BY <1>6, <1>9, <2>2
  <2>. QED BY <1>6, <2>2, <2>3, <2>4
<1>13. M \in SUBSET Points /\ \A q \in M : c <= q.processed
  <2>1. M = {P1, P2, P3, P4}
    OBVIOUS
  <2>. HIDE DEF M, P1, P2, P3, P4, c, c2, c3, c4
  <2>. QED BY <1>6, <1>8, <2>1
<1>14. points \in Seq(Points) /\ Range(points) = R \cup M
  <2>1. two \in Seq(Points) /\ more \in Seq(Points) /\ Range(two) = {P1, P2} /\ Range(more) = {P3, P4}
    <3>1. two = <<P1, P2>> /\ more = <<P3, P4>>
      OBVIOUS
    <3>. HIDE DEF P1, P2, P3, P4, two, more
    <3>2. <<P1, P2>> \in Seq(Points) /\ <<P3, P4>> \in Seq(Points)
      BY <1>8
    <3>3. \A a, b : Range(<<a, b>>) = {a, b}
      BY DEF Range
    <3>. QED BY <3>1, <3>2, <3>3
  <2>. DEFINE ps == f.points \o two
  <2>. HIDE DEF two, more, P1, P2, P3, P4
  <2>2. ps \in Seq(Points) /\ Range(ps) = R \cup {P1, P2}
    <3>1. f.points \in Seq(Points)
      BY <1>1
    <3>2. Range(ps) = R \cup Range(two)
      BY <2>1, <3>1, RangeOfJoin
    <3>. QED BY <2>1, <3>1, <3>2
  <2>3. points = ps \o more
    OBVIOUS
  <2>. HIDE DEF ps, R, points
  <2>4. ps \o more \in Seq(Points) /\ Range(ps \o more) = Range(ps) \cup Range(more)
    BY <2>1, <2>2, RangeOfJoin
  <2>5. M = {P1, P2} \cup {P3, P4}
    BY DEF P1, P2, P3, P4
  <2>. HIDE DEF M
  <2>. QED BY <2>1, <2>2, <2>3, <2>4, <2>5
<1>. HIDE DEF points
<1>15. \A k \in 1..Len(f.parts) : /\ InRow(R, f.parts[k], 0)
                                  /\ SamplesToCs(f.parts[k].at + f.parts[k].len) < c
  <2>1. i <= Len(segs) /\ ~(i > Len(segs))
    OBVIOUS
  <2>. QED BY <2>1 DEF Kept
<1>16. \A k \in 1..(Len(f.parts) + 1) :
         InRow(R \cup M, Append(f.parts, part)[k], 0)
  <2>. HIDE DEF R, M, c
  <2>1. \A k \in 1..(Len(f.parts) + 1) :
           InRow(R \cup M, Append(f.parts, part)[k], IF k = Len(f.parts) + 1 THEN 0 ELSE 0)
    BY <1>1, <1>6, <1>9, <1>11, <1>13, <1>15, PartAdded
  <2>. QED BY <2>1
<1>17. \A k \in 1..(Len(f.parts) + 1) :
         SamplesToCs(Append(f.parts, part)[k].at + Append(f.parts, part)[k].len) < c4
  <2>. SUFFICES ASSUME NEW k \in 1..(Len(f.parts) + 1)
                PROVE  SamplesToCs(Append(f.parts, part)[k].at + Append(f.parts, part)[k].len) < c4
    OBVIOUS
  <2>1. CASE k = Len(f.parts) + 1
    <3>1. Append(f.parts, part)[k] = part
      BY <1>1, <2>1
    <3>. HIDE DEF c, c2, c3, c4
    <3>. QED BY <1>6, <1>7, <3>1
  <2>2. CASE k # Len(f.parts) + 1
    <3>1. k \in 1..Len(f.parts) /\ Append(f.parts, part)[k] = f.parts[k]
      BY <1>1, <2>2, SMTT(30)
    <3>. DEFINE x == SamplesToCs(f.parts[k].at + f.parts[k].len)
    <3>2. x \in Int
      <4>1. f.parts[k] \in Parts
        BY <1>1, <3>1
      <4>2. f.parts[k].at + f.parts[k].len \in Int
        BY <4>1 DEF Parts
      <4>. QED BY <4>2, NumbersOfSound
    <3>3. x < c
      BY <1>15, <3>1
    <3>. HIDE DEF c, c2, c3, c4
    <3>. QED BY <1>6, <3>1, <3>2, <3>3
  <2>. QED BY <2>1, <2>2
<1>18. Copied(f, segs, i, n) = g
  <2>1. i # Len(segs) /\ ~(whole - from <= 0)
    BY <1>3, <1>4
  <2>. QED BY <2>1 DEF Copied, s, e, next, from, to, whole, after, part, points, g
<1>19. Kept(g, segs, i + 1)
  <2>1. /\ g.len = after + Gap /\ g.parts = Append(f.parts, part) /\ g.points = points
        /\ Len(g.parts) = Len(f.parts) + 1
    BY <1>1
  <2>2. ~(i + 1 > Len(segs)) /\ segs[i + 1].start = next
    BY DEF next
  <2>. HIDE DEF g, R, M
  <2>3. \A k \in 1..Len(g.parts) :
          /\ InRow(Range(g.points), g.parts[k], 0)
          /\ SamplesToCs(g.parts[k].at + g.parts[k].len) < SamplesToCs(g.len)
    BY <1>14, <1>16, <1>17, <2>1
  <2>4. \A q \in Range(g.points) : /\ q.processed <= SamplesToCs(g.len)
                                   /\ q.processed = SamplesToCs(g.len) => next <= q.original
    BY <1>12, <1>14, <2>1
  <2>. QED BY <1>5, <2>1, <2>2, <2>3, <2>4 DEF Kept
<1>. QED BY <1>18, <1>19

\* The last segment, which may be cut short, or lost, where the audio ends.
LEMMA LastKept ==
  ASSUME NEW segs \in Seq(Spans), NEW lim, Spaced(segs, lim), NEW n \in Int, Crisp(segs, n),
         NEW i \in 1..Len(segs), i = Len(segs), NEW f \in Copies, Kept(f, segs, i)
  PROVE  Kept(Copied(f, segs, i, n), segs, i + 1)
<1>. DEFINE s     == segs[i].start
            e     == segs[i].end
            from  == AtMost(CsToSamples(s), n - 1)
            to    == AtMost(CsToSamples(e), n - 1)
            after == f.len + (to - from)
            c     == SamplesToCs(f.len)
            c2    == SamplesToCs(after)
            part  == [at |-> f.len, from |-> from, len |-> to - from]
            two   == <<Point(c, s), Point(c2, e)>>
            points == f.points \o two
            g     == [len |-> after, parts |-> Append(f.parts, part), points |-> points]
            R     == Range(f.points)
<1>1. /\ s \in Int /\ e \in Int /\ s < e
      /\ f.len \in Nat /\ f.points \in Seq(Points) /\ f.parts \in Seq(Parts)
      /\ CsToSamples(s) <= n - 1
      /\ 2 * CsToSamples(e) <= 2 * (n - 1) + 2 * VadWindow + SamplesPerCs
  <2>1. segs[i] \in Spans
    OBVIOUS
  <2>. QED BY <2>1 DEF Spans, Copies, Spaced, Crisp, Kept
<1>2. Slack \in Nat
  BY SlackCovers, VadAssumption DEF VadAssumption
<1>. HIDE DEF s, e
<1>3. Cut(s, e, n, f.len, from, to)
  <2>1. /\ from = AtMost(CsToSamples(s), n - 1) /\ to = AtMost(CsToSamples(e), n - 1)
        /\ f.len \in Int
    BY <1>1
  <2>. HIDE DEF from, to
  <2>. QED BY <1>1, <2>1, CutOut
<1>. HIDE DEF from, to
<1>4. /\ from \in Int /\ to \in Int /\ from <= to /\ SamplesToCs(from) = s
      /\ \E k \in 0..Slack : c2 + k = c + (e - s)
  BY <1>3 DEF Cut
<1>5. PICK a \in 0..Slack : c2 + a = c + (e - s)
  BY <1>4
<1>6. after \in Nat /\ f.len <= after
  <2>. DEFINE len == f.len
  <2>1. len \in Nat /\ after = len + (to - from)
    BY <1>1
  <2>. HIDE DEF len, after
  <2>. QED BY <1>4, <2>1 DEF len
<1>. HIDE DEF after
<1>7. c \in Int /\ c2 \in Int /\ c <= c2
  <2>1. f.len \in Int /\ after \in Int
    BY <1>1, <1>6
  <2>. QED BY <1>6, <2>1, NumbersOfSound, TimesKeepOrder
<1>8. /\ SamplesToCs(part.at) = c /\ SamplesToCs(part.from) = s
      /\ SamplesToCs(part.at + part.len) = c2
  BY <1>4 DEF after
<1>. HIDE DEF part
<1>. DEFINE P1 == Point(c, s)
            P2 == Point(c2, e)
            M  == {P1, P2}
<1>9. /\ P1 \in Points /\ P1.processed = c /\ P1.original = s
      /\ P2 \in Points /\ P2.processed = c2 /\ P2.original = e
  BY <1>1, <1>7, PointFields
<1>10. R \in SUBSET Points /\ \A q \in R : q.processed <= c /\ (q.processed = c => s <= q.original)
  <2>1. R \in SUBSET Points
    BY <1>1 DEF Range
  <2>2. i <= Len(segs)
    OBVIOUS
  <2>. QED BY <2>1, <2>2 DEF Kept, s, c
<1>11. InRow(R \cup M, part, Slack)
  <2>1. P1 = Point(SamplesToCs(part.at), SamplesToCs(part.from))
    BY <1>8
  <2>2. s \in Int /\ e \in Int /\ s <= e
    BY <1>1
  <2>3. CASE c < c2
    <3>1. Row(R \cup M, P1, P2)
      <4>. DEFINE N == {}
      <4>1. N \in SUBSET Points /\ \A q \in N : c2 <= q.processed /\ (q.processed = c2 => e <= q.original)
        OBVIOUS
      <4>2. R \cup M = R \cup {Point(c, s), Point(c2, e)} \cup N
        OBVIOUS
      <4>. HIDE DEF N, R, c, c2, M
      <4>3. Row(R \cup {Point(c, s), Point(c2, e)} \cup N, Point(c, s), Point(c2, e))
        BY <1>7, <1>10, <2>2, <2>3, <4>1, NewRow
      <4>. QED BY <4>2, <4>3
    <3>2. P2 \in R \cup M
      OBVIOUS
    <3>. HIDE DEF R, M, P1, P2, c, c2
    <3>3. P2.original - s = (P2.processed - c) + a
      BY <1>2, <1>5, <1>7, <1>9, <2>2
    <3>4. P2.processed = SamplesToCs(part.at + part.len)
      BY <1>8, <1>9
    <3>. QED BY <1>5, <1>8, <2>1, <3>1, <3>2, <3>3, <3>4 DEF InRow
  <2>4. CASE c = c2
    <3>1. Row(R \cup M, P1, P1)
      <4>1. R \cup M = R \cup {Point(c, s), Point(c, e)}
        BY <2>4
      <4>. HIDE DEF R, c, c2, M
      <4>2. Row(R \cup {Point(c, s), Point(c, e)}, Point(c, s), Point(c, s))
        BY <1>7, <1>10, <2>2, NewPoint
      <4>. QED BY <4>1, <4>2
    <3>2. P1 \in R \cup M
      OBVIOUS
    <3>. DEFINE zero == 0
    <3>. HIDE DEF R, M, P1, P2, c, c2
    <3>3. P1.original - s = (P1.processed - c) + zero /\ zero \in 0..Slack
      BY <1>2, <1>7, <1>9, <2>2
    <3>4. P1.processed = SamplesToCs(part.at + part.len)
      BY <1>8, <1>9, <2>4
    <3>. HIDE DEF zero
    <3>. QED BY <1>8, <2>1, <3>1, <3>2, <3>3, <3>4 DEF InRow
  <2>. HIDE DEF c, c2
  <2>. QED BY <1>7, <2>3, <2>4
<1>12. M \in SUBSET Points /\ \A q \in M : c <= q.processed
  <2>. HIDE DEF P1, P2, c, c2
  <2>. QED BY <1>7, <1>9
<1>13. points \in Seq(Points) /\ Range(points) = R \cup M
  <2>1. two \in Seq(Points) /\ Range(two) = M
    <3>1. two = <<P1, P2>>
      OBVIOUS
    <3>. HIDE DEF P1, P2, two
    <3>2. <<P1, P2>> \in Seq(Points)
      BY <1>9
    <3>3. \A x, y : Range(<<x, y>>) = {x, y}
      BY DEF Range
    <3>. QED BY <3>1, <3>2, <3>3
  <2>. HIDE DEF two, M
  <2>2. f.points \in Seq(Points)
    BY <1>1
  <2>. QED BY <2>1, <2>2, RangeOfJoin
<1>. HIDE DEF points
<1>14. \A k \in 1..Len(f.parts) : /\ InRow(R, f.parts[k], 0)
                                  /\ SamplesToCs(f.parts[k].at + f.parts[k].len) < c
  <2>1. i <= Len(segs) /\ ~(i > Len(segs))
    OBVIOUS
  <2>. QED BY <2>1 DEF Kept
<1>15. \A k \in 1..(Len(f.parts) + 1) :
         InRow(R \cup M, Append(f.parts, part)[k], IF k = Len(f.parts) + 1 THEN Slack ELSE 0)
  <2>. HIDE DEF R, M, c
  <2>. QED BY <1>1, <1>7, <1>10, <1>11, <1>12, <1>14, PartAdded
<1>16. i + 1 > Len(segs) /\ ~(i + 1 <= Len(segs))
  OBVIOUS
<1>17. Copied(f, segs, i, n) = IF to - from <= 0 THEN f ELSE g
  BY DEF Copied, s, e, from, to, after, part, c, c2, two, points, g
<1>18. Kept(g, segs, i + 1)
  <2>1. /\ g.len = after /\ g.parts = Append(f.parts, part) /\ g.points = points
        /\ Len(g.parts) = Len(f.parts) + 1
    BY <1>1
  <2>. HIDE DEF g, R, M
  <2>2. \A k \in 1..Len(g.parts) :
          InRow(Range(g.points), g.parts[k],
                IF k = Len(g.parts) /\ i + 1 > Len(segs) THEN Slack ELSE 0)
    BY <1>13, <1>15, <1>16, <2>1
  <2>. QED BY <1>6, <1>16, <2>1, <2>2 DEF Kept
<1>19. Kept(f, segs, i + 1)
  <2>1. \A k \in 1..Len(f.parts) :
          InRow(R, f.parts[k], IF k = Len(f.parts) /\ i + 1 > Len(segs) THEN Slack ELSE 0)
    <3>. DEFINE zero == 0
    <3>1. zero \in 0..Slack
      BY <1>2
    <3>2. 0..zero \subseteq 0..Slack
      BY <1>2
    <3>3. \A k \in 1..Len(f.parts) : InRow(R, f.parts[k], zero)
      BY <1>14
    <3>. HIDE DEF zero, R
    <3>4. \A k \in 1..Len(f.parts) : InRow(R, f.parts[k], Slack)
      BY <3>2, <3>3 DEF InRow
    <3>. QED BY <3>3, <3>4 DEF zero
  <2>. QED BY <1>1, <1>16, <2>1 DEF Kept
<1>. QED BY <1>17, <1>18, <1>19

LEMMA CopiedKeeps ==
  ASSUME NEW segs \in Seq(Spans), NEW lim, Spaced(segs, lim), NEW n \in Int, Crisp(segs, n),
         NEW i \in 1..Len(segs), NEW f \in Copies, Kept(f, segs, i)
  PROVE  Kept(Copied(f, segs, i, n), segs, i + 1)
<1>1. CASE i = Len(segs)
  BY <1>1, LastKept
<1>2. CASE i # Len(segs)
  <2>1. i \in 1..(Len(segs) - 1)
    BY <1>2
  <2>. QED BY <2>1, MiddleKept
<1>. QED BY <1>1, <1>2

\* The times of a part are mapped to where it was cut out.
Inverts(t, q, slack) ==
  \A x \in SamplesToCs(q.at)..SamplesToCs(q.at + q.len) :
    Near(OriginalTime(x, t), SamplesToCs(q.from) + x - SamplesToCs(q.at), slack)
Inverted(a) ==
  \A k \in DOMAIN a.parts :
    Inverts(a.points, a.parts[k], IF k = Len(a.parts) THEN Slack ELSE 0)

LEMMA PartInverts ==
  ASSUME NEW t, IsTable(t), NEW R \in SUBSET Points, Holds(t, R), NEW q \in Parts,
         NEW slack \in Nat, InRow(R, q, slack)
  PROVE  Inverts(t, q, slack)
<1>. DEFINE c == SamplesToCs(q.at)
            c2 == SamplesToCs(q.at + q.len)
            s == SamplesToCs(q.from)
            lo == Point(c, s)
<1>1. c \in Int /\ c2 \in Int /\ s \in Int
  <2>1. q.at \in Int /\ q.at + q.len \in Int /\ q.from \in Int
    BY DEF Parts
  <2>. QED BY <2>1, NumbersOfSound
<1>2. PICK up \in R, e \in 0..slack :
        /\ up.processed = c2 /\ up.original - s = (up.processed - c) + e
        /\ Row(R, lo, up)
  BY DEF InRow
<1>3. lo.processed = c /\ lo.original = s
  BY <1>1, PointFields
<1>. HIDE DEF lo, c, c2, s
<1>4. ASSUME NEW x \in c..c2
      PROVE  Near(OriginalTime(x, t), s + x - c, slack)
  <2>. DEFINE o == OriginalTime(x, t)
              late == o - s - (x - c)
  <2>1. up.original - lo.original = (up.processed - lo.processed) + e /\ e \in Nat
    BY <1>2, <1>3
  <2>2. x \in lo.processed..up.processed
    BY <1>2, <1>3
  <2>3. o \in Int /\ o - lo.original - (x - lo.processed) \in 0..e
    BY <1>2, <2>1, <2>2, RowIsRead
  <2>4. late \in 0..e
    BY <1>3, <2>3
  <2>. HIDE DEF o
  <2>5. o - (s + x - c) = late /\ (s + x - c) - o = -late
    BY <1>1, <2>3
  <2>. HIDE DEF late
  <2>6. late <= slack /\ -late <= slack
    BY <1>2, <2>4
  <2>. QED BY <2>5, <2>6 DEF Near, o
<1>. QED BY <1>4 DEF Inverts, c, c2, s

\* The table of the audio without silence is one.
LEMMA FilteredTable ==
  ASSUME NEW segs \in Seq(Spans), NEW lim, Spaced(segs, lim), NEW count \in Int
  PROVE  /\ IsTable(Filtered(segs, count).points)
         /\ Crisp(segs, count) => Inverted(Filtered(segs, count))
<1>. DEFINE b == NoAudio
            n == Len(segs)
            T == Copies
            Good(f, k) == /\ RisesTo(f, segs, k + 1)
                          /\ Crisp(segs, count) => Kept(f, segs, k + 1)
            step(f, k) == Copied(f, segs, k, count)
            body(f, i) == IF i = 0 THEN b ELSE step(f[i - 1], i)
            after == CHOOSE f : f = [i \in 0..n |-> body(f, i)]
            F == [k \in 1..n |-> [x \in T |-> IF Good(x, k - 1) THEN step(x, k) ELSE b]]
<1>1. n \in Nat /\ b \in T /\ Good(b, 0)
  <2>. DEFINE zero == 0
  <2>1. zero \in Int /\ <<>> \in Seq(Points) /\ <<>> \in Seq(Parts)
    OBVIOUS
  <2>2. b = [len |-> zero, points |-> <<>>, parts |-> <<>>]
    BY DEF NoAudio
  <2>. HIDE DEF zero
  <2>3. [len |-> zero, points |-> <<>>, parts |-> <<>>] \in Copies
    BY <2>1 DEF Copies
  <2>4. b.points = <<>>
    BY DEF NoAudio
  <2>. HIDE DEF b
  <2>5. RisesTo(b, segs, 0 + 1)
    BY <2>4 DEF RisesTo, Rising
  <2>6. Kept(b, segs, 0 + 1)
    <3>1. b.len \in Nat /\ b.parts = <<>> /\ Len(<<>>) = 0 /\ Range(<<>>) = {}
      BY DEF NoAudio, Range, b
    <3>. QED BY <2>4, <3>1 DEF Kept
  <2>. QED BY <2>2, <2>3, <2>5, <2>6
<1>2. \A k \in 1..n : \A x \in T : Good(x, k - 1) => step(x, k) \in T /\ Good(step(x, k), k)
  <2>. SUFFICES ASSUME NEW k \in 1..n, NEW x \in T, Good(x, k - 1)
                PROVE  step(x, k) \in T /\ Good(step(x, k), k)
    OBVIOUS
  <2>1. (k - 1) + 1 = k
    OBVIOUS
  <2>2. RisesTo(x, segs, k) /\ (Crisp(segs, count) => Kept(x, segs, k))
    BY <2>1
  <2>3. step(x, k) \in T /\ RisesTo(step(x, k), segs, k + 1)
    BY <2>2, CopiedRises
  <2>4. Crisp(segs, count) => Kept(step(x, k), segs, k + 1)
    BY <2>2, CopiedKeeps
  <2>. QED BY <2>3, <2>4
<1>3. \A f, k : body(f, k) = IF k = 0 THEN b ELSE step(f[k - 1], k)
  OBVIOUS
<1>4. segs # <<>> => /\ Filtered(segs, count).points = Table(after[n].points)
                     /\ Filtered(segs, count).parts = after[n].parts
  BY DEF Filtered
<1>5. segs = <<>> => /\ Filtered(segs, count).points = <<>>
                     /\ Filtered(segs, count).parts = <<>>
  BY DEF Filtered, NoAudio
<1>. HIDE DEF T, step, b, body, n, Good
<1>6. \A k \in 1..n : \A x \in T : F[k][x] = IF Good(x, k - 1) THEN step(x, k) ELSE b
  OBVIOUS
<1>. HIDE DEF F
<1>7. n \in Nat /\ StepsWithin(F, n, T)
  BY <1>1, <1>2, <1>6 DEF StepsWithin
<1>8. PICK g \in [0..n -> T] : Leads(g, n, b, F)
  BY <1>1, <1>7, Recursion
<1>9. \A k \in 0..n : Good(g[k], k)
  <2>. DEFINE P == {k \in 0..n : Good(g[k], k)}
  <2>1. 0 \in P
    BY <1>1, <1>7, <1>8 DEF Leads
  <2>2. ASSUME NEW k \in 1..n, k - 1 \in P PROVE k \in P
    <3>1. k - 1 \in 0..n /\ Good(g[k - 1], k - 1) /\ g[k - 1] \in T
      BY <1>7, <1>8, <2>2
    <3>2. g[k] = step(g[k - 1], k)
      BY <1>6, <1>8, <3>1 DEF Leads
    <3>. QED BY <1>2, <3>1, <3>2
  <2>. HIDE DEF P
  <2>3. \A k \in 0..n : k \in P
    BY <1>7, <2>1, <2>2, Climbs, Zenon
  <2>. QED BY <2>3 DEF P
<1>10. g = [k \in 0..n |-> body(g, k)]
  <2>. SUFFICES ASSUME NEW k \in 0..n, k # 0 PROVE g[k] = step(g[k - 1], k)
    BY <1>3, <1>7, <1>8 DEF Leads
  <2>1. k \in 1..n /\ k - 1 \in 0..n /\ g[k - 1] \in T /\ g[k] = F[k][g[k - 1]]
    BY <1>7, <1>8 DEF Leads
  <2>. QED BY <1>6, <1>9, <2>1
<1>11. after = [k \in 0..n |-> body(after, k)]
  BY <1>10
<1>. HIDE DEF after
<1>12. after[0] = b /\ \A k \in 1..n : after[k] = step(after[k - 1], k)
  <2>1. \A k \in 0..n : after[k] = body(after, k)
    BY <1>11
  <2>. QED BY <1>3, <1>7, <2>1
<1>13. \A k \in 0..n : after[k] \in T /\ Good(after[k], k)
  <2>. DEFINE P == {k \in 0..n : after[k] \in T /\ Good(after[k], k)}
  <2>1. 0 \in P
    BY <1>1, <1>7, <1>12
  <2>2. ASSUME NEW k \in 1..n, k - 1 \in P PROVE k \in P
    <3>1. Good(after[k - 1], k - 1) /\ after[k - 1] \in T
      BY <2>2
    <3>. QED BY <1>2, <1>12, <3>1
  <2>. HIDE DEF P
  <2>3. \A k \in 0..n : k \in P
    BY <1>7, <2>1, <2>2, Climbs, Zenon
  <2>. QED BY <2>3 DEF P
<1>14. /\ after[n] \in T /\ after[n].points \in Seq(Points) /\ Rising(after[n].points)
       /\ Crisp(segs, count) => Kept(after[n], segs, n + 1)
  <2>1. n \in 0..n
    BY <1>7
  <2>2. after[n] \in T /\ Good(after[n], n)
    BY <1>13, <2>1
  <2>. QED BY <2>2 DEF T, Good, RisesTo, Copies
<1>15. IsTable(<<>>)
  BY DEF IsTable
<1>16. segs = <<>> => Inverted(Filtered(segs, count))
  BY <1>5 DEF Inverted
<1>17. ASSUME segs # <<>>, Crisp(segs, count) PROVE Inverted(Filtered(segs, count))
  <2>. DEFINE f == after[n]
              t == Table(f.points)
              R == Range(f.points)
  <2>1. IsTable(t) /\ Holds(t, R) /\ R \in SUBSET Points /\ f.parts \in Seq(Parts)
    <3>1. R \in SUBSET Points
      BY <1>14 DEF Range
    <3>2. f.parts \in Seq(Parts)
      BY <1>14 DEF T, Copies
    <3>. QED BY <1>14, <3>1, <3>2, TableOfRising
  <2>2. Filtered(segs, count).points = t /\ Filtered(segs, count).parts = f.parts
    BY <1>4, <1>17
  <2>3. \A k \in 1..Len(f.parts) :
          InRow(R, f.parts[k], IF k = Len(f.parts) THEN Slack ELSE 0)
    <3>1. n + 1 > Len(segs)
      BY <1>7 DEF n
    <3>. QED BY <1>14, <1>17, <3>1 DEF Kept
  <2>. HIDE DEF f, t, R
  <2>4. \A k \in 1..Len(f.parts) :
          Inverts(t, f.parts[k], IF k = Len(f.parts) THEN Slack ELSE 0)
    <3>. SUFFICES ASSUME NEW k \in 1..Len(f.parts)
                  PROVE  Inverts(t, f.parts[k], IF k = Len(f.parts) THEN Slack ELSE 0)
      OBVIOUS
    <3>. DEFINE slack == IF k = Len(f.parts) THEN Slack ELSE 0
    <3>1. f.parts[k] \in Parts /\ InRow(R, f.parts[k], slack)
      BY <2>1, <2>3
    <3>2. slack \in Nat
      BY SlackCovers, VadAssumption DEF VadAssumption
    <3>. HIDE DEF slack
    <3>3. Inverts(t, f.parts[k], slack)
      BY <2>1, <3>1, <3>2, PartInverts
    <3>. QED BY <3>3 DEF slack
  <2>5. DOMAIN f.parts = 1..Len(f.parts)
    BY <2>1
  <2>. QED BY <2>2, <2>4, <2>5 DEF Inverted
<1>. QED BY <1>4, <1>5, <1>14, <1>15, <1>16, <1>17, TableOfRising

\* The length of the audio without silence is a number, and its table is one.
LEMMA FilteredIsNumber ==
  ASSUME NEW probs, Len(probs) \in Nat, NEW max, NEW count \in Int
  PROVE  /\ Filtered(VadSegments(probs, max), count).len \in Int
         /\ IsTable(Filtered(VadSegments(probs, max), count).points)
<1>. DEFINE segs == VadSegments(probs, max)
<1>2. segs \in Seq(Spans) /\ \E lim : Spaced(segs, lim)
  BY SegmentsOfSound
<1>. HIDE DEF segs
<1>3. FilteredLength(segs, count) \in Int
  BY <1>2, LengthIsNumber
<1>4. Filtered(segs, count).len \in {0, FilteredLength(segs, count)}
  BY DEF Filtered, NoAudio
<1>5. IsTable(Filtered(segs, count).points)
  BY <1>2, FilteredTable
<1>6. Filtered(segs, count).len \in Int
  BY <1>3, <1>4
<1>. QED BY <1>5, <1>6, Zenon DEF segs

-------------------------------------------------------------------------------
(* The steps.                                                                 *)

\* One thread's step keeps the invariant if what it leaves to itself is typed
\* and, when the call forgets the past, its own.
LEMMA StepOfChunk ==
  ASSUME PromptInv, NEW c \in Chunks, NEW s, NEW t, main # "idle",
         UNCHANGED <<call, par, main>>,
         st' = [st EXCEPT ![c] = s], th' = [th EXCEPT ![c] = t],
         StateOK(s), ThreadOK(t), KeepsBudget => Len(t.prompt) <= PromptMax(par),
         par.no_context => Own(s, t)
  PROVE  PromptInv'
<1>1. st' = [d \in Chunks |-> IF d = c THEN s ELSE st[d]]
  BY DEF PromptInv, PromptTypes
<1>2. th' = [d \in Chunks |-> IF d = c THEN t ELSE th[d]]
  BY DEF PromptInv, PromptTypes
<1>3. PromptTypes'
  <2>1. \A d \in Chunks : StateOK(st'[d]) /\ ThreadOK(th'[d])
    BY <1>1, <1>2 DEF PromptInv, PromptTypes
  <2>2. st' = [d \in Chunks |-> st'[d]] /\ th' = [d \in Chunks |-> th'[d]]
    BY <1>1, <1>2
  <2> QED BY <2>1, <2>2 DEF PromptInv, PromptTypes, StateOK, ThreadOK
<1>4. IdleBetween'
  BY DEF IdleBetween
<1>5. OwnPrompts'
  <2>1. par.no_context => \A d \in Chunks : Own(st'[d], th'[d])
    BY <1>1, <1>2 DEF PromptInv, OwnPrompts
  <2> QED BY <2>1 DEF OwnPrompts, Own
<1>6. Called' /\ PromptsFit'
  BY <1>2 DEF PromptInv, Called, PromptsFit, PromptMax, MaxPromptCtx
<1> QED BY <1>3, <1>4, <1>5, <1>6 DEF PromptInv

\* A thread only runs in a call.
LEMMA ThreadsRun ==
  ASSUME PromptInv, NEW c \in Chunks, th[c].at # "idle"
  PROVE  main # "idle"
BY DEF PromptInv, IdleBetween, Idle

\* A thread that ends leaves a state whose prompts are as typed as before.
LEMMA FinishOK ==
  ASSUME PromptInv, NEW c \in Chunks, NEW ret
  PROVE  /\ ThreadOK(Finish(c, ret)) /\ Finish(c, ret).at = "done"
         /\ Finish(c, ret).prompt = th[c].prompt
         /\ ThreadOK([Finish(c, ret) EXCEPT !.aborted = TRUE])
         /\ [Finish(c, ret) EXCEPT !.aborted = TRUE].at = "done"
         /\ [Finish(c, ret) EXCEPT !.aborted = TRUE].prompt = th[c].prompt
BY DEF PromptInv, PromptTypes, ThreadOK, Idle, Finish

\* A thread that ends keeps the invariant.
LEMMA EndStep ==
  ASSUME PromptInv, NEW c \in Chunks, NEW s, NEW t, th[c].at # "idle",
         UNCHANGED <<call, par, main>>,
         st' = [st EXCEPT ![c] = s], th' = [th EXCEPT ![c] = t],
         StateOK(s), ThreadOK(t), t.at = "done", t.prompt = th[c].prompt
  PROVE  PromptInv'
<1>1. main # "idle"
  BY ThreadsRun
<1>2. par.no_context => Own(s, t)
  BY DEF PromptInv, OwnPrompts, Own, Decoding
<1>3. KeepsBudget => Len(t.prompt) <= PromptMax(par)
  BY DEF PromptInv, PromptsFit
<1> QED BY <1>1, <1>2, <1>3, StepOfChunk

LEMMA BeginStep ==
  ASSUME PromptInv, NEW c \in Chunks, Begin(c)
  PROVE  PromptInv'
<1> DEFINE t     == th[c]
           clear == [st[c] EXCEPT !.results = <<>>]
           mel   == IF t.hi - t.lo > 0
                    THEN [by |-> call, lo |-> t.lo, frames |-> MelFrames(t.hi - t.lo)]
                    ELSE st[c].mel
           ready == [clear EXCEPT !.mel = mel]
           s     == WithPrompt(par, Forgotten(par, ready))
           start == t.offset
           end   == IF par.duration = 0 THEN mel.frames ELSE start + par.duration
           on    == [t EXCEPT !.at = "window", !.seek = start, !.seek_end = end]
<1>1. /\ StateOK(st[c]) /\ ThreadOK(t) /\ par \in Params /\ t.at = "begin"
      /\ KeepsBudget => Len(t.prompt) <= PromptMax(par)
  BY DEF PromptInv, PromptTypes, PromptsFit, Begin
<1>2. main # "idle" /\ UNCHANGED <<call, par, main>> /\ call \in Origins
  BY <1>1, ThreadsRun DEF Begin, PromptInv, Called
<1>3. StateOK(clear) /\ StateOK(ready)
  BY <1>1 DEF StateOK, FreeState
<1> HIDE DEF ready, clear
<1>4. /\ StateOK(s)
      /\ par.no_context => s.past0 \in Seq({call}) /\ s.past1 \in Seq({call})
  BY <1>1, <1>2, <1>3, PromptOfCall
<1> HIDE DEF s
<1>5. ThreadOK(on) /\ on.at = "window" /\ on.prompt = t.prompt
  BY <1>1 DEF ThreadOK, Idle
<1>6. par.no_context => t.prompt \in Seq({call})
  BY DEF PromptInv, OwnPrompts, Own
<1> HIDE DEF on
<1>7. \/ \E ret : \E s2 \in {clear, ready, s} :
           st' = [st EXCEPT ![c] = s2] /\ th' = [th EXCEPT ![c] = Finish(c, ret)]
      \/ st' = [st EXCEPT ![c] = s] /\ th' = [th EXCEPT ![c] = on]
  BY DEF Begin, SetThread, s, ready, clear, on
<1>8. CASE st' = [st EXCEPT ![c] = s] /\ th' = [th EXCEPT ![c] = on]
  <2>1. par.no_context => Own(s, on)
    BY <1>4, <1>5, <1>6 DEF Own
  <2> QED BY <1>1, <1>2, <1>4, <1>5, <1>8, <2>1, StepOfChunk
<1>9. ASSUME NEW ret, NEW s2 \in {clear, ready, s},
             st' = [st EXCEPT ![c] = s2], th' = [th EXCEPT ![c] = Finish(c, ret)]
      PROVE  PromptInv'
  <2>1. StateOK(s2)
    BY <1>3, <1>4
  <2> QED BY <1>1, <1>2, <1>9, <2>1, FinishOK, EndStep
<1> QED BY <1>7, <1>8, <1>9

LEMMA WindowStep ==
  ASSUME PromptInv, NEW c \in Chunks, Window(c)
  PROVE  PromptInv'
<1> DEFINE t    == th[c]
           tail == t.seek > t.offset /\ t.seek + ShortTail >= t.seek_end
           on   == [t EXCEPT !.at = "pass", !.it = 1, !.best = NoBest,
                       !.heard = @ \cup t.seek..(t.seek + WindowFrames(par) - 1)]
           s    == [st[c] EXCEPT !.past0 = <<>>, !.past1 = <<>>]
<1>1. /\ StateOK(st[c]) /\ ThreadOK(t) /\ par \in Params /\ t.at = "window"
      /\ KeepsBudget => Len(t.prompt) <= PromptMax(par)
  BY DEF PromptInv, PromptTypes, PromptsFit, Window
<1>2. main # "idle" /\ UNCHANGED <<call, par, main>>
  BY <1>1, ThreadsRun DEF Window
<1>3. StateOK(s) /\ s.past0 = <<>> /\ s.past1 = <<>>
  <2>1. PastFits(<<>>)
    BY DEF PastFits
  <2>. QED BY <1>1, <2>1 DEF StateOK, FreeState
<1>4. ThreadOK(on) /\ on.at = "pass" /\ on.prompt = t.prompt
  <2>1. Spoken(NoBest.run)
    <3>. DEFINE r == NoBest.run
    <3>1. r.tokens = <<>> /\ r.tid = 0 /\ r.delta = ChunkFrames /\ r.len = 0
      BY DEF NoBest, Fresh
    <3>2. <<>> \in Seq(Sampled) /\ Len(<<>>) = 0 /\ ChunkFrames \in 0..ChunkFrames
      BY FullAssumption DEF FullAssumption
    <3>. HIDE DEF r
    <3>3. Spoken(r)
      BY <3>1, <3>2 DEF Spoken
    <3>. QED BY <3>3 DEF r
  <2> HIDE DEF NoBest
  <2>2. on.best = NoBest /\ on.at = "pass" /\ on.prompt = t.prompt /\ DOMAIN on = DOMAIN t
    BY <1>1 DEF ThreadOK, Idle
  <2> HIDE DEF on
  <2> QED BY <1>1, <2>1, <2>2 DEF ThreadOK
<1>5. par.no_context => Own(st[c], t)
  BY DEF PromptInv, OwnPrompts
<1>6. st = [st EXCEPT ![c] = st[c]] /\ [st EXCEPT ![c].past0 = <<>>, ![c].past1 = <<>>]
        = [st EXCEPT ![c] = s]
  BY DEF PromptInv, PromptTypes
<1> HIDE DEF on, s
<1>7. \/ st' = st /\ \E ret : th' = [th EXCEPT ![c] = Finish(c, ret)]
      \/ st' = st /\ \E ret : th' = [th EXCEPT ![c] = [Finish(c, ret) EXCEPT !.aborted = TRUE]]
      \/ st' \in {st, [st EXCEPT ![c] = s]} /\ th' = [th EXCEPT ![c] = on]
  BY <1>6 DEF Window, SetThread, on
<1>8. ASSUME NEW ret, st' = st, th' = [th EXCEPT ![c] = Finish(c, ret)]
      PROVE  PromptInv'
  <2>1. st' = [st EXCEPT ![c] = st[c]]
    BY <1>6, <1>8
  <2> QED BY <1>1, <1>2, <1>8, <2>1, FinishOK, EndStep
<1>9. ASSUME NEW ret, st' = st,
             th' = [th EXCEPT ![c] = [Finish(c, ret) EXCEPT !.aborted = TRUE]]
      PROVE  PromptInv'
  <2>1. st' = [st EXCEPT ![c] = st[c]]
    BY <1>6, <1>9
  <2> QED BY <1>1, <1>2, <1>9, <2>1, FinishOK, EndStep
<1>10. ASSUME NEW s2 \in {st[c], s}, st' = [st EXCEPT ![c] = s2],
              th' = [th EXCEPT ![c] = on]
       PROVE  PromptInv'
  <2>1. StateOK(s2)
    BY <1>1, <1>3
  <2>2. <<>> \in Seq({call})
    OBVIOUS
  <2>3. ASSUME par.no_context
        PROVE  s2.past0 \in Seq({call}) /\ s2.past1 \in Seq({call})
    BY <1>1, <1>3, <1>5, <2>2, <2>3 DEF Own, Decoding
  <2>4. par.no_context => Own(s2, on)
    BY <1>4, <1>5, <2>3 DEF Own
  <2> QED BY <1>1, <1>2, <1>4, <1>10, <2>1, <2>4, StepOfChunk
<1>11. st' \in {st, [st EXCEPT ![c] = s]} => \E s2 \in {st[c], s} : st' = [st EXCEPT ![c] = s2]
  BY <1>6
<1> QED BY <1>7, <1>8, <1>9, <1>10, <1>11

LEMMA PassStep ==
  ASSUME PromptInv, NEW c \in Chunks, Pass(c)
  PROVE  PromptInv'
<1> DEFINE t == th[c]
           temperature == par.temperatures[t.it]
           again(best, quiet) == /\ t.it # Len(par.temperatures)
                                 /\ Failed(best) \/ (best.low /\ ~quiet)
           next(best, quiet) ==
             [t EXCEPT !.best = best, !.quiet = quiet,
                !.prompt = Context(par, st[c], temperature),
                !.at = IF again(best, quiet) THEN "pass" ELSE "output",
                !.it = IF again(best, quiet) THEN @ + 1 ELSE @]
<1>1. /\ StateOK(st[c]) /\ ThreadOK(t) /\ par \in Params /\ t.at = "pass"
      /\ KeepsBudget => Len(t.prompt) <= PromptMax(par)
  BY DEF PromptInv, PromptTypes, PromptsFit, Pass
<1>2. main # "idle" /\ UNCHANGED <<call, par, main, st>>
  BY <1>1, ThreadsRun DEF Pass
<1>3. st' = [st EXCEPT ![c] = st[c]]
  BY <1>2 DEF PromptInv, PromptTypes
<1>4. ASSUME NEW ret, th' = [th EXCEPT ![c] = Finish(c, ret)]
      PROVE  PromptInv'
  BY <1>1, <1>2, <1>3, <1>4, FinishOK, EndStep
<1>5. ASSUME NEW best \in Best(par, Left(t), temperature, t.best),
             NEW quiet \in BOOLEAN, th' = [th EXCEPT ![c] = next(best, quiet)]
      PROVE  PromptInv'
  <2> DEFINE on == next(best, quiet)
  <2>1. Left(t) \in Lefts
    BY FullAssumption DEF FullAssumption, Left, Lefts, Far
  <2>2. Spoken(best.run)
    <3>1. Spoken(t.best.run)
      BY <1>1 DEF ThreadOK
    <3> QED BY <1>1, <2>1, <3>1, BestIsSpoken
  <2>3. /\ Context(par, st[c], temperature) \in Seq(Origins)
        /\ KeepsBudget => Len(Context(par, st[c], temperature)) <= PromptMax(par)
    BY <1>1, ContextSeq, ContextFits DEF StateOK
  <2>4. DOMAIN on = DOMAIN t /\ on.best = best /\ on.at \in {"pass", "output"}
          /\ on.prompt = Context(par, st[c], temperature)
    BY <1>1 DEF ThreadOK, Idle
  <2>8. th' = [th EXCEPT ![c] = on]
    BY <1>5
  <2>5. ThreadOK(on)
    BY <1>1, <2>2, <2>3, <2>4 DEF ThreadOK
  <2>6. ASSUME par.no_context
        PROVE  Own(st[c], on)
    <3>1. st[c].past0 \in Seq({call}) /\ st[c].past1 \in Seq({call})
      BY <1>1, <2>6 DEF PromptInv, OwnPrompts, Own, Decoding
    <3>2. Context(par, st[c], temperature) \in Seq({call})
      BY <1>1, <3>1, ContextSeq
    <3> QED BY <2>4, <3>1, <3>2 DEF Own
  <2>7. KeepsBudget => Len(on.prompt) <= PromptMax(par)
    BY <2>3, <2>4
  <2> HIDE DEF on
  <2> QED BY <1>1, <1>2, <1>3, <2>5, <2>6, <2>7, <2>8, StepOfChunk
<1>6. \/ \E ret : th' = [th EXCEPT ![c] = Finish(c, ret)]
      \/ \E best \in Best(par, Left(t), temperature, t.best), quiet \in BOOLEAN :
           th' = [th EXCEPT ![c] = next(best, quiet)]
  BY DEF Pass, SetThread
<1> QED BY <1>4, <1>5, <1>6

LEMMA OutputStep ==
  ASSUME PromptInv, NEW c \in Chunks, Output(c)
  PROVE  PromptInv'
<1> DEFINE t    == th[c]
           r    == t.best.run
           said == ~(t.quiet /\ t.best.low)
           past1 == (IF par.carry_initial_prompt THEN <<>> ELSE t.prompt)
                    \o (IF said THEN Tokens(r.len) ELSE <<>>)
           delta == IF SingleTimestampEnding(r.tokens)
                    THEN AtMost(t.seek_end - t.seek, ChunkFrames) ELSE r.delta
           results == st[c].results \o (IF r.tokens # <<>> /\ said
                                        THEN Segments(par, r, t.seek) ELSE <<>>)
           s  == [st[c] EXCEPT !.past1 = past1, !.results = results]
           on == [t EXCEPT !.at = "window", !.seek = @ + delta,
                           !.best = NoBest, !.prompt = <<>>, !.quiet = FALSE]
<1>1. /\ StateOK(st[c]) /\ ThreadOK(t) /\ par \in Params /\ t.at = "output"
      /\ KeepsBudget => Len(t.prompt) <= PromptMax(par)
  BY DEF PromptInv, PromptTypes, PromptsFit, Output
<1>2. main # "idle" /\ UNCHANGED <<call, par, main>> /\ call \in Origins
  BY <1>1, ThreadsRun DEF Output, PromptInv, Called
<1>3. ASSUME NEW S, t.prompt \in Seq(S), call \in S
      PROVE  past1 \in Seq(S)
  <2>1. Tokens(r.len) \in Seq({call})
    BY <1>1, TokensSeq DEF ThreadOK, Spoken
  <2>2. Tokens(r.len) \in Seq(S)
    BY <1>3, <2>1, SeqIsMonotone
  <2>3. <<>> \in Seq(S)
    OBVIOUS
  <2> QED BY <1>3, <2>2, <2>3
<1>4. past1 \in Seq(Origins)
  BY <1>1, <1>2, <1>3 DEF ThreadOK
<1>5. ASSUME par.no_context
      PROVE  past1 \in Seq({call}) /\ st[c].past0 \in Seq({call})
  BY <1>1, <1>3, <1>5 DEF PromptInv, OwnPrompts, Own, Decoding
<1> HIDE DEF past1, results, delta
<1>6. DOMAIN s = DOMAIN st[c] /\ s.past0 = st[c].past0 /\ s.past1 = past1
  BY <1>1 DEF StateOK, FreeState
<1>7. StateOK(s)
  BY <1>1, <1>4, <1>6 DEF StateOK
<1>8. ThreadOK(on) /\ on.prompt = <<>>
  BY <1>1 DEF ThreadOK, Idle
<1>9. par.no_context => Own(s, on)
  BY <1>5, <1>6, <1>8 DEF Own
<1>10. /\ st' = [st EXCEPT ![c].past1 = past1, ![c].results = results]
       /\ th' = [th EXCEPT ![c] = on]
  BY DEF Output, SetThread, past1, results, delta
<1>11. st' = [st EXCEPT ![c] = s]
  BY <1>10 DEF PromptInv, PromptTypes
<1>12. Len(on.prompt) <= PromptMax(par)
  BY <1>1, <1>8, NothingFits
<1> QED BY <1>1, <1>2, <1>7, <1>8, <1>9, <1>10, <1>11, <1>12, StepOfChunk

\* Between calls and while they begin no thread decodes.
LEMMA IdleOK ==
  /\ ThreadOK(Idle) /\ Idle.at = "idle" /\ Idle.prompt = <<>>
  /\ \A n : \A p \in Params : \A c \in Chunks :
       /\ ThreadOK(Threads(p, n)[c]) /\ Threads(p, n)[c].prompt = <<>>
       /\ Threads(p, n)[c].at \in {"idle", "begin"}
  /\ StateOK(FreeState)
<1>1. ThreadOK(Idle) /\ Idle.at = "idle" /\ Idle.prompt = <<>>
  BY DEF ThreadOK, Idle
<1>2. ASSUME NEW p \in Params, NEW n, NEW c \in Chunks
      PROVE  /\ ThreadOK(Threads(p, n)[c]) /\ Threads(p, n)[c].prompt = <<>>
             /\ Threads(p, n)[c].at \in {"idle", "begin"}
  BY <1>1 DEF Threads, ThreadOK, Idle
<1>3. StateOK(FreeState)
  BY DEF StateOK, FreeState, PastFits
<1> QED BY <1>1, <1>2, <1>3

LEMMA StartStep ==
  ASSUME PromptInv, Start
  PROVE  PromptInv'
<1>1. th = [c \in Chunks |-> Idle] /\ call \in 0..Len(Calls) /\ call' = call + 1
  BY DEF PromptInv, PromptTypes, IdleBetween, Start
<1>2. Len(Calls) \in Nat
  BY FullAssumption DEF FullAssumption
<1>3. /\ call' \in 0..Len(Calls) /\ call' \in Origins /\ par' \in Params
      /\ main' \in {"run", "done"}
  BY <1>1, <1>2, CallParams DEF Start, Origins
<1>4. th' = th \/ \E n : \E p \in Params : th' = Threads(p, n)
  BY <1>1, <1>2, CallParams DEF Start
<1>5. /\ th' = [c \in Chunks |-> th'[c]]
      /\ \A c \in Chunks : /\ ThreadOK(th'[c]) /\ th'[c].prompt = <<>>
                           /\ th'[c].at \in {"idle", "begin"}
  <2>1. CASE th' = th
    BY <1>1, <2>1, IdleOK
  <2>2. CASE \E n : \E p \in Params : th' = Threads(p, n)
    <3>1. PICK n : \E p \in Params : th' = Threads(p, n)
      BY <2>2
    <3>2. th' = [c \in Chunks |-> th'[c]]
      BY <3>1 DEF Threads
    <3> QED BY <1>1, <3>1, <3>2, IdleOK
  <2> QED BY <1>4, <2>1, <2>2
<1>6. st' = [c \in Chunks |-> st'[c]] /\ \A c \in Chunks : StateOK(st'[c])
  <2>1. 0 \in Chunks
    BY FullAssumption DEF FullAssumption, Chunks
  <2>2. st' = st \/ st' = [st EXCEPT ![0].results = <<>>]
    BY DEF Start
  <2> QED BY <2>1, <2>2 DEF PromptInv, PromptTypes, StateOK, FreeState
<1>7. PromptTypes'
  BY <1>3, <1>5, <1>6 DEF PromptTypes, StateOK, ThreadOK
<1>9. Called' /\ PromptsFit'
  <2>1. \A c \in Chunks : Len(th'[c].prompt) <= PromptMax(par')
    BY <1>3, <1>5, NothingFits
  <2>. QED BY <1>3, <2>1 DEF Called, PromptsFit, PromptMax, MaxPromptCtx
<1>8. OwnPrompts'
  <2> SUFFICES ASSUME NEW c \in Chunks
               PROVE  Own(st[c], th[c])'
    BY DEF OwnPrompts
  <2>1. (<<>> \in Seq({call}))'
    OBVIOUS
  <2> QED BY <1>5, <2>1 DEF Own, Decoding
<1> QED BY <1>3, <1>7, <1>8, <1>9 DEF PromptInv, IdleBetween

\* The merge changes the results of the first state and frees the others.
LEMMA JoinedStates ==
  ASSUME Join
  PROVE  /\ st' = [c \in Chunks |-> st'[c]]
         /\ \A c \in Chunks : st'[c] = FreeState \/ \E x : st'[c] = [st[c] EXCEPT !.results = x]
<1>1. PICK x : st' = [c \in Chunks |-> IF c = 0 THEN [st[0] EXCEPT !.results = x] ELSE FreeState]
  BY DEF Join
<1>. QED BY <1>1

LEMMA JoinStep ==
  ASSUME PromptInv, Join
  PROVE  PromptInv'
<1>1. main # "idle" /\ main' = "done" /\ UNCHANGED <<call, par, th>>
  BY DEF Join
<1>2. /\ st' = [c \in Chunks |-> st'[c]]
      /\ \A c \in Chunks : st'[c] = FreeState \/ \E x : st'[c] = [st[c] EXCEPT !.results = x]
  BY JoinedStates
<1>3. \A c \in Chunks : StateOK(st'[c])
  BY <1>2, IdleOK DEF PromptInv, PromptTypes, StateOK, FreeState
<1>4. \A c \in Chunks : th[c].at \in {"idle", "done"}
  BY DEF Join
<1>5. PromptTypes'
  BY <1>1, <1>2, <1>3 DEF PromptInv, PromptTypes, StateOK, ThreadOK
<1>6. OwnPrompts'
  BY <1>1, <1>4 DEF PromptInv, OwnPrompts, Own, Decoding
<1>7. Called' /\ PromptsFit'
  BY <1>1 DEF PromptInv, Called, PromptsFit, PromptMax, MaxPromptCtx
<1> QED BY <1>1, <1>5, <1>6, <1>7 DEF PromptInv, IdleBetween

LEMMA ReturnStep ==
  ASSUME PromptInv, Return
  PROVE  PromptInv'
<1>1. /\ th' = [c \in Chunks |-> Idle] /\ UNCHANGED <<call, par, st>> /\ par \in Params
      /\ main' = "idle"
  BY DEF Return, PromptInv, PromptTypes
<1>2. PromptTypes'
  BY <1>1, IdleOK DEF PromptInv, PromptTypes, StateOK, ThreadOK
<1>3. OwnPrompts'
  <2> SUFFICES ASSUME NEW c \in Chunks
               PROVE  Own(st[c], th[c])'
    BY DEF OwnPrompts
  <2>1. (<<>> \in Seq({call}))'
    OBVIOUS
  <2> QED BY <1>1, <2>1, IdleOK DEF Own, Decoding
<1>4. Called' /\ PromptsFit'
  <2>1. \A c \in Chunks : Len(th'[c].prompt) <= PromptMax(par)
    BY <1>1, IdleOK, NothingFits
  <2>. QED BY <1>1, <2>1 DEF Called, PromptsFit, PromptMax, MaxPromptCtx
<1> QED BY <1>1, <1>2, <1>3, <1>4 DEF PromptInv, IdleBetween

-------------------------------------------------------------------------------

LEMMA PromptInit ==
  ASSUME FullInit
  PROVE  PromptInv
<1>1. Len(Calls) \in Nat \ {0}
  BY FullAssumption DEF FullAssumption
<1>2. call \in 0..Len(Calls) /\ call = 0 /\ par \in Params /\ main = "idle"
  BY <1>1, CallParams DEF FullInit
<1>3. PromptTypes
  BY <1>2, IdleOK DEF FullInit, PromptTypes
<1>4. OwnPrompts
  <2>1. <<>> \in Seq({call})
    OBVIOUS
  <2> QED BY <1>2, <2>1, IdleOK DEF FullInit, OwnPrompts, Own, Decoding
<1>5. Called /\ PromptsFit
  <2>1. \A c \in Chunks : Len(th[c].prompt) <= PromptMax(par)
    BY <1>2, IdleOK, NothingFits DEF FullInit
  <2>. QED BY <1>2, <2>1 DEF Called, PromptsFit
<1> QED BY <1>3, <1>4, <1>5 DEF PromptInv, IdleBetween, FullInit

LEMMA PromptNext ==
  ASSUME PromptInv, [FullNext]_fullVars
  PROVE  PromptInv'
<1>1. CASE UNCHANGED fullVars
  <2>1. PromptTypes' /\ IdleBetween' /\ OwnPrompts'
    BY <1>1 DEF fullVars, PromptInv, PromptTypes, IdleBetween, OwnPrompts, Own,
                StateOK, ThreadOK
  <2>2. Called' /\ PromptsFit'
    BY <1>1 DEF fullVars, PromptInv, Called, PromptsFit, PromptMax, MaxPromptCtx
  <2>. QED BY <2>1, <2>2 DEF PromptInv
<1>2. ASSUME NEW c \in Chunks, Decode(c)
      PROVE  PromptInv'
  BY <1>2, BeginStep, WindowStep, PassStep, OutputStep DEF Decode
<1> QED BY <1>1, <1>2, StartStep, JoinStep, ReturnStep DEF FullNext

\* With no_context the past a window is prompted with is the call's own:
\* whatever the calls before left in the context's state, however windows fell
\* back and however many threads there are.
THEOREM FullPromptIsOwn == FullSpec => []PromptIsOwn
<1>1. PromptInv => PromptIsOwn
  <2> SUFFICES ASSUME PromptInv, par.no_context, NEW c \in Chunks
               PROVE  Range(th[c].prompt) \subseteq {call}
    BY DEF PromptIsOwn
  <2>1. th[c].prompt \in Seq({call})
    BY DEF PromptInv, OwnPrompts, Own
  <2> QED BY <2>1 DEF Range
<1> QED BY <1>1, PromptInit, PromptNext, PTL DEF FullSpec

-------------------------------------------------------------------------------
(* What the encoder has heard.                                                *)

\* A chunk begins where the call's parameters and the length of its audio say,
\* and has a thread while the call runs.
ChunksPlaced ==
  main = "run" =>
    /\ audio.len \in Int
    /\ \A c \in Chunks :
         LET given == Threads(par, audio.len)[c]
         IN  /\ th[c].lo = given.lo /\ th[c].hi = given.hi /\ th[c].offset = given.offset
             /\ c < par.processors => th[c].at # "idle"

MelsCounted == \A c \in Chunks : st[c].mel.frames \in Int
RunsInCall == main # "run" => \A c \in Chunks : th[c].at \in {"idle", "done"}

\* What a thread has heard, of a whole chunk with whole windows: all from its
\* first frame to where it seeks, and in a window, to the window's end.
HeardTo(t, n) == \A f \in t.offset..(n - 1) : f \in t.heard
WholeCall(p) == p.duration = 0 /\ p.audio_ctx = 0
HasHeard(p, s, t) ==
  /\ t.at \in Decoding => t.seek \in Int /\ t.seek_end = s.mel.frames
  /\ t.at = "window" => HeardTo(t, t.seek)
  /\ t.at \in {"pass", "output"} => HeardTo(t, t.seek + 2 * AudioCtx)
  /\ t.at = "done" /\ t.ret = 0 /\ ~t.aborted /\ p.language # "detect" =>
       \E n \in {t.offset, t.seek} :
         n \in Int /\ HeardTo(t, n) /\ n + DeltaMin >= s.mel.frames

HearingInv ==
  /\ "len" \in DOMAIN audio
  /\ ChunksPlaced /\ MelsCounted /\ RunsInCall
  /\ main = "run" /\ WholeCall(par) => \A c \in Chunks : HasHeard(par, st[c], th[c])

LEMMA TruncIsInt ==
  ASSUME NEW a \in Int, NEW b \in Nat \ {0}
  PROVE  Trunc(a, b) \in Int
<1>1. a \div b \in Int /\ (-a) \div b \in Int
  OBVIOUS
<1>. QED BY <1>1 DEF Trunc

\* Windows are at whole frames.
LEMMA FramesAreNumbers ==
  ASSUME NEW n \in Int
  PROVE  MelFrames(n) \in Int
<1>1. SamplesPerCs \in Nat \ {0}
  BY VadAssumption DEF VadAssumption
<1> DEFINE x == n + (5 * SamplesPerCs) \div 4 - (5 * SamplesPerCs) \div 2
<1>2. x \in Int
  BY <1>1
<1> HIDE DEF x
<1>3. Trunc(x, SamplesPerCs) \in Int
  BY <1>1, <1>2 DEF Trunc
<1> QED BY <1>3 DEF MelFrames, x

LEMMA PlaceOfChunk ==
  ASSUME NEW p \in Params, NEW n \in Int, NEW c \in Chunks
  PROVE  /\ ChunkStart(p, n, c) \in Int /\ ChunkEnd(p, n, c) \in Int
         /\ Threads(p, n)[c].lo \in Int /\ Threads(p, n)[c].hi \in Int
         /\ Threads(p, n)[c].offset \in Int
<1>1. /\ SamplesPerCs \in Nat \ {0} /\ p.processors \in Nat \ {0}
      /\ p.offset \in Int /\ c \in Int
  BY ParamsTyped, VadAssumption, FullAssumption, SMTT(30) DEF VadAssumption, FullAssumption, Chunks
<1>2. PerProcessor(p, n) \in Int
  <2> DEFINE x == n - p.offset * SamplesPerCs
  <2>1. x \in Int
    BY <1>1
  <2> HIDE DEF x
  <2>2. Trunc(x, p.processors) \in Int
    BY <1>1, <2>1, TruncIsInt
  <2> QED BY <2>2 DEF PerProcessor, x
<1>3. \A d \in Int : ChunkStart(p, n, d) \in Int
  BY <1>1, <1>2 DEF ChunkStart
<1>4. ChunkEnd(p, n, c) \in Int
  BY <1>1, <1>3 DEF ChunkEnd
<1>5. /\ Threads(p, n)[c].lo \in {0, ChunkStart(p, n, c)}
      /\ Threads(p, n)[c].hi \in {0, ChunkEnd(p, n, c)}
      /\ Threads(p, n)[c].offset \in {0, p.offset}
  BY DEF Threads, Idle
<1> QED BY <1>1, <1>3, <1>4, <1>5

\* A thread's step keeps the invariant if the thread stays in its chunk and has
\* heard what it should.
LEMMA HearingOfChunk ==
  ASSUME PromptInv, HearingInv, NEW c \in Chunks, NEW s, NEW t,
         th[c].at \notin {"idle", "done"}, UNCHANGED <<call, par, audio, main>>,
         st' = [st EXCEPT ![c] = s], th' = [th EXCEPT ![c] = t],
         t.lo = th[c].lo, t.hi = th[c].hi, t.offset = th[c].offset, t.at # "idle",
         s.mel.frames \in Int, WholeCall(par) => HasHeard(par, s, t)
  PROVE  HearingInv'
<1>1. /\ st' = [d \in Chunks |-> IF d = c THEN s ELSE st[d]]
      /\ th' = [d \in Chunks |-> IF d = c THEN t ELSE th[d]]
  BY DEF PromptInv, PromptTypes
<1>2. main = "run" /\ main' = "run"
  BY DEF HearingInv, RunsInCall
<1>3. ChunksPlaced'
  <2>1. audio'.len \in Int
    BY <1>2 DEF HearingInv, ChunksPlaced
  <2>2. ASSUME NEW d \in Chunks
        PROVE  /\ th'[d].lo = Threads(par, audio.len)[d].lo
               /\ th'[d].hi = Threads(par, audio.len)[d].hi
               /\ th'[d].offset = Threads(par, audio.len)[d].offset
               /\ d < par.processors => th'[d].at # "idle"
    BY <1>1, <1>2 DEF HearingInv, ChunksPlaced
  <2>3. Threads(par, audio.len)' = Threads(par, audio.len)
    BY DEF Threads
  <2> QED BY <2>1, <2>2, <2>3 DEF ChunksPlaced
<1>4. MelsCounted'
  BY <1>1 DEF HearingInv, MelsCounted
<1>5. RunsInCall'
  BY <1>2 DEF RunsInCall
<1>6. WholeCall(par) => \A d \in Chunks : HasHeard(par, st'[d], th'[d])
  BY <1>1, <1>2 DEF HearingInv
<1>7. (main = "run" /\ WholeCall(par) => \A d \in Chunks : HasHeard(par, st[d], th[d]))'
  BY <1>6 DEF HasHeard, HeardTo, WholeCall
<1> QED BY <1>3, <1>4, <1>5, <1>7 DEF HearingInv

\* A thread that runs has a chunk of a call.
LEMMA RunsInChunk ==
  ASSUME PromptInv, HearingInv, NEW c \in Chunks, th[c].at \notin {"idle", "done"}
  PROVE  /\ main = "run" /\ th[c].lo \in Int /\ th[c].hi \in Int /\ th[c].offset \in Int
         /\ st[c].mel.frames \in Int
         /\ WholeCall(par) => HasHeard(par, st[c], th[c])
         /\ ThreadOK(th[c]) /\ StateOK(st[c])
<1>1. main = "run" /\ audio.len \in Int /\ par \in Params
  BY DEF HearingInv, RunsInCall, ChunksPlaced, PromptInv, PromptTypes
<1>2. /\ th[c].lo \in Int /\ th[c].hi \in Int /\ th[c].offset \in Int
  BY <1>1, PlaceOfChunk DEF HearingInv, ChunksPlaced
<1> QED BY <1>1, <1>2 DEF HearingInv, MelsCounted, PromptInv, PromptTypes

\* Ending with an error, or with an answer that says so.
LEMMA FinishHearing ==
  ASSUME NEW c \in Chunks, ThreadOK(th[c]), NEW ret
  PROVE  /\ DOMAIN Finish(c, ret) = DOMAIN th[c]
         /\ Finish(c, ret).at = "done" /\ Finish(c, ret).ret = ret
         /\ \A x \in {"lo", "hi", "offset", "seek", "heard", "aborted"} :
              Finish(c, ret)[x] = th[c][x]
BY DEF ThreadOK, Idle, Finish

LEMMA EndHearing ==
  ASSUME PromptInv, HearingInv, NEW c \in Chunks, NEW s, NEW ret,
         th[c].at \notin {"idle", "done"}, UNCHANGED <<call, par, audio, main>>,
         st' = [st EXCEPT ![c] = s], th' = [th EXCEPT ![c] = Finish(c, ret)],
         s.mel.frames \in Int,
         WholeCall(par) => HasHeard(par, s, Finish(c, ret))
  PROVE  HearingInv'
<1>1. ThreadOK(th[c])
  BY RunsInChunk
<1>2. /\ Finish(c, ret).lo = th[c].lo /\ Finish(c, ret).hi = th[c].hi
      /\ Finish(c, ret).offset = th[c].offset /\ Finish(c, ret).at # "idle"
  BY <1>1, FinishHearing
<1> QED BY <1>2, HearingOfChunk

\* A thread that failed has nothing to show.
LEMMA FailureHearing ==
  ASSUME NEW c \in Chunks, ThreadOK(th[c]), NEW ret, ret # 0, NEW p, NEW s
  PROVE  HasHeard(p, s, Finish(c, ret))
BY FinishHearing DEF HasHeard, Decoding

LEMMA BeginHearing ==
  ASSUME PromptInv, HearingInv, NEW c \in Chunks, Begin(c)
  PROVE  HearingInv'
<1> DEFINE t     == th[c]
           clear == [st[c] EXCEPT !.results = <<>>]
           mel   == IF t.hi - t.lo > 0
                    THEN [by |-> call, lo |-> t.lo, frames |-> MelFrames(t.hi - t.lo)]
                    ELSE st[c].mel
           ready == [clear EXCEPT !.mel = mel]
           s     == WithPrompt(par, Forgotten(par, ready))
           start == t.offset
           end   == IF par.duration = 0 THEN mel.frames ELSE start + par.duration
           on    == [t EXCEPT !.at = "window", !.seek = start, !.seek_end = end]
<1>1. t.at = "begin" /\ UNCHANGED <<call, par, audio, main>>
  BY DEF Begin
<1>2. /\ t.lo \in Int /\ t.hi \in Int /\ start \in Int /\ st[c].mel.frames \in Int
      /\ ThreadOK(t) /\ StateOK(st[c])
  BY <1>1, RunsInChunk
<1>3. mel.frames \in Int
  BY <1>2, FramesAreNumbers
<1> HIDE DEF mel
<1>4. clear.mel.frames \in Int /\ ready.mel = mel /\ s.mel = mel
  BY <1>2 DEF StateOK, FreeState, WithPrompt, Forgotten
<1> HIDE DEF ready, clear, s
<1>5. /\ on.lo = t.lo /\ on.hi = t.hi /\ on.offset = t.offset /\ on.at = "window"
      /\ on.seek = start /\ on.seek_end = end
  BY <1>2 DEF ThreadOK, Idle
<1>6. WholeCall(par) => HasHeard(par, s, on)
  <2>1. ASSUME WholeCall(par)
        PROVE  on.seek_end = s.mel.frames
    BY <1>4, <1>5, <2>1 DEF WholeCall
  <2>2. HeardTo(on, on.seek)
    BY <1>2, <1>5 DEF HeardTo
  <2> HIDE DEF on
  <2> QED BY <1>2, <1>5, <2>1, <2>2 DEF HasHeard, Decoding
<1> HIDE DEF on, end, start
<1>7. \/ \E ret : /\ ret # 0 \/ par.language = "detect" \/ end < start + DeltaMin
                  /\ \E s2 \in {clear, ready, s} :
                       /\ st' = [st EXCEPT ![c] = s2] /\ th' = [th EXCEPT ![c] = Finish(c, ret)]
                       /\ ret = 0 /\ par.language # "detect" => s2 = ready
      \/ st' = [st EXCEPT ![c] = s] /\ th' = [th EXCEPT ![c] = on]
  BY DEF Begin, SetThread, s, ready, clear, on, mel, start, end
<1>8. CASE st' = [st EXCEPT ![c] = s] /\ th' = [th EXCEPT ![c] = on]
  BY <1>1, <1>3, <1>4, <1>5, <1>6, <1>8, HearingOfChunk
<1>9. ASSUME NEW ret, NEW s2 \in {clear, ready, s},
             ret # 0 \/ par.language = "detect" \/ end < start + DeltaMin,
             st' = [st EXCEPT ![c] = s2], th' = [th EXCEPT ![c] = Finish(c, ret)],
             ret = 0 /\ par.language # "detect" => s2 = ready
      PROVE  HearingInv'
  <2>1. ASSUME WholeCall(par)
        PROVE  HasHeard(par, s2, Finish(c, ret))
    <3>1. CASE ret # 0
      BY <1>2, <3>1, FailureHearing
    <3>2. CASE ret = 0 /\ par.language = "detect"
      BY <1>2, <3>2, FinishHearing DEF HasHeard, Decoding
    <3>3. CASE ret = 0 /\ par.language # "detect"
      <4>1. s2.mel.frames = end /\ end < start + DeltaMin /\ end \in Int
        BY <1>3, <1>4, <1>9, <2>1, <3>3 DEF WholeCall, end
      <4>2. HeardTo(Finish(c, ret), start)
        BY <1>2, FinishHearing DEF HeardTo, start
      <4>3. Finish(c, ret).at = "done" /\ Finish(c, ret).offset = start
        BY <1>2, FinishHearing DEF start
      <4>4. start + DeltaMin >= s2.mel.frames /\ start \in Int
        BY <1>2, <4>1, FullAssumption DEF FullAssumption, start
      <4> QED BY <4>2, <4>3, <4>4 DEF HasHeard, Decoding
    <3> QED BY <3>1, <3>2, <3>3
  <2>2. s2.mel.frames \in Int
    BY <1>3, <1>4
  <2> QED BY <1>1, <1>9, <2>1, <2>2, EndHearing
<1> QED BY <1>7, <1>8, <1>9

LEMMA WindowHearing ==
  ASSUME PromptInv, HearingInv, NEW c \in Chunks, Window(c)
  PROVE  HearingInv'
<1> DEFINE t    == th[c]
           over == t.seek + DeltaMin >= t.seek_end
           new  == t.seek..(t.seek + WindowFrames(par) - 1)
           on   == [t EXCEPT !.at = "pass", !.it = 1, !.best = NoBest, !.heard = @ \cup new]
           s    == [st[c] EXCEPT !.past0 = <<>>, !.past1 = <<>>]
<1>1. t.at = "window" /\ UNCHANGED <<call, par, audio, main>>
  BY DEF Window
<1>2. /\ t.offset \in Int /\ st[c].mel.frames \in Int /\ ThreadOK(t) /\ StateOK(st[c])
      /\ WholeCall(par) => HasHeard(par, st[c], t)
  BY <1>1, RunsInChunk
<1>3. st = [st EXCEPT ![c] = st[c]] /\ [st EXCEPT ![c].past0 = <<>>, ![c].past1 = <<>>]
        = [st EXCEPT ![c] = s]
  BY DEF PromptInv, PromptTypes
<1>4. s.mel = st[c].mel
  BY <1>2 DEF StateOK, FreeState
<1>5. /\ on.lo = t.lo /\ on.hi = t.hi /\ on.offset = t.offset /\ on.at = "pass"
      /\ on.seek = t.seek /\ on.seek_end = t.seek_end /\ on.heard = t.heard \cup new
  BY <1>2 DEF ThreadOK, Idle
<1>6. ASSUME WholeCall(par), NEW s2, s2.mel = st[c].mel
      PROVE  HasHeard(par, s2, on)
  <2>1. t.seek \in Int /\ t.seek_end = s2.mel.frames /\ HeardTo(t, t.seek)
    BY <1>1, <1>2, <1>6 DEF HasHeard, Decoding
  <2>2. new = t.seek..(t.seek + 2 * AudioCtx - 1)
    BY <1>6 DEF WholeCall, WindowFrames
  <2> HIDE DEF new
  <2> HIDE DEF on
  <2>3. HeardTo(on, t.seek + 2 * AudioCtx)
    <3> SUFFICES ASSUME NEW f \in t.offset..(t.seek + 2 * AudioCtx - 1)
                 PROVE  f \in t.heard \cup new
      BY <1>2, <1>5, <2>1, FullAssumption DEF HeardTo, FullAssumption
    <3>1. f \in Int /\ AudioCtx \in Int
      BY <1>2, <2>1, FullAssumption DEF FullAssumption
    <3>2. CASE f < t.seek
      <4>1. f \in t.offset..(t.seek - 1)
        BY <1>2, <2>1, <3>1, <3>2
      <4> QED BY <2>1, <4>1 DEF HeardTo
    <3>3. CASE f >= t.seek
      BY <2>1, <2>2, <3>1, <3>3
    <3> QED BY <2>1, <3>1, <3>2, <3>3
  <2> QED BY <1>5, <2>1, <2>3 DEF HasHeard, Decoding
<1> HIDE DEF on, s, new
<1>7. \/ st' = st /\ \E ret : th' = [th EXCEPT ![c] = Finish(c, ret)] /\ (ret # 0 \/ over)
      \/ st' = st /\ th' = [th EXCEPT ![c] = [Finish(c, 0) EXCEPT !.aborted = TRUE]]
      \/ st' \in {st, [st EXCEPT ![c] = s]} /\ th' = [th EXCEPT ![c] = on]
  BY <1>3 DEF Window, SetThread, on, new
<1>8. ASSUME NEW ret, st' = st, th' = [th EXCEPT ![c] = Finish(c, ret)], ret # 0 \/ over
      PROVE  HearingInv'
  <2>1. ASSUME WholeCall(par)
        PROVE  HasHeard(par, st[c], Finish(c, ret))
    <3>1. CASE ret # 0
      BY <1>2, <3>1, FailureHearing
    <3>2. CASE over
      <4>1. t.seek \in Int /\ t.seek_end = st[c].mel.frames /\ HeardTo(t, t.seek)
        BY <1>1, <1>2, <2>1 DEF HasHeard, Decoding
      <4>2. HeardTo(Finish(c, ret), t.seek) /\ Finish(c, ret).seek = t.seek
              /\ Finish(c, ret).at = "done"
        BY <1>2, <4>1, FinishHearing DEF HeardTo
      <4> QED BY <3>2, <4>1, <4>2 DEF HasHeard, Decoding
    <3> QED BY <1>8, <3>1, <3>2
  <2>2. st' = [st EXCEPT ![c] = st[c]]
    BY <1>3, <1>8
  <2> QED BY <1>1, <1>2, <1>8, <2>1, <2>2, EndHearing
<1>9. ASSUME st' = st, th' = [th EXCEPT ![c] = [Finish(c, 0) EXCEPT !.aborted = TRUE]]
      PROVE  HearingInv'
  <2> DEFINE stop == [Finish(c, 0) EXCEPT !.aborted = TRUE]
  <2>1. /\ stop.at = "done" /\ stop.aborted = TRUE
        /\ stop.lo = t.lo /\ stop.hi = t.hi /\ stop.offset = t.offset
    BY <1>2 DEF ThreadOK, Idle, Finish
  <2>2. HasHeard(par, st[c], stop)
    <3> HIDE DEF stop
    <3> QED BY <2>1 DEF HasHeard, Decoding
  <2>3. st' = [st EXCEPT ![c] = st[c]]
    BY <1>3, <1>9
  <2>4. th' = [th EXCEPT ![c] = stop]
    BY <1>9
  <2> HIDE DEF stop
  <2> QED BY <1>1, <1>2, <2>1, <2>2, <2>3, <2>4, HearingOfChunk
<1>10. ASSUME NEW s2 \in {st[c], s}, st' = [st EXCEPT ![c] = s2], th' = [th EXCEPT ![c] = on]
       PROVE  HearingInv'
  <2>1. s2.mel = st[c].mel
    BY <1>4
  <2>2. WholeCall(par) => HasHeard(par, s2, on)
    BY <1>6, <2>1
  <2> QED BY <1>1, <1>2, <1>5, <1>10, <2>1, <2>2, HearingOfChunk
<1>11. st' \in {st, [st EXCEPT ![c] = s]} => \E s2 \in {st[c], s} : st' = [st EXCEPT ![c] = s2]
  BY <1>3
<1> QED BY <1>7, <1>8, <1>9, <1>10, <1>11

LEMMA PassHearing ==
  ASSUME PromptInv, HearingInv, NEW c \in Chunks, Pass(c)
  PROVE  HearingInv'
<1> DEFINE t == th[c]
           temperature == par.temperatures[t.it]
           again(best, quiet) == /\ t.it # Len(par.temperatures)
                                 /\ Failed(best) \/ (best.low /\ ~quiet)
           next(best, quiet) ==
             [t EXCEPT !.best = best, !.quiet = quiet,
                !.prompt = Context(par, st[c], temperature),
                !.at = IF again(best, quiet) THEN "pass" ELSE "output",
                !.it = IF again(best, quiet) THEN @ + 1 ELSE @]
<1>1. t.at = "pass" /\ UNCHANGED <<call, par, audio, main, st>>
  BY DEF Pass
<1>2. /\ t.offset \in Int /\ st[c].mel.frames \in Int /\ ThreadOK(t) /\ StateOK(st[c])
      /\ WholeCall(par) => HasHeard(par, st[c], t)
  BY <1>1, RunsInChunk
<1>3. st' = [st EXCEPT ![c] = st[c]]
  BY <1>1 DEF PromptInv, PromptTypes
<1>4. ASSUME NEW ret, ret # 0, th' = [th EXCEPT ![c] = Finish(c, ret)]
      PROVE  HearingInv'
  BY <1>1, <1>2, <1>3, <1>4, FailureHearing, EndHearing
<1>5. ASSUME NEW best, NEW quiet, th' = [th EXCEPT ![c] = next(best, quiet)]
      PROVE  HearingInv'
  <2> DEFINE on == next(best, quiet)
  <2>1. /\ on.lo = t.lo /\ on.hi = t.hi /\ on.offset = t.offset /\ on.seek = t.seek
        /\ on.seek_end = t.seek_end /\ on.heard = t.heard /\ on.at \in {"pass", "output"}
    BY <1>2 DEF ThreadOK, Idle
  <2>2. th' = [th EXCEPT ![c] = on]
    BY <1>5
  <2> HIDE DEF on
  <2>3. WholeCall(par) => HasHeard(par, st[c], on)
    BY <1>1, <1>2, <2>1 DEF HasHeard, HeardTo, Decoding
  <2>4. on.at # "idle"
    BY <2>1
  <2> QED BY <1>1, <1>2, <1>3, <2>1, <2>2, <2>3, <2>4, HearingOfChunk
<1> HIDE DEF next
<1>6. \/ \E ret \in {-8, -9} : th' = [th EXCEPT ![c] = Finish(c, ret)]
      \/ \E best \in Best(par, Left(t), temperature, t.best), quiet \in BOOLEAN :
           th' = [th EXCEPT ![c] = next(best, quiet)]
  BY DEF Pass, SetThread, next
<1>7. \A ret \in {-8, -9} : ret # 0
  OBVIOUS
<1> QED BY <1>4, <1>5, <1>6, <1>7

LEMMA OutputHearing ==
  ASSUME PromptInv, HearingInv, NEW c \in Chunks, Output(c)
  PROVE  HearingInv'
<1> DEFINE t    == th[c]
           r    == t.best.run
           said == ~(t.quiet /\ t.best.low)
           past1 == (IF par.carry_initial_prompt THEN <<>> ELSE t.prompt)
                    \o (IF said THEN Tokens(r.len) ELSE <<>>)
           delta == IF SingleTimestampEnding(r.tokens)
                    THEN AtMost(t.seek_end - t.seek, ChunkFrames) ELSE r.delta
           results == st[c].results \o (IF r.tokens # <<>> /\ said
                                        THEN Segments(par, r, t.seek) ELSE <<>>)
           s  == [st[c] EXCEPT !.past1 = past1, !.results = results]
           on == [t EXCEPT !.at = "window", !.seek = @ + delta,
                           !.best = NoBest, !.prompt = <<>>, !.quiet = FALSE]
<1>1. t.at = "output" /\ UNCHANGED <<call, par, audio, main>>
  BY DEF Output
<1>2. /\ t.offset \in Int /\ st[c].mel.frames \in Int /\ ThreadOK(t) /\ StateOK(st[c])
      /\ WholeCall(par) => HasHeard(par, st[c], t)
  BY <1>1, RunsInChunk
<1>3. ChunkFrames \in Nat /\ AudioCtx \in Nat /\ ChunkFrames <= 2 * AudioCtx
  BY FullAssumption DEF FullAssumption
<1>4. ASSUME WholeCall(par)
      PROVE  /\ t.seek \in Int /\ delta \in Int /\ delta <= ChunkFrames
             /\ t.seek_end = st[c].mel.frames /\ HeardTo(t, t.seek + 2 * AudioCtx)
  <2>1. /\ t.seek \in Int /\ t.seek_end \in Int
        /\ t.seek_end = st[c].mel.frames /\ HeardTo(t, t.seek + 2 * AudioCtx)
    BY <1>1, <1>2, <1>4 DEF HasHeard, Decoding
  <2>2. r.delta \in 0..ChunkFrames
    BY <1>1, <1>2 DEF ThreadOK, Spoken
  <2>3. /\ AtMost(t.seek_end - t.seek, ChunkFrames) \in Int
        /\ AtMost(t.seek_end - t.seek, ChunkFrames) <= ChunkFrames
    BY <1>3, <2>1 DEF AtMost
  <2> QED BY <1>3, <2>1, <2>2, <2>3
<1> HIDE DEF past1, results, delta
<1>5. /\ st' = [st EXCEPT ![c].past1 = past1, ![c].results = results]
      /\ th' = [th EXCEPT ![c] = on]
  BY DEF Output, SetThread, past1, results, delta
<1>6. st' = [st EXCEPT ![c] = s] /\ s.mel = st[c].mel
  BY <1>2, <1>5 DEF PromptInv, PromptTypes, StateOK, FreeState
<1>7. /\ on.lo = t.lo /\ on.hi = t.hi /\ on.offset = t.offset /\ on.seek = t.seek + delta
      /\ on.seek_end = t.seek_end /\ on.heard = t.heard /\ on.at = "window"
  BY <1>2 DEF ThreadOK, Idle
<1> HIDE DEF on, s
<1>8. ASSUME WholeCall(par)
      PROVE  HasHeard(par, s, on)
  <2>1. /\ t.seek \in Int /\ delta \in Int /\ delta <= ChunkFrames
        /\ t.seek_end = st[c].mel.frames /\ HeardTo(t, t.seek + 2 * AudioCtx)
    BY <1>4, <1>8
  <2>2. HeardTo(on, on.seek)
    <3> SUFFICES ASSUME NEW f \in t.offset..(t.seek + delta - 1)
                 PROVE  f \in t.heard
      BY <1>2, <1>7, <2>1 DEF HeardTo
    <3>1. f \in t.offset..(t.seek + 2 * AudioCtx - 1)
      BY <1>2, <1>3, <2>1
    <3> QED BY <1>2, <1>3, <2>1, <3>1 DEF HeardTo
  <2> QED BY <1>6, <1>7, <2>1, <2>2 DEF HasHeard, Decoding
<1> QED BY <1>1, <1>2, <1>5, <1>6, <1>7, <1>8, HearingOfChunk

LEMMA StartHearing ==
  ASSUME PromptInv, HearingInv, Start
  PROVE  HearingInv'
<1>1. th = [c \in Chunks |-> Idle] /\ call \in Nat /\ main = "idle"
  BY DEF PromptInv, PromptTypes, IdleBetween, Start
<1>2. Len(Calls) \in Nat
  BY FullAssumption DEF FullAssumption
<1>3. MelsCounted'
  <2>1. 0 \in Chunks
    BY FullAssumption DEF FullAssumption, Chunks
  <2>2. st' = st \/ st' = [st EXCEPT ![0].results = <<>>]
    BY DEF Start
  <2> QED BY <2>1, <2>2 DEF HearingInv, MelsCounted, PromptInv, PromptTypes, StateOK, FreeState
<1>0. "len" \in DOMAIN audio'
  <2>1. \A segs, n : "len" \in DOMAIN Filtered(segs, n)
    BY DEF Filtered, NoAudio
  <2>2. \/ audio' = NoAudio \/ \E segs, n : audio' = Filtered(segs, n)
        \/ \E n : audio' = [audio EXCEPT !.len = n]
    BY DEF Start
  <2> QED BY <2>1, <2>2 DEF HearingInv, NoAudio
<1>4. \/ main' = "done" /\ th' = th
      \/ /\ main' = "run" /\ par' \in Params /\ audio'.len \in Int
         /\ th' = Threads(par', audio'.len)
  <2>1. PICK p \in Calls[call + 1] :
          /\ par' = p
          /\ \/ p.vads # {} /\ main' = "done" /\ UNCHANGED th
             \/ \E probs \in p.vads :
                  LET f == Filtered(VadSegments(probs, p.max_speech), p.samples)
                  IN  /\ audio' = f
                      /\ \/ main' = "done" /\ UNCHANGED th
                         \/ main' = "run" /\ th' = Threads(p, f.len)
             \/ /\ main' = "run" /\ audio' = [audio EXCEPT !.len = p.samples]
                /\ th' = Threads(p, p.samples)
    BY DEF Start
  <2>2. p \in Params
    BY <1>1, <1>2, <2>1, CallParams DEF Start
  <2>3. p.samples \in Int /\ \A probs \in p.vads : Len(probs) \in Nat
    BY <2>2, ParamsTyped
  <2>4. \A probs \in p.vads : Filtered(VadSegments(probs, p.max_speech), p.samples).len \in Int
    BY <2>3, FilteredIsNumber
  <2>5. ASSUME audio' = [audio EXCEPT !.len = p.samples]
        PROVE  audio'.len = p.samples
    BY <2>5 DEF HearingInv
  <2> QED BY <2>1, <2>2, <2>3, <2>4, <2>5
<1>5. CASE main' = "done" /\ th' = th
  BY <1>1, <1>0, <1>3, <1>5 DEF HearingInv, ChunksPlaced, RunsInCall, Idle
<1>6. CASE /\ main' = "run" /\ par' \in Params /\ audio'.len \in Int
           /\ th' = Threads(par', audio'.len)
  <2>1. \A c \in Chunks : /\ th'[c].at \in {"idle", "begin"}
                          /\ c < par'.processors => th'[c].at # "idle"
    <3>1. ASSUME NEW c \in Chunks
          PROVE  /\ th'[c].at \in {"idle", "begin"}
                 /\ c < par'.processors => th'[c].at # "idle"
      <4>1. c \in Int /\ par'.processors \in Int
        BY <1>6, ParamsTyped, FullAssumption DEF FullAssumption, Chunks
      <4>2. \A p, n : /\ Threads(p, n)[c].at \in {"idle", "begin"}
                      /\ ~(c >= p.processors) => Threads(p, n)[c].at = "begin"
        BY DEF Threads, Idle
      <4> QED BY <1>6, <4>1, <4>2
    <3> QED BY <3>1
  <2>2. ChunksPlaced'
    BY <1>6, <2>1 DEF ChunksPlaced, Threads
  <2>3. RunsInCall'
    BY <1>6 DEF RunsInCall
  <2>4. (\A c \in Chunks : HasHeard(par, st[c], th[c]))'
    BY <2>1 DEF HasHeard, Decoding
  <2> QED BY <1>6, <1>0, <1>3, <2>2, <2>3, <2>4 DEF HearingInv
<1> QED BY <1>4, <1>5, <1>6

LEMMA JoinHearing ==
  ASSUME PromptInv, HearingInv, Join
  PROVE  HearingInv'
<1>1. main' = "done" /\ UNCHANGED <<call, par, audio, th>>
        /\ \A c \in Chunks : th[c].at \in {"idle", "done"}
  BY DEF Join
<1>2. \A c \in Chunks : st'[c] = FreeState \/ \E x : st'[c] = [st[0] EXCEPT !.results = x]
  BY DEF Join
<1>3. MelsCounted'
  <2>1. 0 \in Chunks
    BY FullAssumption DEF FullAssumption, Chunks
  <2>2. FreeState.mel.frames \in Int
    BY DEF FreeState, NoMel
  <2>3. \A x : [st[0] EXCEPT !.results = x].mel.frames \in Int
    BY <2>1 DEF HearingInv, MelsCounted, PromptInv, PromptTypes, StateOK, FreeState
  <2> QED BY <1>2, <2>2, <2>3 DEF MelsCounted
<1> QED BY <1>1, <1>3 DEF HearingInv, ChunksPlaced, RunsInCall

LEMMA ReturnHearing ==
  ASSUME PromptInv, HearingInv, Return
  PROVE  HearingInv'
<1>1. main' = "idle" /\ th' = [c \in Chunks |-> Idle] /\ UNCHANGED <<call, par, audio, st>>
  BY DEF Return
<1> QED BY <1>1 DEF HearingInv, ChunksPlaced, RunsInCall, MelsCounted, Idle

LEMMA HearingInit ==
  ASSUME FullInit
  PROVE  HearingInv
BY DEF FullInit, HearingInv, ChunksPlaced, RunsInCall, MelsCounted, Idle, FreeState, NoMel,
       NoAudio

LEMMA HearingNext ==
  ASSUME PromptInv, HearingInv, [FullNext]_fullVars
  PROVE  HearingInv'
<1>1. CASE UNCHANGED fullVars
  BY <1>1 DEF fullVars, HearingInv, ChunksPlaced, RunsInCall, MelsCounted, HasHeard, HeardTo,
              WholeCall, Threads
<1>2. ASSUME NEW c \in Chunks, Decode(c)
      PROVE  HearingInv'
  BY <1>2, BeginHearing, WindowHearing, PassHearing, OutputHearing DEF Decode
<1> QED BY <1>1, <1>2, StartHearing, JoinHearing, ReturnHearing DEF FullNext

\* The frame of a sample.
LEMMA FrameOfSample ==
  ASSUME NEW x \in Int, NEW q \in Int, x >= q * SamplesPerCs
  PROVE  x \div SamplesPerCs \in Int /\ x \div SamplesPerCs >= q
<1> DEFINE s == SamplesPerCs
           d == x \div s
<1>1. s \in Nat \ {0}
  BY VadAssumption DEF VadAssumption
<1>2. d \in Int /\ x < s * (d + 1)
  BY <1>1
<1> HIDE DEF d, s
<1>3. ASSUME d < q PROVE FALSE
  <2>1. d + 1 <= q
    BY <1>2, <1>3
  <2>2. s * (d + 1) <= s * q
    <3>1. q - (d + 1) \in Nat
      BY <1>2, <2>1
    <3>2. s * (q - (d + 1)) >= 0
      BY <1>1, <3>1
    <3>3. s * (q - (d + 1)) = s * q - s * (d + 1)
      BY <1>1, <1>2
    <3> QED BY <1>1, <1>2, <3>2, <3>3
  <2>3. s * q = q * s /\ s * (d + 1) \in Int /\ s * q \in Int
    BY <1>1, <1>2
  <2> QED BY <1>1, <1>2, <2>2, <2>3 DEF s
<1> QED BY <1>2, <1>3 DEF d, s

\* A sample of the audio is in the last chunk that begins before it.
LEMMA ChunkOfSample ==
  ASSUME NEW p \in Params, NEW n \in Int, NEW x \in (p.offset * SamplesPerCs)..(n - 1)
  PROVE  \E c \in Chunks : /\ c < p.processors
                           /\ x \in Threads(p, n)[c].lo..(Threads(p, n)[c].hi - 1)
                           /\ x - Threads(p, n)[c].lo
                                >= Threads(p, n)[c].offset * SamplesPerCs
<1>1. /\ p.processors \in 1..MaxProcessors /\ MaxProcessors \in Nat /\ p.offset \in Nat
      /\ SamplesPerCs \in Nat
  BY ParamsTyped, FullAssumption, VadAssumption DEF FullAssumption, VadAssumption
<1>2. p.offset * SamplesPerCs \in Nat /\ x \in Nat
  BY <1>1
<1> DEFINE P == 0..(p.processors - 1)
           before == {c \in P : c = 0 \/ ChunkStart(p, n, c) <= x}
<1>3. P \subseteq Chunks /\ 0 \in before /\ before \in SUBSET P /\ p.processors - 1 \in Nat
  BY <1>1 DEF Chunks
<1>4. PICK c \in before : \A d \in before : d <= c
  <2> HIDE DEF before
  <2> QED BY <1>3, GreatestNumber
<1>5. /\ c \in Chunks /\ c \in Int /\ c < p.processors
      /\ c = 0 \/ ChunkStart(p, n, c) <= x
  BY <1>1, <1>3, <1>4
<1>6. x < ChunkEnd(p, n, c) /\ ChunkEnd(p, n, c) \in Int
  <2>1. CASE c = p.processors - 1
    BY <1>2, <2>1 DEF ChunkEnd
  <2>2. CASE c # p.processors - 1
    <3>1. c + 1 \in P /\ c + 1 \in Chunks /\ c + 1 # 0 /\ ~(c + 1 <= c)
      BY <1>1, <1>3, <1>4, <2>2
    <3>2. ~(ChunkStart(p, n, c + 1) <= x)
      BY <1>4, <3>1
    <3>3. ChunkStart(p, n, c + 1) \in Int
      BY <3>1, PlaceOfChunk
    <3> QED BY <1>2, <2>2, <3>2, <3>3 DEF ChunkEnd
  <2> QED BY <2>1, <2>2
<1>7. /\ Threads(p, n)[c].hi = ChunkEnd(p, n, c)
      /\ Threads(p, n)[c].lo = IF c = 0 THEN 0 ELSE ChunkStart(p, n, c)
      /\ Threads(p, n)[c].offset = IF c = 0 THEN p.offset ELSE 0
  <2>1. ~(c >= p.processors)
    BY <1>1, <1>5
  <2> QED BY <1>5, <2>1 DEF Threads, Idle
<1>8. CASE c = 0
  BY <1>1, <1>2, <1>5, <1>6, <1>7, <1>8
<1>9. CASE c # 0
  <2>1. ChunkStart(p, n, c) \in Int
    BY <1>5, PlaceOfChunk
  <2>2. 0 * SamplesPerCs = 0
    BY <1>1
  <2> QED BY <1>1, <1>2, <1>5, <1>6, <1>7, <1>9, <2>1, <2>2
<1> QED BY <1>8, <1>9

\* When a call's threads have succeeded, the encoder has seen all of its audio,
\* for any calls, any number of processors and any bounds.
THEOREM FullAudioIsHeard == FullSpec => []AudioIsHeard
<1>1. PromptInv /\ HearingInv => AudioIsHeard
  <2> SUFFICES ASSUME PromptInv, HearingInv, main = "run",
                      par.duration = 0, par.audio_ctx = 0, par.language # "detect",
                      \A c \in Chunks : th[c].at = "idle" \/ (th[c].at = "done"
                                          /\ th[c].ret = 0 /\ ~th[c].aborted),
                      NEW x \in (par.offset * SamplesPerCs)..(audio.len - 1)
               PROVE  \E c \in Chunks : HeardBy(c, x)
    BY DEF AudioIsHeard
  <2>1. par \in Params /\ audio.len \in Int
    BY DEF PromptInv, PromptTypes, HearingInv, ChunksPlaced
  <2>2. PICK c \in Chunks : /\ c < par.processors
                            /\ x \in Threads(par, audio.len)[c].lo
                                       ..(Threads(par, audio.len)[c].hi - 1)
                            /\ x - Threads(par, audio.len)[c].lo
                                 >= Threads(par, audio.len)[c].offset * SamplesPerCs
    BY <2>1, ChunkOfSample
  <2> DEFINE t == th[c]
             f == (x - t.lo) \div SamplesPerCs
  <2>3. /\ x \in t.lo..(t.hi - 1) /\ x - t.lo >= t.offset * SamplesPerCs
        /\ t.at = "done" /\ t.ret = 0 /\ ~t.aborted /\ HasHeard(par, st[c], t)
    BY <2>1, <2>2 DEF HearingInv, ChunksPlaced, WholeCall
  <2>4. t.lo \in Int /\ t.offset \in Int /\ x \in Int /\ st[c].mel.frames \in Int
    BY <2>1, <2>3, PlaceOfChunk DEF HearingInv, ChunksPlaced, MelsCounted
  <2>5. f \in Int /\ f >= t.offset
    BY <2>3, <2>4, FrameOfSample
  <2>6. PICK n \in Int : HeardTo(t, n) /\ n + DeltaMin >= st[c].mel.frames
    BY <2>3 DEF HasHeard
  <2> HIDE DEF f
  <2>7. f \in t.heard \/ f >= st[c].mel.frames - DeltaMin
    <3>1. DeltaMin \in Int
      BY FullAssumption DEF FullAssumption
    <3>2. CASE f < n
      BY <2>4, <2>5, <2>6, <3>2 DEF HeardTo
    <3>3. CASE ~(f < n)
      BY <2>4, <2>5, <2>6, <3>1, <3>3
    <3> QED BY <3>2, <3>3
  <2> QED BY <2>3, <2>7 DEF HeardBy, f
<1> QED BY <1>1, PromptInit, PromptNext, HearingInit, HearingNext, PTL DEF FullSpec

-------------------------------------------------------------------------------
(* The transcript.                                                            *)

Texts == [t0 : Int, t1 : Int, by : Origins, guess : BOOLEAN, unset : BOOLEAN]

\* Segments that follow one another.
Chrono(segs) ==
  /\ \A k \in 1..(Len(segs) - 1) : segs[k + 1].unset \/ segs[k].t1 <= segs[k + 1].t0
  /\ \A k \in 1..Len(segs) : segs[k].guess \/ segs[k].t0 <= segs[k].t1

LEMMA TextFields ==
  ASSUME NEW segs \in Seq(Texts)
  PROVE  /\ Len(segs) \in Nat
         /\ \A k \in 1..Len(segs) : /\ segs[k] \in Texts /\ segs[k].t0 \in Int
                                    /\ segs[k].t1 \in Int
         /\ segs # <<>> => /\ Len(segs) \in 1..Len(segs) /\ 1 \in 1..Len(segs)
                           /\ Last(segs) = segs[Len(segs)] /\ Last(segs) \in Texts
                           /\ Last(segs).t0 \in Int /\ Last(segs).t1 \in Int
<1>1. Len(segs) \in Nat /\ \A k \in 1..Len(segs) : segs[k] \in Texts
  OBVIOUS
<1>2. \A s \in Texts : s.t0 \in Int /\ s.t1 \in Int
  BY DEF Texts
<1>3. segs # <<>> => Len(segs) \in 1..Len(segs) /\ 1 \in 1..Len(segs)
  OBVIOUS
<1>4. Last(segs) = segs[Len(segs)]
  BY DEF Last
<1>. QED BY <1>1, <1>2, <1>3, <1>4

\* Two transcripts make one if the second begins after the end of the first.
LEMMA ChronoJoin ==
  ASSUME NEW a \in Seq(Texts), NEW b \in Seq(Texts), Chrono(a), Chrono(b),
         a # <<>> /\ b # <<>> => b[1].unset \/ Last(a).t1 <= b[1].t0
  PROVE  /\ a \o b \in Seq(Texts) /\ Chrono(a \o b)
         /\ a = <<>> => a \o b = b
         /\ b = <<>> => a \o b = a
         /\ b # <<>> => Last(a \o b) = Last(b)
<1>. DEFINE n == Len(a)
            m == Len(b)
            j == a \o b
<1>1. /\ n \in Nat /\ m \in Nat /\ j \in Seq(Texts) /\ Len(j) = n + m
      /\ \A k \in 1..n : j[k] = a[k]
      /\ \A k \in 1..m : j[n + k] = b[k]
  OBVIOUS
<1>2. /\ a = <<>> => a \o b = b
      /\ b = <<>> => a \o b = a
  OBVIOUS
<1>3. b # <<>> => m > 0 /\ Last(b) = b[m]
  BY DEF Last
<1>4. a # <<>> => n > 0 /\ Last(a) = a[n]
  BY DEF Last
<1>5. Last(j) = j[Len(j)] /\ (n = 0 => a = <<>>) /\ (m = 0 => b = <<>>)
  BY DEF Last
<1>. HIDE DEF n, m, j
<1>6. b # <<>> => Last(j) = Last(b)
  BY <1>1, <1>3, <1>5
<1>7. \A k \in 1..(n - 1) : a[k + 1].unset \/ a[k].t1 <= a[k + 1].t0
  BY DEF Chrono, n
<1>8. \A k \in 1..(m - 1) : b[k + 1].unset \/ b[k].t1 <= b[k + 1].t0
  BY DEF Chrono, m
<1>9. /\ \A k \in 1..n : a[k].guess \/ a[k].t0 <= a[k].t1
      /\ \A k \in 1..m : b[k].guess \/ b[k].t0 <= b[k].t1
  BY DEF Chrono, n, m
<1>10. ASSUME NEW k \in 1..(n + m - 1)
       PROVE  j[k + 1].unset \/ j[k].t1 <= j[k + 1].t0
  <2>1. CASE k < n
    <3>1. k \in 1..(n - 1) /\ k \in 1..n /\ k + 1 \in 1..n
      BY <1>1, <2>1
    <3>2. j[k] = a[k] /\ j[k + 1] = a[k + 1]
      BY <1>1, <3>1
    <3>. QED BY <1>7, <3>1, <3>2
  <2>2. CASE k = n
    <3>1. k \in 1..n /\ 1 \in 1..m /\ n # 0 /\ m # 0
      BY <1>1, <2>2
    <3>2. j[k] = a[n] /\ j[k + 1] = b[1]
      BY <1>1, <2>2, <3>1
    <3>3. a # <<>> /\ b # <<>>
      BY <3>1 DEF n, m
    <3>. QED BY <1>4, <3>2, <3>3
  <2>3. CASE k > n
    <3>. DEFINE i == k - n
    <3>1. i \in 1..(m - 1) /\ i \in 1..m /\ i + 1 \in 1..m /\ k = n + i /\ k + 1 = n + (i + 1)
      BY <1>1, <2>3
    <3>. HIDE DEF i
    <3>2. j[k] = b[i] /\ j[k + 1] = b[i + 1]
      BY <1>1, <3>1
    <3>. QED BY <1>8, <3>1, <3>2
  <2>. QED BY <1>1, <2>1, <2>2, <2>3
<1>11. ASSUME NEW k \in 1..(n + m) PROVE j[k].guess \/ j[k].t0 <= j[k].t1
  <2>1. CASE k <= n
    <3>1. k \in 1..n
      BY <1>1, <2>1
    <3>. QED BY <1>1, <1>9, <3>1
  <2>2. CASE k > n
    <3>. DEFINE i == k - n
    <3>1. i \in 1..m /\ k = n + i
      BY <1>1, <2>2
    <3>. HIDE DEF i
    <3>. QED BY <1>1, <1>9, <3>1
  <2>. QED BY <1>1, <2>1, <2>2
<1>12. Chrono(j)
  BY <1>1, <1>10, <1>11 DEF Chrono
<1>. QED BY <1>1, <1>2, <1>6, <1>12 DEF j

LEMMA ChronoAppend ==
  ASSUME NEW a \in Seq(Texts), NEW s \in Texts, Chrono(a), s.guess \/ s.t0 <= s.t1,
         a # <<>> => s.unset \/ Last(a).t1 <= s.t0
  PROVE  /\ Append(a, s) \in Seq(Texts) /\ Chrono(Append(a, s)) /\ Last(Append(a, s)) = s
         /\ Append(a, s) # <<>>
<1>. DEFINE b == <<s>>
<1>1. /\ b \in Seq(Texts) /\ b # <<>> /\ b[1] = s /\ Len(b) = 1 /\ Append(a, s) = a \o b
      /\ Append(a, s) # <<>>
  OBVIOUS
<1>2. Last(b) = s
  BY <1>1 DEF Last
<1>. HIDE DEF b
<1>3. Chrono(b)
  BY <1>1 DEF Chrono
<1>. QED BY <1>1, <1>2, <1>3, ChronoJoin

\* What the first k tokens of a window have told: the segments so far, and a text
\* that begins where the window does or at one of their timestamps.
Telling == [text : BOOLEAN, t0 : Int, segs : Seq(Texts)]
Told(a, r, seek, k) ==
  /\ Chrono(a.segs) /\ \A j \in 1..Len(a.segs) : a.segs[j].t1 <= seek + r.delta
  /\ a.text => k >= 1
  /\ a.segs # <<>> => /\ Last(a.segs).t1 <= a.t0
                      /\ a.segs[1].unset \/ seek <= a.segs[1].t0
  /\ \/ a.segs = <<>> /\ a.t0 = seek + 2 * r.tid
     \/ \E j \in 1..k : r.tokens[j] > 0 /\ a.t0 = seek + 2 * r.tokens[j]

\* A segment that ends where no timestamp of it is behind.
LEMMA SegmentTold ==
  ASSUME NEW r, Spoken(r), NEW seek \in Int, NEW k \in 0..Len(r.tokens), k >= 1,
         NEW a \in Telling, Told(a, r, seek, k), NEW s \in Texts,
         s.t0 = a.t0, s.t1 <= seek + r.delta,
         s.guess <=> (a.segs = <<>> /\ ~IsStamp(r.tokens[1])),
         s.unset <=> (a.segs = <<>> /\ r.tid < 0),
         seek + 2 * r.tokens[1] <= s.t1,
         \A j \in 1..k : seek + 2 * r.tokens[j] <= s.t1
  PROVE  /\ Append(a.segs, s) \in Seq(Texts) /\ Chrono(Append(a.segs, s))
         /\ \A j \in 1..Len(Append(a.segs, s)) : Append(a.segs, s)[j].t1 <= seek + r.delta
         /\ Append(a.segs, s) # <<>> /\ Last(Append(a.segs, s)).t1 = s.t1
         /\ Append(a.segs, s)[1].unset \/ seek <= Append(a.segs, s)[1].t0
<1>1. a.segs \in Seq(Texts) /\ a.t0 \in Int
  BY DEF Telling
<1>2. s.t0 \in Int /\ s.t1 \in Int
  BY DEF Texts
<1>3. /\ r.tokens \in Seq(Sampled) /\ r.tid \in Int /\ Sampled \subseteq Int
      /\ r.tokens # <<>> /\ r.tokens[1] >= 0 => r.tid = r.tokens[1]
  BY DEF Spoken, Sampled, Stamps, Text, Eot
<1>4. /\ r.tokens # <<>> /\ 1 \in 1..Len(r.tokens)
      /\ \A j \in 1..Len(r.tokens) : r.tokens[j] \in Int
  <2>1. Len(r.tokens) \in Nat /\ Len(r.tokens) >= 1
    BY <1>3
  <2>2. \A j \in 1..Len(r.tokens) : r.tokens[j] \in Sampled
    BY <1>3
  <2>3. r.tokens # <<>> /\ 1 \in 1..Len(r.tokens)
    BY <2>1
  <2>. QED BY <1>3, <2>2, <2>3
<1>5. /\ Chrono(a.segs)
      /\ a.segs # <<>> => /\ Last(a.segs).t1 <= a.t0
                          /\ a.segs[1].unset \/ seek <= a.segs[1].t0
      /\ \A j \in 1..Len(a.segs) : a.segs[j].t1 <= seek + r.delta
      /\ \/ a.segs = <<>> /\ a.t0 = seek + 2 * r.tid
         \/ \E j \in 1..k : r.tokens[j] > 0 /\ a.t0 = seek + 2 * r.tokens[j]
  BY DEF Told
<1>6. s.guess \/ s.t0 <= s.t1
  <2>1. CASE \E j \in 1..k : r.tokens[j] > 0 /\ a.t0 = seek + 2 * r.tokens[j]
    BY <2>1
  <2>2. CASE a.segs = <<>> /\ a.t0 = seek + 2 * r.tid
    <3>1. CASE IsStamp(r.tokens[1])
      <4>1. r.tid = r.tokens[1]
        BY <1>3, <1>4, <3>1 DEF IsStamp
      <4>. QED BY <2>2, <4>1
    <3>2. CASE ~IsStamp(r.tokens[1])
      BY <2>2, <3>2
    <3>. QED BY <3>1, <3>2
  <2>. QED BY <1>5, <2>1, <2>2
<1>7. s.unset \/ seek <= s.t0
  <2>1. CASE \E j \in 1..k : r.tokens[j] > 0 /\ a.t0 = seek + 2 * r.tokens[j]
    <3>1. PICK j \in 1..k : r.tokens[j] > 0 /\ a.t0 = seek + 2 * r.tokens[j]
      BY <2>1
    <3>2. r.tokens[j] \in Int
      BY <1>4
    <3>. QED BY <3>1, <3>2
  <2>2. CASE a.segs = <<>> /\ a.t0 = seek + 2 * r.tid
    BY <1>3, <2>2
  <2>. QED BY <1>5, <2>1, <2>2
<1>8. /\ Append(a.segs, s) \in Seq(Texts) /\ Chrono(Append(a.segs, s))
      /\ Last(Append(a.segs, s)) = s /\ Append(a.segs, s) # <<>>
  BY <1>1, <1>5, <1>6, ChronoAppend
<1>9. \A j \in 1..Len(Append(a.segs, s)) : \/ j \in 1..Len(a.segs) /\ Append(a.segs, s)[j] = a.segs[j]
                                           \/ j = Len(a.segs) + 1 /\ Append(a.segs, s)[j] = s
  <2>. DEFINE b == a.segs
              c == Append(b, s)
  <2>1. b \in Seq(Texts)
    BY <1>1
  <2>. HIDE DEF b
  <2>2. Len(c) = Len(b) + 1 /\ Len(b) \in Nat /\ c[Len(b) + 1] = s
    BY <2>1
  <2>3. \A j \in 1..Len(b) : c[j] = b[j]
    BY <2>1
  <2>. HIDE DEF c
  <2>4. \A j \in 1..Len(c) : \/ j \in 1..Len(b) /\ c[j] = b[j]
                             \/ j = Len(b) + 1 /\ c[j] = s
    BY <2>2, <2>3
  <2>. QED BY <2>4 DEF b, c
<1>10. \A j \in 1..Len(Append(a.segs, s)) : Append(a.segs, s)[j].t1 <= seek + r.delta
  BY <1>5, <1>9
<1>11. /\ a.segs = <<>> => Append(a.segs, s)[1] = s
       /\ a.segs # <<>> => Append(a.segs, s)[1] = a.segs[1]
  BY <1>1
<1>12. Append(a.segs, s)[1].unset \/ seek <= Append(a.segs, s)[1].t0
  BY <1>5, <1>7, <1>11
<1>. QED BY <1>8, <1>10, <1>12

\* The segments of a window lie in it, follow one another, and the first of them
\* begins in it or has no begin.
InWindow(segs, r, seek) ==
  /\ segs \in Seq(Texts) /\ Chrono(segs)
  /\ \A j \in 1..Len(segs) : segs[j].t1 <= seek + r.delta
  /\ segs # <<>> => segs[1].unset \/ seek <= segs[1].t0

LEMMA SegmentsInWindow ==
  ASSUME call \in Origins, NEW p, NEW r, Spoken(r), NEW seek \in Int
  PROVE  InWindow(Segments(p, r, seek), r, seek)
<1>. DEFINE n == Len(r.tokens)
            T == Telling
            seg(from, to, count) == [t0 |-> from, t1 |-> to, by |-> call,
                                     guess |-> count = 0 /\ ~IsStamp(r.tokens[1]),
                                     unset |-> count = 0 /\ r.tid < 0]
            take(a, token) ==
              IF token = Text THEN [a EXCEPT !.text = TRUE]
              ELSE IF token > 0 /\ ~p.single_segment
              THEN [text |-> FALSE, t0 |-> seek + 2 * token,
                    segs |-> IF a.text
                             THEN Append(a.segs, seg(a.t0, seek + 2 * token, Len(a.segs)))
                             ELSE a.segs]
              ELSE a
            step(a, k) == take(a, r.tokens[k])
            b == [text |-> FALSE, t0 |-> seek + 2 * r.tid, segs |-> <<>>]
            body(f, k) == IF k = 0 THEN b ELSE step(f[k - 1], k)
            after == CHOOSE f : f = [k \in 0..n |-> body(f, k)]
            F == [k \in 1..n |-> [x \in T |-> step(x, k)]]
<1>1. Segments(p, r, seek) = IF after[n].text
                             THEN Append(after[n].segs,
                                         seg(after[n].t0, seek + r.delta, Len(after[n].segs)))
                             ELSE after[n].segs
  BY DEF Segments
<1>2. /\ r.tokens \in Seq(Sampled) /\ r.tid \in Int /\ Sampled \subseteq Int /\ n \in Nat
      /\ r.delta \in Nat
  BY FullAssumption, SMTT(30) DEF FullAssumption, Spoken, Sampled, Stamps, Text, Eot
<1>3. \A k \in 1..n : r.tokens[k] \in Int
  <2>1. \A k \in 1..n : r.tokens[k] \in Sampled
    BY <1>2
  <2>. QED BY <1>2, <2>1
<1>4. \A from, to \in Int : \A count :
        /\ seg(from, to, count) \in Texts
        /\ seg(from, to, count).t0 = from /\ seg(from, to, count).t1 = to
        /\ seg(from, to, count).guess <=> (count = 0 /\ ~IsStamp(r.tokens[1]))
        /\ seg(from, to, count).unset <=> (count = 0 /\ r.tid < 0)
  BY DEF Texts
<1>5. b \in T /\ Told(b, r, seek, 0)
  <2>. DEFINE t == seek + 2 * r.tid
              none == <<>>
  <2>1. t \in Int /\ none \in Seq(Texts) /\ Len(none) = 0 /\ Chrono(none)
    BY <1>2 DEF Chrono
  <2>2. b = [text |-> FALSE, t0 |-> t, segs |-> none]
    OBVIOUS
  <2>3. t = seek + 2 * r.tid /\ none = <<>>
    OBVIOUS
  <2>. HIDE DEF t, none, b
  <2>4. b.text = FALSE /\ b.t0 = t /\ b.segs = none /\ b \in Telling
    BY <2>1, <2>2 DEF Telling
  <2>. QED BY <2>1, <2>3, <2>4 DEF Told
<1>. HIDE DEF seg
<1>6. ASSUME NEW k \in 1..n, NEW x \in T
      PROVE  step(x, k) \in T
  <2>. DEFINE token == r.tokens[k]
              t == seek + 2 * token
              new == seg(x.t0, t, Len(x.segs))
  <2>1. t \in Int /\ x.t0 \in Int /\ x.segs \in Seq(Texts) /\ x.text \in BOOLEAN
    BY <1>2, <1>3 DEF Telling
  <2>2. new \in Texts
    BY <1>4, <2>1
  <2>. HIDE DEF new, t, token
  <2>3. Append(x.segs, new) \in Seq(Texts)
    BY <2>1, <2>2
  <2>4. step(x, k) \in {[x EXCEPT !.text = TRUE], x,
                        [text |-> FALSE, t0 |-> t, segs |-> Append(x.segs, new)],
                        [text |-> FALSE, t0 |-> t, segs |-> x.segs]}
    BY DEF new, t, token
  <2>5. [x EXCEPT !.text = TRUE] \in Telling
    BY <2>1 DEF Telling
  <2>6. \A u \in Seq(Texts) : [text |-> FALSE, t0 |-> t, segs |-> u] \in Telling
    BY <2>1 DEF Telling
  <2>. HIDE DEF step
  <2>. QED BY <2>1, <2>3, <2>4, <2>5, <2>6
<1>7. ASSUME NEW k \in 1..n, NEW x \in T, Told(x, r, seek, k - 1)
      PROVE  Told(step(x, k), r, seek, k)
  <2>. DEFINE token == r.tokens[k]
              t == seek + 2 * token
              new == seg(x.t0, t, Len(x.segs))
              y == step(x, k)
  <2>1. /\ t \in Int /\ x.t0 \in Int /\ x.segs \in Seq(Texts) /\ x.text \in BOOLEAN
        /\ token \in Int /\ k - 1 \in 0..n /\ k \in Nat /\ k >= 1
    BY <1>2, <1>3 DEF Telling
  <2>2. /\ Chrono(x.segs) /\ \A j \in 1..Len(x.segs) : x.segs[j].t1 <= seek + r.delta
        /\ x.text => k - 1 >= 1
        /\ x.segs # <<>> => /\ Last(x.segs).t1 <= x.t0
                            /\ x.segs[1].unset \/ seek <= x.segs[1].t0
        /\ \/ x.segs = <<>> /\ x.t0 = seek + 2 * r.tid
           \/ \E j \in 1..(k - 1) : r.tokens[j] > 0 /\ x.t0 = seek + 2 * r.tokens[j]
    BY <1>7 DEF Told
  <2>3. 1..(k - 1) \subseteq 1..k
    BY <2>1
  <2>4. CASE ~(token > 0 /\ ~p.single_segment) \/ token = Text
    <3>1. y \in {[x EXCEPT !.text = TRUE], x}
      BY <2>4
    <3>2. y.t0 = x.t0 /\ y.segs = x.segs
      BY <3>1 DEF Telling
    <3>. HIDE DEF y
    <3>3. Told(y, r, seek, k)
      BY <2>1, <2>2, <2>3, <3>2 DEF Told
    <3>. QED BY <3>3 DEF y
  <2>5. CASE token > 0 /\ ~p.single_segment /\ token # Text
    <3>. DEFINE segs == IF x.text THEN Append(x.segs, new) ELSE x.segs
    <3>1. y = [text |-> FALSE, t0 |-> t, segs |-> segs]
      BY <2>5
    <3>2. y.text = FALSE /\ y.t0 = t /\ y.segs = segs
      BY <3>1
    <3>3. k \in 1..k /\ r.tokens[k] > 0 /\ t = seek + 2 * r.tokens[k]
      BY <2>1, <2>5
    <3>4. \A j \in 1..k : seek + 2 * r.tokens[j] <= t
      <4>. SUFFICES ASSUME NEW j \in 1..k PROVE seek + 2 * r.tokens[j] <= t
        OBVIOUS
      <4>1. j \in 1..n /\ k \in 1..n /\ j <= k
        BY <1>2
      <4>2. r.tokens[j] <= r.tokens[k]
        BY <2>5, <4>1 DEF Spoken
      <4>3. r.tokens[j] \in Int /\ r.tokens[k] \in Int
        BY <1>3, <4>1
      <4>. QED BY <4>2, <4>3
    <3>5. t <= seek + r.delta
      <4>1. 2 * r.tokens[k] <= r.delta
        BY <1>2 DEF Spoken
      <4>. QED BY <1>2, <2>1, <4>1
    <3>6. ASSUME ~x.text PROVE Told(y, r, seek, k)
      <4>1. segs = x.segs
        BY <3>6
      <4>2. x.t0 <= t \/ x.segs = <<>>
        BY <2>2, <2>3, <3>4
      <4>3. x.segs # <<>> => Last(x.segs).t1 <= t
        <5>1. x.segs # <<>> => Last(x.segs).t1 \in Int
          BY <2>1, TextFields
        <5>. HIDE DEF t
        <5>. QED BY <2>1, <2>2, <4>2, <5>1
      <4>. HIDE DEF y, segs, t
      <4>. QED BY <2>2, <3>2, <3>3, <4>1, <4>3 DEF Told
    <3>7. ASSUME x.text PROVE Told(y, r, seek, k)
      <4>1. segs = Append(x.segs, new)
        BY <3>7
      <4>2. /\ new \in Texts /\ new.t0 = x.t0 /\ new.t1 = t
            /\ new.guess <=> (Len(x.segs) = 0 /\ ~IsStamp(r.tokens[1]))
            /\ new.unset <=> (Len(x.segs) = 0 /\ r.tid < 0)
        <5>. HIDE DEF t, token, y, segs
        <5>. QED BY <1>4, <2>1
      <4>3. /\ new.guess <=> (x.segs = <<>> /\ ~IsStamp(r.tokens[1]))
            /\ new.unset <=> (x.segs = <<>> /\ r.tid < 0)
        <5>1. Len(x.segs) = 0 <=> x.segs = <<>>
          BY <2>1
        <5>. HIDE DEF new
        <5>. QED BY <4>2, <5>1
      <4>4. Told(x, r, seek, k)
        <5>1. x.text => k >= 1
          BY <2>1
        <5>. QED BY <2>2, <2>3, <5>1 DEF Told
      <4>5. 1 \in 1..k
        BY <2>1
      <4>. HIDE DEF t, new, segs, y
      <4>6. /\ k \in 0..Len(r.tokens) /\ new.t1 <= seek + r.delta
            /\ seek + 2 * r.tokens[1] <= new.t1
            /\ \A j \in 1..k : seek + 2 * r.tokens[j] <= new.t1
        BY <2>1, <3>4, <3>5, <4>2, <4>5
      <4>7. /\ Chrono(segs) /\ segs # <<>> /\ Last(segs).t1 = t
            /\ \A j \in 1..Len(segs) : segs[j].t1 <= seek + r.delta
            /\ segs[1].unset \/ seek <= segs[1].t0
        <5>1. x \in Telling /\ new.t0 = x.t0 /\ k >= 1
          BY <2>1, <4>2
        <5>. HIDE DEF T
        <5>2. /\ Chrono(Append(x.segs, new)) /\ Append(x.segs, new) # <<>>
              /\ Last(Append(x.segs, new)).t1 = new.t1
              /\ \A j \in 1..Len(Append(x.segs, new)) :
                    Append(x.segs, new)[j].t1 <= seek + r.delta
              /\ Append(x.segs, new)[1].unset \/ seek <= Append(x.segs, new)[1].t0
          BY <4>2, <4>3, <4>4, <4>6, <5>1, SegmentTold, SMTT(30)
        <5>. QED BY <4>1, <4>2, <5>2
      <4>8. t <= t
        BY <2>1
      <4>. QED BY <3>2, <3>3, <4>7, <4>8 DEF Told
    <3>. QED BY <3>6, <3>7
  <2>. QED BY <2>4, <2>5
<1>8. \A f, k : body(f, k) = IF k = 0 THEN b ELSE step(f[k - 1], k)
  OBVIOUS
<1>. HIDE DEF T, step, b, body, n
<1>10. \A k \in 1..n : \A x \in T : F[k][x] = step(x, k)
  OBVIOUS
<1>. HIDE DEF F
<1>11. n \in Nat /\ StepsWithin(F, n, T)
  BY <1>2, <1>6, <1>10 DEF StepsWithin
<1>12. PICK g \in [0..n -> T] : Leads(g, n, b, F)
  BY <1>5, <1>11, Recursion
<1>13. g = [k \in 0..n |-> body(g, k)]
  <2>. SUFFICES ASSUME NEW k \in 0..n, k # 0 PROVE g[k] = step(g[k - 1], k)
    BY <1>8, <1>11, <1>12 DEF Leads
  <2>1. k \in 1..n /\ g[k - 1] \in T /\ g[k] = F[k][g[k - 1]]
    BY <1>11, <1>12 DEF Leads
  <2>. QED BY <1>10, <2>1
<1>14. after = [k \in 0..n |-> body(after, k)]
  BY <1>13
<1>. HIDE DEF after
<1>15. after[0] = b /\ \A k \in 1..n : after[k] = step(after[k - 1], k)
  <2>1. \A k \in 0..n : after[k] = body(after, k)
    BY <1>14
  <2>. QED BY <1>8, <1>11, <2>1
<1>16. \A k \in 0..n : after[k] \in T /\ Told(after[k], r, seek, k)
  <2>. DEFINE P == {k \in 0..n : after[k] \in T /\ Told(after[k], r, seek, k)}
  <2>1. 0 \in P
    BY <1>5, <1>11, <1>15
  <2>2. ASSUME NEW k \in 1..n, k - 1 \in P PROVE k \in P
    <3>1. after[k - 1] \in T /\ Told(after[k - 1], r, seek, k - 1)
      BY <2>2
    <3>2. step(after[k - 1], k) \in T /\ Told(step(after[k - 1], k), r, seek, k)
      BY <1>6, <1>7, <3>1
    <3>3. k \in 0..n
      BY <1>11
    <3>. QED BY <1>15, <3>2, <3>3
  <2>. HIDE DEF P
  <2>3. \A k \in 0..n : k \in P
    BY <1>11, <2>1, <2>2, Climbs, Zenon
  <2>. QED BY <2>3 DEF P
<1>. DEFINE all == after[n]
            end == seek + r.delta
            last == seg(all.t0, end, Len(all.segs))
<1>17. all \in Telling /\ Told(all, r, seek, n)
  <2>1. n \in 0..n
    BY <1>11
  <2>. QED BY <1>16, <2>1 DEF T
<1>18. all.segs \in Seq(Texts) /\ all.t0 \in Int /\ all.text \in BOOLEAN /\ end \in Int
  BY <1>2, <1>17 DEF Telling
<1>19. Segments(p, r, seek) = IF all.text THEN Append(all.segs, last) ELSE all.segs
  BY <1>1
<1>20. end = seek + r.delta
  OBVIOUS
<1>. HIDE DEF end, all
<1>21. CASE ~all.text
  BY <1>17, <1>18, <1>19, <1>21 DEF Told, InWindow
<1>22. CASE all.text
  <2>1. n >= 1 /\ n = Len(r.tokens) /\ n \in 0..Len(r.tokens)
    BY <1>2, <1>17, <1>22 DEF Told, n
  <2>2. \A j \in 1..n : seek + 2 * r.tokens[j] <= end
    <3>. SUFFICES ASSUME NEW j \in 1..n PROVE seek + 2 * r.tokens[j] <= end
      OBVIOUS
    <3>1. 2 * r.tokens[j] <= r.delta /\ r.tokens[j] \in Int
      BY <1>3, <2>1 DEF Spoken
    <3>. QED BY <1>2, <1>20, <3>1, SMTT(30)
  <2>3. 1 \in 1..n /\ end <= end
    BY <1>18, <2>1
  <2>4. /\ last \in Texts /\ last.t0 = all.t0 /\ last.t1 = end
        /\ last.guess <=> (Len(all.segs) = 0 /\ ~IsStamp(r.tokens[1]))
        /\ last.unset <=> (Len(all.segs) = 0 /\ r.tid < 0)
    BY <1>4, <1>18
  <2>. HIDE DEF last
  <2>5. /\ last.guess <=> (all.segs = <<>> /\ ~IsStamp(r.tokens[1]))
        /\ last.unset <=> (all.segs = <<>> /\ r.tid < 0)
    <3>1. Len(all.segs) = 0 <=> all.segs = <<>>
      BY <1>18
    <3>. QED BY <2>4, <3>1
  <2>6. last.t1 <= seek + r.delta /\ seek + 2 * r.tokens[1] <= last.t1
        /\ \A j \in 1..n : seek + 2 * r.tokens[j] <= last.t1
    BY <1>20, <2>2, <2>3, <2>4
  <2>7. /\ Append(all.segs, last) \in Seq(Texts) /\ Chrono(Append(all.segs, last))
        /\ \A j \in 1..Len(Append(all.segs, last)) :
              Append(all.segs, last)[j].t1 <= seek + r.delta
        /\ Append(all.segs, last)[1].unset \/ seek <= Append(all.segs, last)[1].t0
    BY <1>17, <2>1, <2>4, <2>5, <2>6, SegmentTold
  <2>. QED BY <1>19, <1>22, <2>7 DEF InWindow
<1>. QED BY <1>21, <1>22

Transcripts == {x \in Seq(Texts) : Chrono(x)}

\* The merge delays the begin of what would begin too early.
LEMMA MergeIsChrono ==
  ASSUME NEW a \in Transcripts, NEW s \in Texts, s.guess
  PROVE  Merge(a, s) \in Transcripts
<1>1. a \in Seq(Texts) /\ Chrono(a)
  BY DEF Transcripts
<1>2. CASE a = <<>>
  <2>1. Merge(a, s) = Append(a, s)
    BY <1>2 DEF Merge
  <2>. QED BY <1>1, <1>2, <2>1, ChronoAppend DEF Transcripts
<1>3. CASE a # <<>>
  <2>. DEFINE m == AtLeast(s.t0, Last(a).t1)
              q == [s EXCEPT !.t0 = m]
  <2>1. s.t0 \in Int /\ Last(a).t1 \in Int
    BY <1>1, <1>3, TextFields DEF Texts
  <2>2. m \in Int /\ Last(a).t1 <= m
    BY <2>1 DEF AtLeast
  <2>3. Merge(a, s) = Append(a, q)
    BY <1>3 DEF Merge
  <2>. HIDE DEF m
  <2>4. q \in Texts /\ q.t0 = m /\ q.guess
    BY <2>2 DEF Texts
  <2>. HIDE DEF q
  <2>5. Append(a, q) \in Seq(Texts) /\ Chrono(Append(a, q))
    BY <1>1, <2>2, <2>4, ChronoAppend
  <2>. QED BY <2>3, <2>5 DEF Transcripts
<1>. QED BY <1>2, <1>3

LEMMA MergeAllIsChrono ==
  ASSUME NEW own \in Transcripts, NEW rest \in Seq(Texts),
         \A k \in 1..Len(rest) : rest[k].guess
  PROVE  MergeAll(own, rest) \in Transcripts
<1>. DEFINE n == Len(rest)
            T == Transcripts
            step(x, k) == Merge(x, rest[k])
            body(f, k) == IF k = 0 THEN own ELSE step(f[k - 1], k)
            after == CHOOSE f : f = [k \in 0..n |-> body(f, k)]
            F == [k \in 1..n |-> [x \in T |-> step(x, k)]]
<1>1. MergeAll(own, rest) = after[n] /\ n \in Nat
  BY DEF MergeAll
<1>2. \A k \in 1..n : \A x \in T : step(x, k) \in T
  <2>1. \A k \in 1..n : rest[k] \in Texts /\ rest[k].guess
    OBVIOUS
  <2>. QED BY <2>1, MergeIsChrono
<1>3. \A f, k : body(f, k) = IF k = 0 THEN own ELSE step(f[k - 1], k)
  OBVIOUS
<1>4. own \in T
  OBVIOUS
<1>. HIDE DEF T, step, body, n
<1>5. \A k \in 1..n : \A x \in T : F[k][x] = step(x, k)
  OBVIOUS
<1>. HIDE DEF F
<1>6. n \in Nat /\ StepsWithin(F, n, T)
  BY <1>1, <1>2, <1>5 DEF StepsWithin
<1>7. PICK g \in [0..n -> T] : Leads(g, n, own, F)
  BY <1>4, <1>6, Recursion
<1>8. g = [k \in 0..n |-> body(g, k)]
  <2>. SUFFICES ASSUME NEW k \in 0..n, k # 0 PROVE g[k] = step(g[k - 1], k)
    BY <1>3, <1>6, <1>7 DEF Leads
  <2>1. k \in 1..n /\ g[k - 1] \in T /\ g[k] = F[k][g[k - 1]]
    BY <1>6, <1>7 DEF Leads
  <2>. QED BY <1>5, <2>1
<1>9. after = [k \in 0..n |-> body(after, k)]
  BY <1>8
<1>. HIDE DEF after
<1>10. after[0] = own /\ \A k \in 1..n : after[k] = step(after[k - 1], k)
  <2>1. \A k \in 0..n : after[k] = body(after, k)
    BY <1>9
  <2>. QED BY <1>3, <1>6, <2>1
<1>11. after[n] \in T
  <2>1. after[0] \in T /\ \A k \in 1..n : after[k - 1] \in T => after[k] \in T
    BY <1>2, <1>4, <1>10
  <2>. QED BY <1>1, <2>1, StaysWithin, Zenon
<1>. QED BY <1>1, <1>11 DEF T

\* Whether its product overflows or not, the time of a chunk is a number.
LEMMA TimeIsInt ==
  ASSUME NEW x \in Int, NEW wraps \in BOOLEAN
  PROVE  TimeOf(x, wraps) \in Int
<1>1. /\ SamplesPerCs \in Nat \ {0} /\ 100 * SamplesPerCs \in Nat \ {0}
      /\ IntSpan \in Nat \ {0}
  BY VadAssumption, IntAssumption DEF VadAssumption, IntAssumption
<1>. DEFINE half == IntSpan \div 2
            a == 100 * x + half
            y == AsInt(100 * x)
<1>2. half \in Int
  BY <1>1
<1>3. a \in Int
  <2>. HIDE DEF half
  <2>. QED BY <1>2
<1>4. y \in Int
  <2>. HIDE DEF a, half
  <2>1. a % IntSpan \in Int
    BY <1>1, <1>3
  <2>2. (a % IntSpan) - half \in Int
    BY <1>2, <2>1
  <2>3. y = (a % IntSpan) - half
    BY DEF AsInt, a, half
  <2>. QED BY <2>2, <2>3
<1>. HIDE DEF y
<1>5. Trunc(y, 100 * SamplesPerCs) \in Int /\ Trunc(x, SamplesPerCs) \in Int
  BY <1>1, <1>4, TruncIsInt
<1>. QED BY <1>5 DEF TimeOf, y

\* The results of a later chunk, at the time it begins.
LEMMA MovedTexts ==
  ASSUME NEW p \in Params, NEW n \in Int, NEW c \in Chunks, NEW segs \in Seq(Texts),
         NEW wraps \in BOOLEAN
  PROVE  LET moved == Moved(p, n, c, segs, wraps)
         IN  moved \in Seq(Texts) /\ \A k \in 1..Len(moved) : moved[k].guess
<1>. DEFINE by == TimeOf(c * PerProcessor(p, n), wraps) + p.offset
            m == [k \in 1..Len(segs) |->
                    [segs[k] EXCEPT !.t0 = @ + by, !.t1 = @ + by, !.guess = TRUE]]
<1>1. /\ SamplesPerCs \in Nat \ {0} /\ p.processors \in Nat \ {0} /\ p.offset \in Int
      /\ c \in Int
  BY ParamsTyped, VadAssumption, FullAssumption DEF VadAssumption, FullAssumption, Chunks
<1>2. PerProcessor(p, n) \in Int
  <2>. DEFINE x == n - p.offset * SamplesPerCs
  <2>1. x \in Int
    BY <1>1
  <2>. HIDE DEF x
  <2>2. Trunc(x, p.processors) \in Int
    BY <1>1, <2>1, TruncIsInt
  <2>. QED BY <2>2 DEF PerProcessor, x
<1>3. by \in Int
  <2>. DEFINE x == c * PerProcessor(p, n)
  <2>1. x \in Int
    BY <1>1, <1>2
  <2>. HIDE DEF x
  <2>2. TimeOf(x, wraps) \in Int
    BY <2>1, TimeIsInt
  <2>. QED BY <1>1, <2>2 DEF x
<1>4. Moved(p, n, c, segs, wraps) = m
  <2>1. DOMAIN segs = 1..Len(segs)
    OBVIOUS
  <2>. QED BY <2>1 DEF Moved
<1>. HIDE DEF by
<1>5. ASSUME NEW k \in 1..Len(segs) PROVE m[k] \in Texts /\ m[k].guess
  <2>. DEFINE s == segs[k]
              a == s.t0 + by
              b == s.t1 + by
  <2>1. s \in Texts /\ a \in Int /\ b \in Int
    BY <1>3, TextFields
  <2>2. m[k] = [s EXCEPT !.t0 = a, !.t1 = b, !.guess = TRUE]
    BY <2>1 DEF Texts
  <2>. HIDE DEF s, a, b, m
  <2>. QED BY <2>1, <2>2 DEF Texts
<1>6. m \in Seq(Texts) /\ Len(m) = Len(segs)
  <2>1. Len(segs) \in Nat
    OBVIOUS
  <2>2. \A k \in 1..Len(segs) : m[k] \in Texts
    BY <1>5
  <2>3. m = [k \in 1..Len(segs) |-> m[k]]
    OBVIOUS
  <2>. DEFINE n0 == Len(segs)
  <2>. HIDE DEF m, n0
  <2>4. m \in [1..n0 -> Texts] /\ n0 \in Nat
    BY <2>1, <2>2, <2>3 DEF n0
  <2>5. m \in Seq(Texts) /\ Len(m) = n0
    BY <2>4
  <2>. QED BY <2>5 DEF n0
<1>. QED BY <1>4, <1>5, <1>6

LEMMA JoinedIsChrono ==
  ASSUME par \in Params, audio.len \in Int, \A c \in Chunks : st[c].results \in Transcripts,
         NEW wraps \in BOOLEAN
  PROVE  Joined(wraps) \in Transcripts
<1>. DEFINE n == MaxProcessors - 1
            T == Transcripts
            own == st[0].results
            step(x, c) == IF c < par.processors
                          THEN MergeAll(x, Moved(par, audio.len, c, st[c].results, wraps)) ELSE x
            body(f, c) == IF c = 0 THEN own ELSE step(f[c - 1], c)
            after == CHOOSE f : f = [c \in 0..n |-> body(f, c)]
            F == [c \in 1..n |-> [x \in T |-> step(x, c)]]
<1>1. Joined(wraps) = after[n] /\ n \in Nat /\ Chunks = 0..n
  BY FullAssumption DEF FullAssumption, Joined, Chunks
<1>2. \A c \in 1..n : \A x \in T : step(x, c) \in T
  <2>. SUFFICES ASSUME NEW c \in 1..n, NEW x \in T PROVE step(x, c) \in T
    OBVIOUS
  <2>. DEFINE m == Moved(par, audio.len, c, st[c].results, wraps)
  <2>1. c \in Chunks
    BY <1>1
  <2>2. st[c].results \in Seq(Texts)
    BY <2>1 DEF Transcripts
  <2>3. m \in Seq(Texts) /\ \A k \in 1..Len(m) : m[k].guess
    BY <2>1, <2>2, MovedTexts
  <2>. HIDE DEF m
  <2>4. MergeAll(x, m) \in T
    BY <2>3, MergeAllIsChrono
  <2>. QED BY <2>4 DEF m
<1>3. \A f, c : body(f, c) = IF c = 0 THEN own ELSE step(f[c - 1], c)
  OBVIOUS
<1>4. own \in T
  BY <1>1
<1>. HIDE DEF T, step, body, n, own
<1>5. \A c \in 1..n : \A x \in T : F[c][x] = step(x, c)
  OBVIOUS
<1>. HIDE DEF F
<1>6. n \in Nat /\ StepsWithin(F, n, T)
  BY <1>1, <1>2, <1>5 DEF StepsWithin
<1>7. PICK g \in [0..n -> T] : Leads(g, n, own, F)
  BY <1>4, <1>6, Recursion
<1>8. g = [c \in 0..n |-> body(g, c)]
  <2>. SUFFICES ASSUME NEW c \in 0..n, c # 0 PROVE g[c] = step(g[c - 1], c)
    BY <1>3, <1>6, <1>7 DEF Leads
  <2>1. c \in 1..n /\ g[c - 1] \in T /\ g[c] = F[c][g[c - 1]]
    BY <1>6, <1>7 DEF Leads
  <2>. QED BY <1>5, <2>1
<1>9. after = [c \in 0..n |-> body(after, c)]
  BY <1>8
<1>. HIDE DEF after
<1>10. after[0] = own /\ \A c \in 1..n : after[c] = step(after[c - 1], c)
  <2>1. \A c \in 0..n : after[c] = body(after, c)
    BY <1>9
  <2>. QED BY <1>3, <1>6, <2>1
<1>11. after[n] \in T
  <2>1. after[0] \in T /\ \A c \in 1..n : after[c - 1] \in T => after[c] \in T
    BY <1>2, <1>4, <1>10
  <2>. QED BY <1>1, <2>1, StaysWithin, Zenon
<1>. QED BY <1>1, <1>11 DEF T

\* The results of a state follow one another, and the last of them has ended
\* where a thread's next window begins, unless it has no further window.
Written(s, t) ==
  /\ s.results \in Transcripts
  /\ t.at \in Decoding =>
       /\ t.seek \in Int /\ t.seek_end \in Int
       /\ s.results # <<>> => \/ Last(s.results).t1 <= t.seek
                              \/ t.at = "window" /\ t.seek + DeltaMin >= t.seek_end
TranscriptInv ==
  /\ "points" \in DOMAIN audio /\ IsTable(audio.points)
  /\ \A c \in Chunks : Written(st[c], th[c])

\* A thread's step keeps the invariant if what it writes follows what is there.
LEMMA WritingOfChunk ==
  ASSUME PromptInv, TranscriptInv, NEW c \in Chunks, NEW s, NEW t, UNCHANGED <<call, audio>>,
         st' = [st EXCEPT ![c] = s], th' = [th EXCEPT ![c] = t], Written(s, t)
  PROVE  TranscriptInv'
<1>1. /\ st' = [d \in Chunks |-> IF d = c THEN s ELSE st[d]]
      /\ th' = [d \in Chunks |-> IF d = c THEN t ELSE th[d]]
  BY DEF PromptInv, PromptTypes
<1>2. \A d \in Chunks : Written(st'[d], th'[d])
  BY <1>1 DEF TranscriptInv
<1>3. (\A d \in Chunks : Written(st[d], th[d]))'
  BY <1>2 DEF Written, Transcripts, Texts, Origins, Chrono
<1>. QED BY <1>3 DEF TranscriptInv, IsTable

LEMMA NothingWritten ==
  <<>> \in Transcripts
<1>1. <<>> \in Seq(Texts) /\ Len(<<>>) = 0
  OBVIOUS
<1>. QED BY <1>1 DEF Transcripts, Chrono

\* A thread that ends leaves what is written.
LEMMA EndWriting ==
  ASSUME PromptInv, NEW c \in Chunks, NEW s, s.results \in Transcripts, NEW ret
  PROVE  /\ Written(s, Finish(c, ret))
         /\ Written(s, [Finish(c, ret) EXCEPT !.aborted = TRUE])
<1>1. /\ Finish(c, ret).at = "done"
      /\ [Finish(c, ret) EXCEPT !.aborted = TRUE].at = "done"
  BY FinishOK
<1>. QED BY <1>1 DEF Written, Decoding

LEMMA BeginWriting ==
  ASSUME PromptInv, HearingInv, TranscriptInv, NEW c \in Chunks, Begin(c)
  PROVE  TranscriptInv'
<1>. DEFINE t     == th[c]
            clear == [st[c] EXCEPT !.results = <<>>]
            mel   == IF t.hi - t.lo > 0
                     THEN [by |-> call, lo |-> t.lo, frames |-> MelFrames(t.hi - t.lo)]
                     ELSE st[c].mel
            ready == [clear EXCEPT !.mel = mel]
            s     == WithPrompt(par, Forgotten(par, ready))
            start == t.offset
            end   == IF par.duration = 0 THEN mel.frames ELSE start + par.duration
            on    == [t EXCEPT !.at = "window", !.seek = start, !.seek_end = end]
<1>1. t.at = "begin" /\ UNCHANGED <<call, par, audio, main>> /\ par \in Params
  BY DEF Begin, PromptInv, PromptTypes
<1>2. /\ t.lo \in Int /\ t.hi \in Int /\ start \in Int /\ st[c].mel.frames \in Int
      /\ ThreadOK(t) /\ StateOK(st[c])
  BY <1>1, RunsInChunk
<1>3. mel.frames \in Int
  BY <1>2, FramesAreNumbers
<1>4. end \in Int
  <2>. HIDE DEF mel, start
  <2>. QED BY <1>1, <1>2, <1>3, ParamsTyped
<1>. HIDE DEF mel
<1>5. clear.results = <<>> /\ ready.results = <<>> /\ s.results = <<>>
  BY <1>2 DEF StateOK, FreeState, WithPrompt, Forgotten
<1>. HIDE DEF ready, clear, s, end, start
<1>6. on.at = "window" /\ on.seek = start /\ on.seek_end = end
  BY <1>2 DEF ThreadOK, Idle
<1>. HIDE DEF on
<1>7. \/ \E ret : \E s2 \in {clear, ready, s} :
           st' = [st EXCEPT ![c] = s2] /\ th' = [th EXCEPT ![c] = Finish(c, ret)]
      \/ st' = [st EXCEPT ![c] = s] /\ th' = [th EXCEPT ![c] = on]
  BY DEF Begin, SetThread, s, ready, clear, on, mel, start, end
<1>8. CASE st' = [st EXCEPT ![c] = s] /\ th' = [th EXCEPT ![c] = on]
  <2>1. Written(s, on)
    BY <1>2, <1>4, <1>5, <1>6, NothingWritten DEF Written, start
  <2>. QED BY <1>1, <1>8, <2>1, WritingOfChunk
<1>9. ASSUME NEW ret, NEW s2 \in {clear, ready, s},
             st' = [st EXCEPT ![c] = s2], th' = [th EXCEPT ![c] = Finish(c, ret)]
      PROVE  TranscriptInv'
  <2>1. Written(s2, Finish(c, ret))
    BY <1>5, NothingWritten, EndWriting
  <2>. QED BY <1>1, <1>9, <2>1, WritingOfChunk
<1>. QED BY <1>7, <1>8, <1>9

LEMMA WindowWriting ==
  ASSUME PromptInv, HearingInv, TranscriptInv, NEW c \in Chunks, Window(c)
  PROVE  TranscriptInv'
<1>. DEFINE t    == th[c]
            on   == [t EXCEPT !.at = "pass", !.it = 1, !.best = NoBest,
                        !.heard = @ \cup t.seek..(t.seek + WindowFrames(par) - 1)]
            s    == [st[c] EXCEPT !.past0 = <<>>, !.past1 = <<>>]
<1>1. t.at = "window" /\ UNCHANGED <<call, par, audio, main>>
  BY DEF Window
<1>2. StateOK(st[c]) /\ ThreadOK(t) /\ Written(st[c], t)
  BY DEF PromptInv, PromptTypes, TranscriptInv
<1>3. s.results = st[c].results
  BY <1>2 DEF StateOK, FreeState
<1>4. on.at = "pass" /\ on.seek = t.seek /\ on.seek_end = t.seek_end
  BY <1>2 DEF ThreadOK, Idle
<1>5. st = [st EXCEPT ![c] = st[c]] /\ [st EXCEPT ![c].past0 = <<>>, ![c].past1 = <<>>]
        = [st EXCEPT ![c] = s]
  BY DEF PromptInv, PromptTypes
<1>. HIDE DEF on, s
<1>6. \/ st' = st /\ \E ret : th' = [th EXCEPT ![c] = Finish(c, ret)]
      \/ st' = st /\ \E ret : th' = [th EXCEPT ![c] = [Finish(c, ret) EXCEPT !.aborted = TRUE]]
      \/ /\ ~(t.seek + DeltaMin >= t.seek_end)
         /\ st' \in {st, [st EXCEPT ![c] = s]} /\ th' = [th EXCEPT ![c] = on]
  BY <1>5 DEF Window, SetThread, on
<1>7. ASSUME NEW ret, NEW t2 \in {Finish(c, ret), [Finish(c, ret) EXCEPT !.aborted = TRUE]},
             st' = st, th' = [th EXCEPT ![c] = t2]
      PROVE  TranscriptInv'
  <2>1. st' = [st EXCEPT ![c] = st[c]]
    BY <1>5, <1>7
  <2>2. st[c].results \in Transcripts
    BY <1>2 DEF Written
  <2>3. Written(st[c], Finish(c, ret)) /\ Written(st[c], [Finish(c, ret) EXCEPT !.aborted = TRUE])
    BY <2>2, EndWriting
  <2>4. Written(st[c], t2)
    BY <1>7, <2>3
  <2>. QED BY <1>1, <1>7, <2>1, <2>4, WritingOfChunk
<1>8. ASSUME NEW s2 \in {st[c], s}, st' = [st EXCEPT ![c] = s2], th' = [th EXCEPT ![c] = on],
             ~(t.seek + DeltaMin >= t.seek_end)
      PROVE  TranscriptInv'
  <2>1. s2.results = st[c].results
    BY <1>3
  <2>2. Written(s2, on)
    BY <1>1, <1>2, <1>4, <1>8, <2>1 DEF Written, Decoding
  <2>. QED BY <1>1, <1>8, <2>2, WritingOfChunk
<1>9. st' \in {st, [st EXCEPT ![c] = s]} => \E s2 \in {st[c], s} : st' = [st EXCEPT ![c] = s2]
  BY <1>5
<1>. QED BY <1>6, <1>7, <1>8, <1>9

LEMMA PassWriting ==
  ASSUME PromptInv, HearingInv, TranscriptInv, NEW c \in Chunks, Pass(c)
  PROVE  TranscriptInv'
<1>. DEFINE t == th[c]
            temperature == par.temperatures[t.it]
            again(best, quiet) == /\ t.it # Len(par.temperatures)
                                  /\ Failed(best) \/ (best.low /\ ~quiet)
            next(best, quiet) ==
              [t EXCEPT !.best = best, !.quiet = quiet,
                 !.prompt = Context(par, st[c], temperature),
                 !.at = IF again(best, quiet) THEN "pass" ELSE "output",
                 !.it = IF again(best, quiet) THEN @ + 1 ELSE @]
<1>1. t.at = "pass" /\ UNCHANGED <<call, par, audio, main, st>>
  BY DEF Pass
<1>2. ThreadOK(t) /\ Written(st[c], t)
  BY DEF PromptInv, PromptTypes, TranscriptInv
<1>3. st' = [st EXCEPT ![c] = st[c]]
  BY <1>1 DEF PromptInv, PromptTypes
<1>4. ASSUME NEW ret, th' = [th EXCEPT ![c] = Finish(c, ret)]
      PROVE  TranscriptInv'
  <2>1. Written(st[c], Finish(c, ret))
    BY <1>2, EndWriting DEF Written
  <2>. QED BY <1>1, <1>3, <1>4, <2>1, WritingOfChunk
<1>5. ASSUME NEW best, NEW quiet, th' = [th EXCEPT ![c] = next(best, quiet)]
      PROVE  TranscriptInv'
  <2>. DEFINE on == next(best, quiet)
  <2>1. on.seek = t.seek /\ on.seek_end = t.seek_end /\ on.at \in {"pass", "output"}
    BY <1>2 DEF ThreadOK, Idle
  <2>2. th' = [th EXCEPT ![c] = on]
    BY <1>5
  <2>. HIDE DEF on
  <2>3. Written(st[c], on)
    BY <1>1, <1>2, <2>1 DEF Written, Decoding
  <2>. QED BY <1>1, <1>3, <2>2, <2>3, WritingOfChunk
<1>. HIDE DEF next
<1>6. \/ \E ret : th' = [th EXCEPT ![c] = Finish(c, ret)]
      \/ \E best, quiet : th' = [th EXCEPT ![c] = next(best, quiet)]
  BY DEF Pass, SetThread, next
<1>. QED BY <1>4, <1>5, <1>6

\* What a window has told is written, and the next begins behind it; at the end
\* of the audio there is no next one.
LEMMA OutputWriting ==
  ASSUME PromptInv, HearingInv, TranscriptInv, NEW c \in Chunks, Output(c)
  PROVE  TranscriptInv'
<1>. DEFINE t    == th[c]
            r    == t.best.run
            said == ~(t.quiet /\ t.best.low)
            past1 == (IF par.carry_initial_prompt THEN <<>> ELSE t.prompt)
                     \o (IF said THEN Tokens(r.len) ELSE <<>>)
            delta == IF SingleTimestampEnding(r.tokens)
                     THEN AtMost(t.seek_end - t.seek, ChunkFrames) ELSE r.delta
            new == IF r.tokens # <<>> /\ said THEN Segments(par, r, t.seek) ELSE <<>>
            old == st[c].results
            s   == [st[c] EXCEPT !.past1 = past1, !.results = old \o new]
            on  == [t EXCEPT !.at = "window", !.seek = @ + delta,
                             !.best = NoBest, !.prompt = <<>>, !.quiet = FALSE]
<1>1. t.at = "output" /\ UNCHANGED <<call, par, audio, main>>
  BY DEF Output
<1>2. /\ main # "idle" /\ call \in Origins /\ StateOK(st[c]) /\ ThreadOK(t) /\ Spoken(r)
      /\ Written(st[c], t)
  BY <1>1, ThreadsRun DEF PromptInv, PromptTypes, Called, ThreadOK, TranscriptInv
<1>3. /\ old \in Seq(Texts) /\ Chrono(old) /\ t.seek \in Int /\ t.seek_end \in Int
      /\ old # <<>> => Last(old).t1 <= t.seek
  BY <1>1, <1>2 DEF Written, Transcripts, Decoding
<1>4. new = <<>> \/ new = Segments(par, r, t.seek)
  OBVIOUS
<1>5. InWindow(new, r, t.seek)
  <2>. HIDE DEF new
  <2>1. CASE new = <<>>
    <3>1. <<>> \in Seq(Texts) /\ Len(<<>>) = 0
      OBVIOUS
    <3>. QED BY <2>1, <3>1 DEF InWindow, Chrono
  <2>2. CASE new = Segments(par, r, t.seek)
    <3>. DEFINE told == Segments(par, r, t.seek)
    <3>1. InWindow(told, r, t.seek)
      BY <1>2, <1>3, SegmentsInWindow
    <3>. HIDE DEF told
    <3>2. new = told
      BY <2>2 DEF told
    <3>. QED BY <3>1, <3>2
  <2>. QED BY <1>4, <2>1, <2>2
<1>6. r.delta \in Nat /\ r.delta <= ChunkFrames /\ ChunkFrames \in Nat /\ DeltaMin \in Nat
  BY <1>2, FullAssumption DEF Spoken, FullAssumption
<1>7. /\ delta \in Int
      /\ delta >= r.delta \/ t.seek + delta + DeltaMin >= t.seek_end
  BY <1>3, <1>6 DEF AtMost
<1>8. s.results = old \o new
  BY <1>2 DEF StateOK, FreeState
<1>9. on.at = "window" /\ on.seek = t.seek + delta /\ on.seek_end = t.seek_end
  BY <1>2 DEF ThreadOK, Idle
<1>10. /\ st' = [st EXCEPT ![c].past1 = past1, ![c].results = old \o new]
       /\ th' = [th EXCEPT ![c] = on]
  BY DEF Output, SetThread
<1>11. st' = [st EXCEPT ![c] = s]
  BY <1>10 DEF PromptInv, PromptTypes
<1>. HIDE DEF new, old, delta, s, on
<1>12. /\ new \in Seq(Texts) /\ Chrono(new)
       /\ \A j \in 1..Len(new) : new[j].t1 <= t.seek + r.delta
       /\ new # <<>> => new[1].unset \/ t.seek <= new[1].t0
  BY <1>5 DEF InWindow
<1>13. old # <<>> /\ new # <<>> => new[1].unset \/ Last(old).t1 <= new[1].t0
  <2>. SUFFICES ASSUME old # <<>>, new # <<>> PROVE new[1].unset \/ Last(old).t1 <= new[1].t0
    OBVIOUS
  <2>1. Last(old).t1 \in Int /\ new[1].t0 \in Int
    BY <1>3, <1>12, TextFields
  <2>. QED BY <1>3, <1>12, <2>1
<1>14. /\ old \o new \in Seq(Texts) /\ Chrono(old \o new)
       /\ new = <<>> => old \o new = old
       /\ new # <<>> => Last(old \o new) = Last(new)
  BY <1>3, <1>12, <1>13, ChronoJoin
<1>15. old \o new # <<>> => \/ Last(old \o new).t1 <= t.seek + delta
                            \/ t.seek + delta + DeltaMin >= t.seek_end
  <2>1. CASE new # <<>>
    <3>1. Len(new) \in 1..Len(new) /\ Last(new) = new[Len(new)] /\ Last(new).t1 \in Int
      BY <1>12, <2>1, TextFields
    <3>2. Last(new).t1 <= t.seek + r.delta
      BY <1>12, <3>1
    <3>. DEFINE to == Last(new).t1
                here == t.seek
                moved == t.seek + delta
                dr == r.delta
    <3>3. /\ to \in Int /\ to <= here + dr /\ here \in Int /\ dr \in Int /\ delta \in Int
          /\ moved = here + delta
          /\ delta >= dr \/ moved + DeltaMin >= t.seek_end
      BY <1>3, <1>6, <1>7, <3>1, <3>2
    <3>. HIDE DEF to, here, moved, dr
    <3>4. \/ to <= moved
          \/ moved + DeltaMin >= t.seek_end
      BY <3>3
    <3>5. Last(old \o new).t1 = to
      BY <1>14, <2>1 DEF to
    <3>. QED BY <3>4, <3>5 DEF moved
  <2>2. CASE new = <<>> /\ old # <<>>
    <3>1. Last(old).t1 \in Int /\ Last(old).t1 <= t.seek
      BY <1>3, <2>2, TextFields
    <3>2. \/ Last(old).t1 <= t.seek + delta
          \/ t.seek + delta + DeltaMin >= t.seek_end
      BY <1>3, <1>6, <1>7, <3>1, SMTT(30)
    <3>. QED BY <1>14, <2>2, <3>2
  <2>3. CASE new = <<>> /\ old = <<>>
    BY <1>14, <2>3
  <2>. QED BY <2>1, <2>2, <2>3
<1>16. s.results \in Transcripts
  BY <1>8, <1>14 DEF Transcripts
<1>17. on.seek \in Int /\ on.seek_end \in Int
  BY <1>3, <1>7, <1>9
<1>18. Written(s, on)
  BY <1>8, <1>9, <1>15, <1>16, <1>17 DEF Written
<1>. QED BY <1>1, <1>10, <1>11, <1>18, WritingOfChunk

\* A call begins with what is written, or with nothing.
LEMMA StartWriting ==
  ASSUME PromptInv, HearingInv, TranscriptInv, Start
  PROVE  TranscriptInv'
<1>1. /\ th = [c \in Chunks |-> Idle] /\ call \in Nat /\ main = "idle" /\ call' = call + 1
      /\ Len(Calls) \in Nat
  BY FullAssumption, SMTT(30) DEF FullAssumption, PromptInv, PromptTypes, IdleBetween, Start
<1>2. \A c \in Chunks : th'[c].at \notin Decoding
  <2>1. th' = th \/ \E n : \E p \in Params : th' = Threads(p, n)
    BY <1>1, CallParams DEF Start
  <2>2. \A n : \A p \in Params : \A c \in Chunks : Threads(p, n)[c].at \in {"idle", "begin"}
    BY IdleOK
  <2>3. CASE th' = th
    BY <1>1, <2>3 DEF Idle, Decoding
  <2>4. CASE \E n : \E p \in Params : th' = Threads(p, n)
    BY <2>2, <2>4 DEF Decoding
  <2>. QED BY <2>1, <2>3, <2>4
<1>3. \A c \in Chunks : st'[c].results \in Transcripts
  <2>1. 0 \in Chunks
    BY FullAssumption DEF FullAssumption, Chunks
  <2>2. \A c \in Chunks : st[c].results \in Transcripts /\ StateOK(st[c])
    BY DEF TranscriptInv, Written, PromptInv, PromptTypes
  <2>3. st' = st \/ st' = [st EXCEPT ![0].results = <<>>]
    BY DEF Start
  <2>4. CASE st' = st
    BY <2>2, <2>4
  <2>5. CASE st' = [st EXCEPT ![0].results = <<>>]
    <3>1. \A c \in Chunks : st'[c] = st[c] \/ st'[c] = [st[c] EXCEPT !.results = <<>>]
      BY <2>1, <2>5 DEF PromptInv, PromptTypes
    <3>2. \A c \in Chunks : [st[c] EXCEPT !.results = <<>>].results = <<>>
      BY <2>2 DEF StateOK, FreeState
    <3>. QED BY <2>2, <3>1, <3>2, NothingWritten
  <2>. QED BY <2>3, <2>4, <2>5
<1>4. "points" \in DOMAIN audio' /\ IsTable(audio'.points)
  <2>1. PICK p \in Calls[call + 1] :
          \/ audio' = NoAudio
          \/ \E probs \in p.vads :
               audio' = Filtered(VadSegments(probs, p.max_speech), p.samples)
          \/ audio' = [audio EXCEPT !.len = p.samples]
    BY DEF Start
  <2>2. p \in Params
    BY <1>1, CallParams DEF Start
  <2>3. p.samples \in Int /\ \A probs \in p.vads : Len(probs) \in Nat
    BY <2>2, ParamsTyped
  <2>4. CASE audio' = NoAudio
    <3>1. IsTable(<<>>)
      BY DEF IsTable
    <3>. QED BY <2>4, <3>1 DEF NoAudio
  <2>5. ASSUME NEW probs \in p.vads,
               audio' = Filtered(VadSegments(probs, p.max_speech), p.samples)
        PROVE  "points" \in DOMAIN audio' /\ IsTable(audio'.points)
    <3>1. IsTable(Filtered(VadSegments(probs, p.max_speech), p.samples).points)
      BY <2>3, FilteredIsNumber
    <3>2. \A segs, n : "points" \in DOMAIN Filtered(segs, n)
      BY DEF Filtered, NoAudio
    <3>. QED BY <2>5, <3>1, <3>2
  <2>6. CASE audio' = [audio EXCEPT !.len = p.samples]
    BY <2>6 DEF TranscriptInv
  <2>. QED BY <2>1, <2>4, <2>5, <2>6
<1>5. (\A c \in Chunks : Written(st[c], th[c]))'
  BY <1>2, <1>3 DEF Written, Transcripts, Texts, Origins, Chrono
<1>. QED BY <1>4, <1>5 DEF TranscriptInv, IsTable

LEMMA JoinWriting ==
  ASSUME PromptInv, HearingInv, TranscriptInv, Join
  PROVE  TranscriptInv'
<1>1. /\ main = "run" /\ par \in Params /\ audio.len \in Int /\ UNCHANGED <<call, par, audio, th>>
      /\ \A c \in Chunks : th[c].at \in {"idle", "done"}
  BY DEF Join, PromptInv, PromptTypes, HearingInv, ChunksPlaced
<1>2. /\ 0 \in Chunks /\ StateOK(st[0])
      /\ \A c \in Chunks : st[c].results \in Transcripts
  BY FullAssumption DEF FullAssumption, Chunks, PromptInv, PromptTypes, TranscriptInv, Written
<1>3. \A wraps \in BOOLEAN : Joined(wraps) \in Transcripts
  BY <1>1, <1>2, JoinedIsChrono
<1>4. PICK new \in Transcripts :
        st' = [c \in Chunks |-> IF c = 0 THEN [st[0] EXCEPT !.results = new] ELSE FreeState]
  BY <1>3 DEF Join
<1>5. [st[0] EXCEPT !.results = new].results = new /\ FreeState.results = <<>>
  BY <1>2 DEF StateOK, FreeState
<1>6. \A c \in Chunks : st'[c].results \in Transcripts
  <2>1. \A c \in Chunks : st'[c] = [st[0] EXCEPT !.results = new] \/ st'[c] = FreeState
    BY <1>4
  <2>. QED BY <1>5, <2>1, NothingWritten
<1>7. (\A c \in Chunks : Written(st[c], th[c]))'
  BY <1>1, <1>6 DEF Written, Transcripts, Texts, Origins, Chrono, Decoding
<1>. QED BY <1>1, <1>7 DEF TranscriptInv, IsTable

LEMMA ReturnWriting ==
  ASSUME PromptInv, TranscriptInv, Return
  PROVE  TranscriptInv'
<1>1. th' = [c \in Chunks |-> Idle] /\ UNCHANGED <<call, par, audio, st>>
  BY DEF Return
<1>2. (\A c \in Chunks : Written(st[c], th[c]))'
  BY <1>1 DEF TranscriptInv, Written, Transcripts, Texts, Origins, Chrono, Idle, Decoding
<1>. QED BY <1>1, <1>2 DEF TranscriptInv, IsTable

LEMMA WritingInit ==
  ASSUME FullInit
  PROVE  TranscriptInv
<1>1. IsTable(<<>>)
  BY DEF IsTable
<1>. QED BY <1>1, NothingWritten
     DEF FullInit, TranscriptInv, Written, NoAudio, FreeState, Idle, Decoding

LEMMA WritingNext ==
  ASSUME PromptInv, HearingInv, TranscriptInv, [FullNext]_fullVars
  PROVE  TranscriptInv'
<1>1. CASE UNCHANGED fullVars
  BY <1>1 DEF fullVars, TranscriptInv, Written, Transcripts, Texts, Origins, Chrono, IsTable
<1>2. ASSUME NEW c \in Chunks, Decode(c)
      PROVE  TranscriptInv'
  BY <1>2, BeginWriting, WindowWriting, PassWriting, OutputWriting DEF Decode
<1>. QED BY <1>1, <1>2, StartWriting, JoinWriting, ReturnWriting DEF FullNext

\* The segments of every state follow one another, as they are written and as
\* they are read through the table of the times, across windows that fell back,
\* chunks that were joined and calls that failed.
THEOREM FullTranscriptIsOrdered == FullSpec => []TranscriptIsOrdered
<1>1. TranscriptInv => TranscriptIsOrdered
  <2>. SUFFICES ASSUME TranscriptInv, NEW c \in Chunks
                PROVE  Ordered(st[c].results)
    BY DEF TranscriptIsOrdered
  <2>. DEFINE segs == st[c].results
  <2>1. segs \in Seq(Texts) /\ Chrono(segs) /\ IsTable(audio.points)
    BY DEF TranscriptInv, Written, Transcripts
  <2>. HIDE DEF segs
  <2>2. /\ Len(segs) \in Nat /\ DOMAIN segs = 1..Len(segs)
        /\ \A k \in 1..Len(segs) : segs[k].t0 \in Int /\ segs[k].t1 \in Int
    BY <2>1, TextFields
  <2>3. ASSUME NEW k \in 1..(Len(segs) - 1), ~segs[k + 1].unset
        PROVE  /\ segs[k].t1 <= segs[k + 1].t0
               /\ ~segs[k].guess => SegmentT0(segs[k]) <= SegmentT0(segs[k + 1])
    <3>1. k \in 1..Len(segs) /\ k + 1 \in 1..Len(segs)
      BY <2>2
    <3>2. /\ segs[k].t1 <= segs[k + 1].t0
          /\ segs[k].guess \/ segs[k].t0 <= segs[k].t1
      BY <2>1, <2>3, <3>1 DEF Chrono
    <3>3. segs[k].t0 \in Int /\ segs[k].t1 \in Int /\ segs[k + 1].t0 \in Int
      BY <2>2, <3>1
    <3>4. ~segs[k].guess => segs[k].t0 <= segs[k + 1].t0
      BY <3>2, <3>3
    <3>. QED BY <2>1, <3>2, <3>3, <3>4, MappingKeepsOrder DEF SegmentT0
  <2>4. \A k \in DOMAIN segs : segs[k].guess \/ segs[k].t0 <= segs[k].t1
    BY <2>1, <2>2 DEF Chrono
  <2>5. Ordered(segs)
    BY <2>3, <2>4 DEF Ordered
  <2>. QED BY <2>5 DEF segs
<1>. QED BY <1>1, PromptInit, PromptNext, HearingInit, HearingNext, WritingInit, WritingNext,
            PTL DEF FullSpec

-------------------------------------------------------------------------------
(* Types.                                                                     *)

\* Segments of speech are long enough to begin, rounded, in the audio they were
\* found in, whose last part may be less than a whole window.
LongSpeech == SamplesPerCs <= MinSpeech /\ 2 * MinSpeech >= 2 * VadWindow + SamplesPerCs

\* Rounding moves a sample by half a centisecond at most.
LEMMA RoundedSample ==
  ASSUME NEW x \in Int
  PROVE  /\ CsToSamples(SamplesToCs(x)) \in Int
         /\ 2 * CsToSamples(SamplesToCs(x)) <= 2 * x + SamplesPerCs
<1>1. SamplesPerCs \in Nat \ {0}
  BY VadAssumption DEF VadAssumption
<1>. DEFINE y == 2 * x + SamplesPerCs
            d == 2 * SamplesPerCs
            q == y \div d
<1>2. y \in Int /\ d \in Nat \ {0} /\ d = 2 * SamplesPerCs
  BY <1>1
<1>3. SamplesToCs(x) = q
  BY DEF SamplesToCs
<1>. HIDE DEF y, d
<1>4. q \in Int /\ d * q <= y
  BY <1>2
<1>. HIDE DEF q
<1>5. d * q = 2 * (q * SamplesPerCs) /\ q * SamplesPerCs \in Int
  BY <1>1, <1>2, <1>4
<1>. QED BY <1>3, <1>4, <1>5 DEF CsToSamples, y

LEMMA ChunksOfSound ==
  ASSUME NEW n \in Nat
  PROVE  NumChunks(n) \in Nat /\ NumChunks(n) * VadWindow <= n + VadWindow - 1
<1>1. VadWindow \in Nat \ {0}
  BY VadAssumption DEF VadAssumption
<1>. DEFINE y == n + VadWindow - 1
            q == y \div VadWindow
<1>2. y \in Nat
  BY <1>1
<1>. HIDE DEF y
<1>3. q \in Nat /\ VadWindow * q <= y
  BY <1>1, <1>2
<1>4. NumChunks(n) = q
  BY DEF NumChunks, y
<1>. HIDE DEF q
<1>5. q * VadWindow = VadWindow * q
  BY <1>1, <1>3
<1>. QED BY <1>3, <1>4, <1>5 DEF y

\* Speech begins in the audio.
LEMMA SpeechBegins ==
  ASSUME LongSpeech, NEW count \in Nat, NEW probs, Len(probs) = NumChunks(count), NEW max
  PROVE  /\ VadSegments(probs, max) \in Seq(Spans)
         /\ \A i \in 1..Len(VadSegments(probs, max)) :
              LET s == VadSegments(probs, max)[i]
              IN  /\ s.start \in Int /\ s.end \in Int /\ s.start <= s.end
                  /\ CsToSamples(s.start) <= count - 1
<1>. DEFINE segs == VadSegments(probs, max)
            late == Len(probs) * VadWindow - MinSpeech
<1>1. /\ VadWindow \in Nat \ {0} /\ MinSpeech \in Nat /\ SamplesPerCs \in Nat \ {0}
      /\ Len(probs) \in Nat /\ Len(probs) * VadWindow <= count + VadWindow - 1
  BY ChunksOfSound, VadAssumption DEF VadAssumption
<1>2. /\ segs \in Seq(Spans) /\ Spaced(segs, SamplesToCs(Len(probs) * VadWindow))
      /\ \A i \in 1..Len(segs) : segs[i].start <= SamplesToCs(late)
  BY <1>1, SegmentsOfSound
<1>. HIDE DEF segs
<1>3. late \in Int /\ 2 * late + SamplesPerCs <= 2 * (count - 1)
  <2>. DEFINE end == Len(probs) * VadWindow
  <2>1. end \in Int /\ end <= count + VadWindow - 1
    BY <1>1
  <2>. HIDE DEF end
  <2>. QED BY <1>1, <2>1, SMTT(30) DEF LongSpeech, end
<1>. HIDE DEF late
<1>4. /\ CsToSamples(SamplesToCs(late)) \in Int /\ SamplesToCs(late) \in Int
      /\ CsToSamples(SamplesToCs(late)) <= count - 1
  <2>. DEFINE last == CsToSamples(SamplesToCs(late))
  <2>1. last \in Int /\ 2 * last <= 2 * late + SamplesPerCs /\ SamplesToCs(late) \in Int
    BY <1>3, RoundedSample, NumbersOfSound
  <2>. HIDE DEF last
  <2>2. last <= count - 1
    BY <1>1, <1>3, <2>1
  <2>. QED BY <2>1, <2>2 DEF last
<1>5. ASSUME NEW i \in 1..Len(segs)
      PROVE  /\ segs[i].start \in Int /\ segs[i].end \in Int /\ segs[i].start <= segs[i].end
             /\ CsToSamples(segs[i].start) <= count - 1
  <2>1. segs[i] \in Spans
    BY <1>2
  <2>2. /\ segs[i].start \in Int /\ segs[i].end \in Int /\ segs[i].start <= segs[i].end
        /\ segs[i].start <= SamplesToCs(late)
    BY <1>2, <2>1 DEF Spans, Spaced
  <2>3. CsToSamples(segs[i].start) <= CsToSamples(SamplesToCs(late))
    BY <1>4, <2>2, TimesKeepOrder
  <2>4. CsToSamples(segs[i].start) \in Int
    BY <2>2, NumbersOfSound
  <2>. QED BY <1>4, <2>2, <2>3, <2>4
<1>. QED BY <1>2, <1>5 DEF segs

\* The new audio has no negative length.
LEMMA LengthIsNatural ==
  ASSUME NEW count \in Nat, NEW segs \in Seq(Spans), segs # <<>>,
         \A i \in 1..Len(segs) :
           /\ segs[i].start \in Int /\ segs[i].end \in Int /\ segs[i].start <= segs[i].end
           /\ CsToSamples(segs[i].start) <= count - 1
  PROVE  FilteredLength(segs, count) \in Nat
<1>. DEFINE len(i) == AtMost(CsToSamples(segs[i].end)
                               + (IF i < Len(segs) THEN Overlap ELSE 0), count - 1)
                      - CsToSamples(segs[i].start)
            b == (Len(segs) - 1) * Gap
            n == Len(segs)
            T == Nat
            step(sum, k) == sum + len(k)
            body(f, k) == IF k = 0 THEN b ELSE step(f[k - 1], k)
            after == CHOOSE f : f = [k \in 0..n |-> body(f, k)]
            F == [k \in 1..n |-> [x \in T |-> step(x, k)]]
<1>1. FilteredLength(segs, count) = after[n] /\ n \in Nat /\ b \in T
  <2>1. Len(segs) - 1 \in Nat /\ Gap \in Nat
    BY VadAssumption DEF VadAssumption
  <2>2. (Len(segs) - 1) * Gap \in Nat
    BY <2>1
  <2>. QED BY <2>2 DEF FilteredLength
<1>2. \A k \in 1..n : \A x \in T : step(x, k) \in T
  <2>. SUFFICES ASSUME NEW k \in 1..n PROVE len(k) \in Nat
    OBVIOUS
  <2>. DEFINE over == IF k < Len(segs) THEN Overlap ELSE 0
              from == CsToSamples(segs[k].start)
              to   == CsToSamples(segs[k].end)
  <2>1. over \in Nat
    BY VadAssumption DEF VadAssumption
  <2>2. from \in Int /\ to \in Int /\ from <= to /\ from <= count - 1
    BY NumbersOfSound, TimesKeepOrder
  <2>3. len(k) = AtMost(to + over, count - 1) - from
    OBVIOUS
  <2>. HIDE DEF over, from, to, len
  <2>. QED BY <2>1, <2>2, <2>3 DEF AtMost
<1>3. \A f, k : body(f, k) = IF k = 0 THEN b ELSE step(f[k - 1], k)
  OBVIOUS
<1>. HIDE DEF T, step, b, body, n
<1>4. \A k \in 1..n : \A x \in T : F[k][x] = step(x, k)
  OBVIOUS
<1>. HIDE DEF F
<1>5. n \in Nat /\ StepsWithin(F, n, T)
  BY <1>1, <1>2, <1>4 DEF StepsWithin
<1>6. PICK g \in [0..n -> T] : Leads(g, n, b, F)
  BY <1>1, <1>5, Recursion
<1>7. g = [k \in 0..n |-> body(g, k)]
  <2>. SUFFICES ASSUME NEW k \in 0..n, k # 0 PROVE g[k] = step(g[k - 1], k)
    BY <1>3, <1>5, <1>6 DEF Leads
  <2>1. k \in 1..n /\ g[k - 1] \in T /\ g[k] = F[k][g[k - 1]]
    BY <1>5, <1>6 DEF Leads
  <2>. QED BY <1>4, <2>1
<1>8. after = [k \in 0..n |-> body(after, k)]
  BY <1>7
<1>. HIDE DEF after
<1>9. after[0] = b /\ \A k \in 1..n : after[k] = step(after[k - 1], k)
  <2>1. \A k \in 0..n : after[k] = body(after, k)
    BY <1>8
  <2>2. /\ body(after, 0) = b
        /\ \A k \in 1..n : k \in 0..n /\ body(after, k) = step(after[k - 1], k)
    BY <1>3, <1>5
  <2>3. 0 \in 0..n
    BY <1>5
  <2>. QED BY <2>1, <2>2, <2>3
<1>10. after[n] \in T
  <2>1. n \in Nat /\ after[0] \in T /\ \A k \in 1..n : after[k - 1] \in T => after[k] \in T
    BY <1>1, <1>2, <1>5, <1>9
  <2>. QED BY <2>1, StaysWithin, Zenon
<1>. QED BY <1>1, <1>10 DEF T

SoundInv == "len" \in DOMAIN audio /\ audio.len \in Nat

LEMMA SoundNext ==
  ASSUME LongSpeech, PromptInv, SoundInv, [FullNext]_fullVars
  PROVE  SoundInv'
<1>1. CASE UNCHANGED audio
  BY <1>1 DEF SoundInv
<1>2. CASE Start
  <2>1. call \in Nat /\ Len(Calls) \in Nat
    BY FullAssumption DEF FullAssumption, PromptInv, PromptTypes
  <2>2. PICK p \in Calls[call + 1] :
          \/ audio' = NoAudio
          \/ \E probs \in p.vads :
               audio' = Filtered(VadSegments(probs, p.max_speech), p.samples)
          \/ audio' = [audio EXCEPT !.len = p.samples]
    BY <1>2 DEF Start
  <2>3. /\ p.samples \in Nat
        /\ \A probs \in p.vads : Len(probs) = NumChunks(p.samples)
    <3>1. p \in Params
      BY <1>2, <2>1, CallParams DEF Start
    <3>. QED BY <3>1, ParamsTyped
  <2>4. CASE audio' = NoAudio
    BY <2>4 DEF NoAudio, SoundInv
  <2>5. CASE audio' = [audio EXCEPT !.len = p.samples]
    BY <2>3, <2>5 DEF SoundInv
  <2>6. ASSUME NEW probs \in p.vads,
               audio' = Filtered(VadSegments(probs, p.max_speech), p.samples)
        PROVE  SoundInv'
    <3>. DEFINE segs == VadSegments(probs, p.max_speech)
    <3>1. /\ segs \in Seq(Spans)
          /\ \A i \in 1..Len(segs) :
               /\ segs[i].start \in Int /\ segs[i].end \in Int /\ segs[i].start <= segs[i].end
               /\ CsToSamples(segs[i].start) <= p.samples - 1
      BY <2>3, SpeechBegins
    <3>2. audio' = Filtered(segs, p.samples)
      BY <2>6
    <3>. HIDE DEF segs
    <3>3. CASE segs = <<>>
      BY <3>2, <3>3 DEF Filtered, NoAudio, SoundInv
    <3>4. CASE segs # <<>>
      <4>1. FilteredLength(segs, p.samples) \in Nat
        BY <2>3, <3>1, <3>4, LengthIsNatural
      <4>2. "len" \in DOMAIN audio' /\ audio'.len = FilteredLength(segs, p.samples)
        BY <3>2, <3>4 DEF Filtered
      <4>. QED BY <4>1, <4>2 DEF SoundInv
    <3>. QED BY <3>3, <3>4
  <2>. QED BY <2>2, <2>4, <2>5, <2>6
<1>3. UNCHANGED audio \/ Start
  BY DEF FullNext, Decode, Begin, Window, Pass, Output, Join, Return, fullVars
<1>. QED BY <1>1, <1>2, <1>3

\* The types of the state; and the prompt of a window leaves room for what else
\* the text context has to hold, whatever the calls before left and however the
\* prompt is carried, as long as its budget holds it.  (If speech may be shorter
\* than a window of the detection, the new audio's length may be computed to be
\* below zero.)
THEOREM FullTypeCorrect ==
  ASSUME LongSpeech, KeepsBudget
  PROVE  FullSpec => []FullTypeOK
<1>1. PromptInv /\ TranscriptInv /\ SoundInv => FullTypeOK
  <2>. SUFFICES ASSUME PromptInv, TranscriptInv, SoundInv
                PROVE  FullTypeOK
    OBVIOUS
  <2>1. /\ call \in 0..Len(Calls) /\ par \in Params /\ main \in {"idle", "run", "done"}
        /\ audio.len \in Nat
    BY DEF PromptInv, PromptTypes, SoundInv
  <2>2. ASSUME NEW c \in Chunks, NEW s \in Range(st[c].results)
        PROVE  s.t0 \in Int /\ s.t1 \in Int /\ s.by \in Origins
    <3>1. st[c].results \in Seq(Texts)
      BY DEF TranscriptInv, Written, Transcripts
    <3>2. s \in Texts
      BY <3>1 DEF Range
    <3>. QED BY <3>2 DEF Texts
  <2>3. ASSUME NEW c \in Chunks
        PROVE  /\ Range(st[c].past0) \cup Range(st[c].past1) \subseteq Origins
               /\ Len(th[c].prompt) <= AtLeast(0, MaxPromptCtx(par) - 1)
               /\ th[c].at \in {"idle", "begin", "window", "pass", "output", "done"}
    <3>1. StateOK(st[c]) /\ ThreadOK(th[c]) /\ Len(th[c].prompt) <= PromptMax(par)
      BY DEF PromptInv, PromptTypes, PromptsFit
    <3>2. \A x \in Seq(Origins) : Range(x) \subseteq Origins
      BY DEF Range
    <3>3. /\ Range(st[c].past0) \subseteq Origins /\ Range(st[c].past1) \subseteq Origins
      BY <3>1, <3>2 DEF StateOK
    <3>. QED BY <3>1, <3>3 DEF ThreadOK, PromptMax
  <2>. QED BY <2>1, <2>2, <2>3 DEF FullTypeOK
<1>2. FullInit => SoundInv
  BY DEF FullInit, SoundInv, NoAudio
<1>3. PromptInv /\ SoundInv /\ [FullNext]_fullVars => SoundInv'
  BY SoundNext
<1>. QED BY <1>1, <1>2, <1>3, PromptInit, PromptNext, HearingInit, HearingNext, WritingInit,
            WritingNext, PTL DEF FullSpec

-------------------------------------------------------------------------------
(* The mapping inverts what was cut.                                          *)

\* Speech is not lost in the rounding, and ends with the last window.
LEMMA SpeechIsCrisp ==
  ASSUME LongSpeech, NEW count \in Nat, NEW probs, Len(probs) = NumChunks(count), NEW max
  PROVE  Crisp(VadSegments(probs, max), count)
<1>. DEFINE segs == VadSegments(probs, max)
            end  == Len(probs) * VadWindow
<1>1. /\ Len(probs) \in Nat /\ end <= count + VadWindow - 1 /\ end \in Int
      /\ SamplesPerCs \in Nat \ {0} /\ VadWindow \in Nat \ {0}
  BY ChunksOfSound, VadAssumption DEF VadAssumption
<1>2. /\ segs \in Seq(Spans) /\ Spaced(segs, SamplesToCs(end))
      /\ SamplesPerCs <= MinSpeech => \A i \in 1..Len(segs) : segs[i].start < segs[i].end
  BY <1>1, SegmentsOfSound
<1>3. \A i \in 1..Len(segs) : CsToSamples(segs[i].start) <= count - 1
  BY SpeechBegins
<1>. HIDE DEF segs
<1>4. /\ CsToSamples(SamplesToCs(end)) \in Int /\ SamplesToCs(end) \in Int
      /\ 2 * CsToSamples(SamplesToCs(end)) <= 2 * end + SamplesPerCs
  BY <1>1, RoundedSample, NumbersOfSound
<1>. HIDE DEF end
<1>5. ASSUME NEW i \in 1..Len(segs)
      PROVE  2 * CsToSamples(segs[i].end) <= 2 * (count - 1) + 2 * VadWindow + SamplesPerCs
  <2>1. segs[i] \in Spans /\ segs[i].end <= SamplesToCs(end)
    BY <1>2 DEF Spaced
  <2>2. segs[i].end \in Int
    BY <2>1 DEF Spans
  <2>. DEFINE a == CsToSamples(segs[i].end)
              b == CsToSamples(SamplesToCs(end))
  <2>3. a \in Int /\ a <= b
    BY <1>4, <2>1, <2>2, NumbersOfSound, TimesKeepOrder
  <2>4. b \in Int /\ 2 * b <= 2 * end + SamplesPerCs
    BY <1>4
  <2>. HIDE DEF a, b
  <2>5. 2 * a <= 2 * (count - 1) + 2 * VadWindow + SamplesPerCs
    BY <1>1, <2>3, <2>4
  <2>. QED BY <2>5 DEF a
<1>6. \A i \in 1..Len(segs) : segs[i].start < segs[i].end
  BY <1>2 DEF LongSpeech
<1>7. Crisp(segs, count)
  BY <1>3, <1>5, <1>6 DEF Crisp
<1>. QED BY <1>7 DEF segs

InvertedInv == "points" \in DOMAIN audio /\ "parts" \in DOMAIN audio /\ Inverted(audio)

LEMMA InvertedNext ==
  ASSUME LongSpeech, PromptInv, InvertedInv, [FullNext]_fullVars
  PROVE  InvertedInv'
<1>1. CASE UNCHANGED audio
  BY <1>1 DEF InvertedInv
<1>2. CASE Start
  <2>1. call \in Nat /\ Len(Calls) \in Nat
    BY FullAssumption DEF FullAssumption, PromptInv, PromptTypes
  <2>2. PICK p \in Calls[call + 1] :
          \/ audio' = NoAudio
          \/ \E probs \in p.vads :
               audio' = Filtered(VadSegments(probs, p.max_speech), p.samples)
          \/ audio' = [audio EXCEPT !.len = p.samples]
    BY <1>2 DEF Start
  <2>3. /\ p.samples \in Nat
        /\ \A probs \in p.vads : Len(probs) = NumChunks(p.samples)
    <3>1. p \in Params
      BY <1>2, <2>1, CallParams DEF Start
    <3>. QED BY <3>1, ParamsTyped
  <2>4. CASE audio' = NoAudio
    BY <2>4 DEF NoAudio, InvertedInv, Inverted
  <2>5. CASE audio' = [audio EXCEPT !.len = p.samples]
    <3>1. /\ "points" \in DOMAIN audio' /\ "parts" \in DOMAIN audio'
          /\ audio'.points = audio.points /\ audio'.parts = audio.parts
      BY <2>5 DEF InvertedInv
    <3>. QED BY <3>1 DEF InvertedInv, Inverted
  <2>6. ASSUME NEW probs \in p.vads,
               audio' = Filtered(VadSegments(probs, p.max_speech), p.samples)
        PROVE  InvertedInv'
    <3>. DEFINE segs == VadSegments(probs, p.max_speech)
                lim  == SamplesToCs(Len(probs) * VadWindow)
    <3>1. Len(probs) \in Nat
      BY <2>3, ChunksOfSound
    <3>2. segs \in Seq(Spans) /\ Spaced(segs, lim)
      BY <3>1, SegmentsOfSound
    <3>3. Crisp(segs, p.samples)
      BY <2>3, SpeechIsCrisp
    <3>4. audio' = Filtered(segs, p.samples)
      BY <2>6
    <3>. HIDE DEF segs, lim
    <3>5. Inverted(audio')
      <4>1. p.samples \in Int
        BY <2>3
      <4>2. Inverted(Filtered(segs, p.samples))
        BY <3>2, <3>3, <4>1, FilteredTable
      <4>. QED BY <3>4, <4>2
    <3>6. "points" \in DOMAIN audio' /\ "parts" \in DOMAIN audio'
      <4>1. CASE segs = <<>>
        BY <3>4, <4>1 DEF Filtered, NoAudio
      <4>2. CASE segs # <<>>
        BY <3>4, <4>2 DEF Filtered
      <4>. QED BY <4>1, <4>2
    <3>. QED BY <3>5, <3>6 DEF InvertedInv, Inverted
  <2>. QED BY <2>2, <2>4, <2>5, <2>6
<1>3. UNCHANGED audio \/ Start
  BY DEF FullNext, Decode, Begin, Window, Pass, Output, Join, Return, fullVars
<1>. QED BY <1>1, <1>2, <1>3

\* The table of the times maps what is left of the audio to where it was cut out:
\* exactly, but for the last part, which may lose what the last window has behind
\* the last sample, and the rounding; and it keeps the order of times.
THEOREM FullMappingInverts ==
  ASSUME LongSpeech
  PROVE  FullSpec => []MappingInverts
<1>1. PromptInv /\ TranscriptInv /\ SoundInv /\ InvertedInv => MappingInverts
  <2>. SUFFICES ASSUME TranscriptInv, SoundInv, InvertedInv
                PROVE  MappingInverts
    OBVIOUS
  <2>1. IsTable(audio.points) /\ audio.len \in Nat
    BY DEF TranscriptInv, SoundInv
  <2>2. \A t \in 0..SamplesToCs(audio.len) :
          OriginalTime(t, audio.points) <= OriginalTime(t + 1, audio.points)
    <3>1. SamplesToCs(audio.len) \in Int
      <4>1. audio.len \in Int
        BY <2>1
      <4>. QED BY <4>1, NumbersOfSound
    <3>2. \A t \in 0..SamplesToCs(audio.len) : t \in Int /\ t + 1 \in Int /\ t <= t + 1
      BY <3>1
    <3>. QED BY <2>1, <3>2, MappingKeepsOrder
  <2>. QED BY <2>2 DEF MappingInverts, InvertedInv, Inverted, Inverts
<1>2. FullInit => InvertedInv /\ SoundInv
  BY DEF FullInit, InvertedInv, SoundInv, NoAudio, Inverted
<1>3. PromptInv /\ InvertedInv /\ [FullNext]_fullVars => InvertedInv'
  BY InvertedNext
<1>4. PromptInv /\ SoundInv /\ [FullNext]_fullVars => SoundInv'
  BY SoundNext
<1>. QED BY <1>1, <1>2, <1>3, <1>4, PromptInit, PromptNext, HearingInit, HearingNext,
            WritingInit, WritingNext, PTL DEF FullSpec
===============================================================================
