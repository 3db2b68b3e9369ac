----------------------------- MODULE Inference -----------------------------
(***************************************************************************)
(* One request between its validation and its response: src/sequence.rs    *)
(* builds one row per question and pads them into a batch, the model       *)
(* computes a logit per option, src/postprocess.rs checks what it computed *)
(* and answers: a choice, a score or the probability of "true".  The       *)
(* service has to give the answers of the official functions, whose rules  *)
(* (docs/compatibility.md 3 and 5) are the operators named Official; the   *)
(* budgets at which both are compared are those of the oracles under       *)
(* tools/model-prep.                                                       *)
(*                                                                         *)
(* A text is known by the number of its tokens, a token by where it comes  *)
(* from.  A logit stands for the probability it becomes, in any unit:      *)
(* division by a temperature, exp, the sum and the four decimals are those *)
(* of both sides, and which temperature divides is kept by name.  Two      *)
(* values are no such number: NonFinite, which no check lets pass, and     *)
(* Large, which is finite and overflows once it is divided.                *)
(***************************************************************************)
EXTENDS Integers, SequencesExt

CONSTANTS
  Questions,    \* [kind, header, options : Seq(Nat)]: numbers of tokens
  States,       \* numbers of tokens of the state
  MaxQuestions, \* bound: questions of a request
  Tables,       \* sets of <<kind, bucket>> that temperature_by_options overrides
  Logits,       \* rows of logits, by their number
  NonFinite, Large

\* A question has options to choose from (build: TooFewOptions), and the model
\* computes as many numbers as the batch has columns.
ASSUME QuestionsAssumption ==
  \A q \in Questions : /\ q.kind \in {"choice", "score", "noul"}
                        /\ q.header \in Nat /\ q.options \in Seq(Nat) /\ Len(q.options) >= 2
ASSUME StatesAssumption == States \subseteq Nat
ASSUME BoundAssumption  == MaxQuestions \in Nat
ASSUME LogitsAssumption ==
  \A q \in Questions :
    LET k == Len(q.options) IN Logits[k] \subseteq [1..k -> {NonFinite, Large} \cup Int]
ASSUME ValuesAssumption == NonFinite # Large /\ {NonFinite, Large} \cap Int = {}

VARIABLES
  questions,  \* the request
  state,      \* tokens of its state
  budget,     \* max_len and head_max_len
  table,      \* the overrides that are configured
  pc,
  rows,       \* rows built so far
  batch,      \* the padded batch
  logits,     \* what the model computed: one row of K logits per question
  acts,       \* and act_probs: whether the row of each question is a distribution
  answers

vars == <<questions, state, budget, table, pc, rows, batch, logits, acts, answers>>

\* Tokens: what it is, of which question, of which option, the how manieth.
Token(what, q, j, i) == <<what, q, j, i>>
Special(what)        == Token(what, 0, 0, 0)
Text(what, q, j, n)  == [i \in 1..n |-> Token(what, q, j, i)]

Take(s, n) == SubSeq(s, 1, IF n < Len(s) THEN n ELSE Len(s))
Greater(a, b) == IF a > b THEN a ELSE b
\* usize::saturating_sub
Sat(a, b)  == Greater(a - b, 0)
Concat(seqs) ==
  LET upTo[n \in 0..Len(seqs)] == IF n = 0 THEN <<>> ELSE upTo[n - 1] \o seqs[n]
  IN  upTo[Len(seqs)]
\* sum_lengths
Total(seqs) ==
  LET upTo[n \in 0..Len(seqs)] == IF n = 0 THEN 0 ELSE upTo[n - 1] + Len(seqs[n])
  IN  upTo[Len(seqs)]

----------------------------------------------------------------------------
\* src/sequence.rs

HeaderText(q) == Text("header", q, 0, questions[q].header)

\* A marker and the first 48 tokens of the option.
OptionText(q, j) == <<Token("mask", q, j, 0)>> \o Take(Text("option", q, j, questions[q].options[j]), 48)
OptionTexts(q)   == [j \in 1..Len(questions[q].options) |-> OptionText(q, j)]

\* Mutant: an option keeps what its share of the budget is, however small.
TruncateOptionsToShare(options) ==
  IF Sat(budget.head, Total(options)) >= 16 THEN options
  ELSE [j \in DOMAIN options |-> Take(options[j], Sat(budget.head, 16) \div Len(options))]

TruncateOptions(options) ==
  IF Sat(budget.head, Total(options)) >= 16 THEN options
  ELSE [j \in DOMAIN options |-> Take(options[j], Greater(Sat(budget.head, 16) \div Len(options), 4))]

TruncateHeader(header, options) == Take(header, Greater(Sat(budget.head, Total(options)), 8))

\* How much precedes option j in the row: ids.len() when it is its turn.
Start(header, options, j) == 2 + Len(header) + Total(SubSeq(options, 1, j - 1))

MarkerLost(header, options) ==
  \E j \in DOMAIN options : Start(header, options, j) >= budget.max

Lost == [ids |-> <<>>, markers |-> <<>>]

Row(q) ==
  LET options == TruncateOptions(OptionTexts(q))
      header  == TruncateHeader(HeaderText(q), options)
      room    == Sat(Sat(budget.max, Len(header) + Total(options) + 3), 1)
  IN  IF MarkerLost(header, options) THEN Lost
      ELSE [ids |-> Take(<<Special("cls")>> \o header \o <<Special("sep")>> \o Concat(options)
                           \o <<Special("sep")>> \o Take(Text("state", 0, 0, state), room)
                           \o <<Special("sep")>>, budget.max),
            markers |-> [j \in DOMAIN options |-> Start(header, options, j)]]

Widest(lengths) == CHOOSE n \in lengths : \A m \in lengths : m <= n

\* Mutant: the padding is on the left.
PaddedLeft(s, n, pad) == [i \in 1..n |-> IF i > n - Len(s) THEN s[i - (n - Len(s))] ELSE pad]

Padded(s, n, pad) == [i \in 1..n |-> IF i <= Len(s) THEN s[i] ELSE pad]

\* Every row filled up on its right; the masks tell what is real.
Collate(built) ==
  LET l == Widest({Len(built[q].ids) : q \in DOMAIN built})
      k == Widest({Len(built[q].markers) : q \in DOMAIN built})
  IN  [input_ids      |-> [q \in DOMAIN built |-> Padded(built[q].ids, l, Special("pad"))],
       attention_mask |-> [q \in DOMAIN built |-> [i \in 1..l |-> i <= Len(built[q].ids)]],
       marker_pos     |-> [q \in DOMAIN built |-> Padded(built[q].markers, k, 0)],
       marker_mask    |-> [q \in DOMAIN built |-> [j \in 1..k |-> j <= Len(built[q].markers)]],
       input_tokens   |-> Total([q \in DOMAIN built |-> built[q].ids])]

----------------------------------------------------------------------------
\* src/postprocess.rs

Bucket(k) == CASE k \in 0..2 -> "2" [] k \in 3..5 -> "3-5" [] k \in 6..10 -> "6-10" [] OTHER -> "11+"

Temperature(kind, k) ==
  IF <<kind, Bucket(k)>> \in table THEN <<kind, Bucket(k)>> ELSE <<kind, "type">>

\* The loop over the probabilities of answer(): a later one has to be greater.
Best(p) ==
  LET upTo[n \in 1..Len(p)] ==
        IF n = 1 THEN 1 ELSE LET best == upTo[n - 1] IN IF p[n] > p[best] THEN n ELSE best
  IN  upTo[Len(p)]

\* The loop over the levels of a score, numbered from 0.
Expected(p) ==
  LET upTo[n \in 0..Len(p)] == IF n = 0 THEN 0 ELSE upTo[n - 1] + (n - 1) * p[n]
  IN  upTo[Len(p)]

\* validate_shape and finite, of the padding too.
WellFormed ==
  LET b == Len(questions)
      k == Widest({Len(questions[q].options) : q \in DOMAIN questions})
  IN  /\ DOMAIN logits = 1..b /\ DOMAIN acts = 1..b
      /\ \A q \in 1..b : DOMAIN logits[q] = 1..k /\ \A j \in 1..k : logits[q][j] # NonFinite

\* Mutant: the padding competes with the options.
ProbabilitiesPadded(q) == logits[q]

\* The first k logits of the row are its options'; the rest is padding.
Probabilities(q) == SubSeq(logits[q], 1, Len(questions[q].options))

\* finite, after the division, and distribution.
Calculable(q) ==
  acts[q] /\ \A j \in 1..Len(questions[q].options) : Probabilities(q)[j] # Large

Valid == WellFormed /\ \A q \in 1..Len(questions) : Calculable(q)

Answer(q) ==
  LET kind        == questions[q].kind
      p           == Probabilities(q)
      temperature == Temperature(kind, Len(p))
  IN  CASE kind = "choice" ->
             [choice |-> Best(p), probabilities |-> p, temperature |-> temperature]
        [] kind = "score" ->
             [score |-> Expected(p), probabilities |-> p, temperature |-> temperature]
        [] kind = "noul" ->
             [noul |-> p[2], temperature |-> temperature]

----------------------------------------------------------------------------
\* The official functions.

\* The marks that the cut leaves.
Below(marks, max) ==
  LET kept[n \in 0..Len(marks)] ==
        IF n = 0 THEN <<>>
        ELSE IF marks[n] < max THEN Append(kept[n - 1], marks[n]) ELSE kept[n - 1]
  IN  kept[Len(marks)]

\* build_sequence, with signed arithmetic, on the whole sequence.
OfficialRow(q, tokens, max, head) ==
  LET texts   == OptionTexts(q)
      k       == Len(texts)
      per     == Greater(4, (head - 16) \div Greater(1, k))
      options == IF head - Total(texts) < 16 THEN [j \in 1..k |-> Take(texts[j], per)] ELSE texts
      header  == Take(HeaderText(q), Greater(8, head - Total(options)))
      front   == <<Special("cls")>> \o header \o <<Special("sep")>> \o Concat(options)
                   \o <<Special("sep")>>
      room    == Greater(0, max - Len(front) - 1)
      whole   == front \o Take(Text("state", 0, 0, tokens), room) \o <<Special("sep")>>
      marks   == [j \in 1..k |-> (CHOOSE i \in 1..Len(whole) : whole[i] = Token("mask", q, j, 0)) - 1]
  IN  [ids |-> Take(whole, max), markers |-> Below(marks, max)]

OfficialLost(q, row) == Len(row.markers) # Len(questions[q].options)

\* temp_bucket, and the calibration of fixtures.stages: an override or the type's temperature.
OfficialTemperature(kind, k) ==
  LET bucket == IF k <= 2 THEN "2" ELSE IF k <= 5 THEN "3-5" ELSE IF k <= 10 THEN "6-10" ELSE "11+"
  IN  IF <<kind, bucket>> \in table THEN <<kind, bucket>> ELSE <<kind, "type">>

\* numpy.argmax of z[:k]: the first of the greatest.
OfficialBest(row, k) ==
  CHOOSE i \in 1..k : /\ \A j \in 1..k : row[j] <= row[i]
                      /\ \A j \in 1..k : row[j] = row[i] => i <= j

\* The sum of i * p_i, i from 0.
OfficialScore(row, k) ==
  LET sum[n \in 0..k] == IF n = 0 THEN 0 ELSE sum[n - 1] + (n - 1) * row[n]
  IN  sum[k]

\* The answer to question q, of which row is the output.
OfficialAnswer(q, row) ==
  LET kind        == questions[q].kind
      k           == Len(questions[q].options)
      z           == [i \in 1..k |-> row[i]]
      temperature == OfficialTemperature(kind, k)
  IN  CASE kind = "choice" ->
             [choice |-> OfficialBest(row, k), probabilities |-> z, temperature |-> temperature]
        [] kind = "score" ->
             [score |-> OfficialScore(row, k), probabilities |-> z, temperature |-> temperature]
        [] kind = "noul" ->
             [noul |-> row[2], temperature |-> temperature]

\* The contract of the outputs, for a batch of [B,K]: the shapes, all of them finite,
\* what is calculated from the options finite, and distributions.
OfficialOutputs ==
  LET b == Len(batch.marker_mask)
      k == Len(batch.marker_mask[1])
  IN  /\ logits \in [1..b -> [1..k -> {Large} \cup Int]]
      /\ acts = [q \in 1..b |-> TRUE]
      /\ \A q \in 1..b : \A j \in 1..k : batch.marker_mask[q][j] => logits[q][j] # Large

\* The budgets of sequence_oracle.generate: the limit of the row around the first
\* question's markers and its room, the limit of the head around its floors.
OracleBudgets ==
  LET empty == OfficialRow(1, 0, 1024, 256)
      first == empty.markers[1]
      end   == empty.markers[Len(empty.markers)]
  IN  [max : {1024, Len(empty.ids), Len(empty.ids) + 1, end + 1, end, first}, head : {256}]
      \cup [max : {1024}, head : {0, 15, 16, 23, 24, 113, 114}]

----------------------------------------------------------------------------

Init ==
  /\ questions \in SeqOf(Questions, MaxQuestions) \ {<<>>}
  /\ state \in States
  /\ table \in Tables
  /\ budget = [max |-> 0, head |-> 0]
  /\ pc = "new"
  /\ rows = <<>> /\ batch = <<>> /\ logits = <<>> /\ acts = <<>> /\ answers = <<>>

\* SequenceBuilder::new: the budgets, of which the one of the row is not zero.
New ==
  /\ pc = "new"
  /\ budget' \in {b \in OracleBudgets : b.max # 0}
  /\ pc' = "build"
  /\ UNCHANGED <<questions, state, table, rows, batch, logits, acts, answers>>

AllBuilt == Len(rows) = Len(questions)

\* One question; a lost marker ends the request.
Build ==
  /\ pc = "build" /\ ~AllBuilt
  /\ LET row == Row(Len(rows) + 1)
     IN  IF row = Lost THEN pc' = "lost" /\ UNCHANGED rows
                       ELSE rows' = Append(rows, row) /\ UNCHANGED pc
  /\ UNCHANGED <<questions, state, budget, table, batch, logits, acts, answers>>

CollateRows ==
  /\ pc = "build" /\ AllBuilt
  /\ batch' = Collate(rows)
  /\ pc' = "run"
  /\ UNCHANGED <<questions, state, budget, table, rows, logits, acts, answers>>

\* The model, of which nothing is known: any logits, those of the padding included,
\* or outputs of another shape, which <<>> stands for.
Run ==
  /\ pc = "run"
  /\ logits' \in {<<>>} \cup [1..Len(questions) -> Logits[Len(batch.marker_mask[1])]]
  /\ acts' \in {<<>>} \cup [1..Len(questions) -> BOOLEAN]
  /\ pc' = "answer"
  /\ UNCHANGED <<questions, state, budget, table, rows, batch, answers>>

Respond ==
  /\ pc = "answer"
  /\ Valid
  /\ answers' = [q \in 1..Len(questions) |-> Answer(q)]
  /\ pc' = "done"
  /\ UNCHANGED <<questions, state, budget, table, rows, batch, logits, acts>>

\* One invalid output fails the response as a whole.
Fail ==
  /\ pc = "answer"
  /\ ~Valid
  /\ pc' = "failed"
  /\ UNCHANGED <<questions, state, budget, table, rows, batch, logits, acts, answers>>

Next == New \/ Build \/ CollateRows \/ Run \/ Respond \/ Fail

Spec == Init /\ [][Next]_vars

----------------------------------------------------------------------------

\* The rows are those of the official function, and the request is rejected exactly
\* when a marker of one of its questions does not fit, at the budgets where saturating
\* and signed arithmetic, the floors and the last free place decide (sequence.rs row).
RowsAreOfficial ==
  /\ \A q \in DOMAIN rows :
       LET row == OfficialRow(q, state, budget.max, budget.head)
       IN  ~OfficialLost(q, row) /\ rows[q] = row
  /\ pc = "lost" =>
       LET q == Len(rows) + 1 IN OfficialLost(q, OfficialRow(q, state, budget.max, budget.head))

\* In the padded batch each option of each question is found at its own marker, in
\* front of padding, and the usage counts just what the attention masks leave
\* (sequence.rs collate; docs/compatibility.md 3).
BatchFindsOptions ==
  batch # <<>> =>
    /\ \A q \in DOMAIN questions : \A j \in 1..Len(batch.marker_pos[q]) :
         LET at == batch.marker_pos[q][j] + 1
         IN  IF j <= Len(questions[q].options)
             THEN /\ batch.marker_mask[q][j] /\ batch.attention_mask[q][at]
                  /\ batch.input_ids[q][at] = Token("mask", q, j, 0)
             ELSE ~batch.marker_mask[q][j]
    /\ batch.input_tokens =
         Cardinality({p \in (DOMAIN questions) \X (1..Len(batch.input_ids[1])) :
                        batch.input_ids[p[1]][p[2]] # Special("pad")})

\* A request is answered exactly when the outputs of the model keep their contract, and
\* then every question as the official functions do: a choice by the first of the
\* greatest, a score by its expectation, a proposition by the probability of "true",
\* each from the logits of its own options, never from those of the padding, calibrated
\* by the temperature the official functions choose.  One bad output, be it in the
\* padding, leaves no question answered (postprocess.rs response, probabilities, answer).
AnswersAreOfficial ==
  /\ pc = "done" =>
       OfficialOutputs /\ answers = [q \in DOMAIN questions |-> OfficialAnswer(q, logits[q])]
  /\ pc = "failed" => ~OfficialOutputs /\ answers = <<>>
=============================================================================
