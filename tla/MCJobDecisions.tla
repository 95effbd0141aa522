---------------------------- MODULE MCJobDecisions ----------------------------
(***************************************************************************)
(* JobDecisions with the registry of the repository and with the inputs at *)
(* both sides of the thresholds.                                           *)
(***************************************************************************)
EXTENDS JobDecisions

-----------------------------------------------------------------------------
\* project_block_registry.json: the blocks in the order of their ids.

AgenticSoftware == 1  AgenticVerification == 2  AxiRouter == 3  Dementia == 4
JobAgent == 5  SparrowCluster == 6  SparrowVDigital == 7  SparrowVVerification == 8
SparrowMLml == 9  SparrowMLSoftware == 10  SpeakUp == 11  TinyNPU == 12

Block(project, home, eligible, caps, bridges, evidence, strength) ==
  [project |-> project, home |-> home, eligible |-> {home} \cup eligible, caps |-> caps,
   bridges |-> bridges, evidence |-> evidence, strength |-> strength]

\* Of the capabilities those that an alias can ask for.
RegistryBank == <<
  Block("agentic_rtl_security", "software", {},
        [software_engineering |-> 90, python |-> 95, verification |-> 72, rtl |-> 42],
        {<<"software_engineering", "verification">>, <<"software_engineering", "rtl">>}, 3, 80),
  Block("agentic_rtl_security", "verification", {},
        [verification |-> 95, python |-> 85, software_engineering |-> 58, rtl |-> 62],
        {<<"verification", "software_engineering">>, <<"verification", "rtl">>}, 4, 82),
  Block("axi4_stream_packet_router", "verification", {},
        [verification |-> 100, uvm |-> 95, rtl |-> 55], {<<"verification", "rtl">>}, 4, 84),
  Block("dementia_speech_classification", "ml", {},
        [machine_learning |-> 100, model_training |-> 90, pytorch |-> 82],
        {<<"machine_learning", "pytorch">>}, 4, 82),
  Block("jobagent", "software", {}, [software_engineering |-> 100, python |-> 70],
        {<<"software_engineering", "deployment">>}, 4, 78),
  Block("sparrow_cluster", "digital_ic", {},
        [rtl |-> 100, digital_design |-> 95, computer_architecture |-> 95],
        {<<"rtl", "computer_architecture">>}, 3, 78),
  Block("sparrow_v", "digital_ic", {},
        [rtl |-> 100, digital_design |-> 95, computer_architecture |-> 90,
         hardware_acceleration |-> 72, quantization |-> 62, edge_ai |-> 58],
        {<<"edge_ai", "rtl">>}, 3, 82),
  Block("sparrow_v", "verification", {},
        [verification |-> 100, rtl |-> 55, computer_architecture |-> 62, python |-> 45],
        {<<"verification", "computer_architecture">>}, 3, 80),
  Block("sparrowml", "ml", {"digital_ic"},
        [machine_learning |-> 90, pytorch |-> 82, quantization |-> 100, edge_ai |-> 92,
         on_device_inference |-> 82, compiler_runtime |-> 82],
        {<<"machine_learning", "edge_ai">>, <<"edge_ai", "hardware_acceleration">>}, 4, 90),
  Block("sparrowml", "software", {},
        [software_engineering |-> 85, compiler_runtime |-> 100, python |-> 85,
         machine_learning |-> 72, quantization |-> 82, edge_ai |-> 74],
        {<<"software_engineering", "machine_learning">>}, 3, 86),
  Block("speakup", "ml", {},
        [machine_learning |-> 85, quantization |-> 82, edge_ai |-> 86,
         on_device_inference |-> 78], {<<"machine_learning", "edge_ai">>}, 4, 82),
  Block("tinynpu", "digital_ic", {"ml"},
        [rtl |-> 100, npu |-> 100, ml_accelerator |-> 95, hardware_acceleration |-> 95,
         quantization |-> 80, edge_ai |-> 70],
        {<<"machine_learning", "hardware_acceleration">>, <<"edge_ai", "rtl">>}, 4, 90)>>

RegistryBase ==
  [digital_ic   |-> {TinyNPU, SparrowVDigital, SparrowCluster},
   verification |-> {AxiRouter, AgenticVerification, SparrowVVerification},
   software     |-> {JobAgent, AgenticSoftware, SparrowMLSoftware},
   ml           |-> {Dementia, SparrowMLml, SpeakUp}]

Rule(family, removed, inserted, review) ==
  [family |-> family, removed |-> removed, inserted |-> inserted, review |-> review]

RegistryRules ==
  {Rule("digital_ic", SparrowCluster, SparrowMLml, TRUE),
   Rule("verification", AgenticVerification, SparrowVVerification, FALSE),
   Rule("ml", SpeakUp, SparrowMLml, FALSE), Rule("ml", SpeakUp, TinyNPU, TRUE)}

-----------------------------------------------------------------------------
\* The pages: lengths at both sides of the thresholds, and a title that carries a
\* campaign, with enough support for the one without or not.

Title(source, campaign) ==
  [source |-> source, confidence |-> "high", value |-> "engineer", length |-> 8,
   campaign |-> campaign]

SomePages ==
  {[visible |-> v, posting |-> p, element |-> 0, kept |-> k, duties |-> d, skills |-> s,
    company |-> c, noise |-> n,
    titles |-> IF c THEN <<Title("meta_tag", TRUE), Title("heading", FALSE)>> \o
                         (IF d THEN <<Title("page_title_pattern", FALSE)>> ELSE <<>>)
               ELSE <<>>] :
     v \in {60, 400, 1300}, p \in {0, 200}, k \in {50, 100}, d \in BOOLEAN, s \in BOOLEAN,
     c \in BOOLEAN, n \in {5, 20, 40}}

\* The signals: one strong family, one beside it, in the title or not.
Signal(title, weight, against) == [title |-> title, weight |-> weight, against |-> against]
Weak == Signal(FALSE, 1, 0)

SomeSignals ==
  {[f \in Families |-> CASE f = strong -> Signal(TRUE, 9, 0)
                         [] f = beside /\ f /= strong -> Signal(title, w, 1)
                         [] OTHER -> Weak] :
     strong \in {"digital_ic", "ml"}, beside \in {"digital_ic"},
     title \in BOOLEAN, w \in {2, 6, 9}}

SomeAnswers ==
  {Unavailable} \cup {[f \in Families |-> IF f = best THEN 7 ELSE 1] : best \in {"ml"}}

\* The facts for the score: three blocks of the bank, all alike or not.
Fact(matched, evidence) ==
  [matched |-> matched, domain |-> matched > 0, evidence |-> evidence,
   recency |-> 90, impressive |-> 90]

SomeFacts ==
  {[terms |-> 5, senior |-> FALSE, blocks |-> <<Fact(m, 90), Fact(n, 40)>>, musts |-> musts,
    skills |-> 7, domain |-> m > 0, blocked |-> blocked] :
     m \in {0, 5}, n \in {0, 3}, musts \in BOOLEAN, blocked \in BOOLEAN}

\* The scoring model: it answers at once, after a timeout, too late or not at all, or
\* not in JSON, names any family, and may leave out a block.
Assessed(match, risk) == [match |-> match, risk |-> risk]
Assessment(family, confidence, grounded, match) ==
  [family |-> family, confidence |-> confidence, grounded |-> grounded,
   blocks |-> <<Assessed(match, 0), Assessed(match, 2)>>]

SomeClients ==
  {[enabled |-> TRUE, key |-> TRUE, calls |-> calls,
    answer |-> Assessment(family, confidence, confidence = "high", match)] :
     calls \in {<<"answer">>, <<"timeout", "answer">>, <<"error", "timeout">>,
               <<"timeout", "malformed">>},
     family \in {"ml", "other"}, confidence \in {"high", "low"},
     match \in {4, 5}}
  \cup {[enabled |-> FALSE, key |-> FALSE, calls |-> <<"answer">>,
         answer |-> Assessment("ml", "high", TRUE, 4)],
        [enabled |-> TRUE, key |-> TRUE, calls |-> <<"answer">>,
         answer |-> [Assessment("ml", "high", TRUE, 4) EXCEPT !.blocks = Front(@)]]}

\* What postings ask for.
Mention(key, section, explicit) ==
  [key |-> key, section |-> section, explicit |-> explicit, preferred |-> FALSE, quote |-> key]

SomeMentions ==
  {<<Mention("python", "skills", FALSE), Mention("generic", "jd_text", FALSE)>>,
   <<Mention("npu", "must_have_requirements", TRUE), Mention("quantization", "jd_text", FALSE),
     Mention("npu", "jd_text", FALSE)>>,
   <<Mention("generic", "title", FALSE), Mention("rtl", "title", FALSE),
     Mention("rtl", "title", TRUE), Mention("edge_ai", "responsibilities", TRUE)>>,
   <<Mention("verification", "must_have_requirements", TRUE)>>}

Item(caps, quote, grounded, negated, importance, specificity) ==
  [caps |-> caps, quote |-> quote, grounded |-> grounded, negated |-> negated,
   importance |-> importance, specificity |-> specificity, worded |-> TRUE, idle |-> FALSE]

SomeItems ==
  {Item(caps, quote, grounded, negated, importance, 700) :
     caps \in {{"rtl"}, {"npu", "edge_ai"}, {"sales"}}, quote \in {"npu", "rtl"},
     grounded \in BOOLEAN, negated \in BOOLEAN, importance \in {600, 900, 1100}}

SomeResponses ==
  {[comes |-> "answer", items |-> <<a, b>>] :
     a \in SomeItems, b \in {Item({"rtl"}, "rtl", TRUE, FALSE, 650, 600)}}
  \cup {[comes |-> comes, items |-> <<>>] : comes \in {"timeout", "malformed", "answer"}}

\* Overlaps: a posting speaks of some of the blocks that a rule moves.
SomeReadings ==
  {[b \in 1..12 |-> IF b \in about THEN 400 ELSE 220] :
     about \in SUBSET {SparrowCluster, SparrowMLml, SpeakUp, TinyNPU}}
=============================================================================
