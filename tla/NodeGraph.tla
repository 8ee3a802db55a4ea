----------------------------- MODULE NodeGraph -----------------------------
(***************************************************************************)
(* The analysis nodes of a chart: which node depends on which (agent/      *)
(* deps.py) and which outputs a node's prompt quotes (NODE_CONTEXT of      *)
(* agent/nodes/prompt_builder.py).                                         *)
(***************************************************************************)

CommonPrereqs == {"PAIPAN", "OVERALL", "SHISHEN", "GEJU_ROUTER",
                  "GEJU_ANALYSIS", "GEJU_LEVEL", "WUXING_PREFS"}
AspectNodes == {"CAREER", "RELATIONSHIP", "HEALTH", "GUIREN", "LIUQIN",
                "XINGGE", "OTHER"}
PersistentNodes == CommonPrereqs \cup AspectNodes
LlmNodes == PersistentNodes \ {"PAIPAN"}

GejuNodes == {"GEJU_ROUTER", "GEJU_ANALYSIS", "GEJU_LEVEL"}

Deps ==
  [n \in PersistentNodes |->
    CASE n = "PAIPAN" -> {}
      [] n \in {"OVERALL", "SHISHEN", "GEJU_ROUTER"} -> {"PAIPAN"}
      [] n = "GEJU_ANALYSIS" -> {"PAIPAN", "GEJU_ROUTER"}
      [] n = "GEJU_LEVEL" -> {"PAIPAN", "GEJU_ROUTER", "GEJU_ANALYSIS"}
      [] n = "WUXING_PREFS" -> {"PAIPAN", "OVERALL", "SHISHEN"} \cup GejuNodes
      [] n \in AspectNodes -> CommonPrereqs]

\* The cache entries build_prompt reads: "paipan", "guji" and "dayun_liunian"
\* are parts of PAIPAN's output, "GEJU" is the three GEJU nodes.
PromptReads ==
  [n \in LlmNodes |->
    CASE n \in {"OVERALL", "SHISHEN", "GEJU_ROUTER"} -> {"PAIPAN"}
      [] n = "GEJU_ANALYSIS" -> {"PAIPAN", "GEJU_ROUTER"}
      [] n = "GEJU_LEVEL" -> {"PAIPAN", "GEJU_ROUTER", "GEJU_ANALYSIS"}
      [] n = "WUXING_PREFS" -> {"PAIPAN", "OVERALL", "SHISHEN"} \cup GejuNodes
      [] n \in AspectNodes ->
           {"PAIPAN", "OVERALL", "SHISHEN", "WUXING_PREFS"} \cup GejuNodes]

\* The answer quotes the common nodes and the aspects of this turn.
ResponseReads(aspects) == CommonPrereqs \cup aspects

=============================================================================
