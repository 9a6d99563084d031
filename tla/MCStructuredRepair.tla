------------------------ MODULE MCStructuredRepair --------------------------
(* Chains of no, one, three and four models, with and without one that is   *)
(* not an Ollama Cloud model; the model asked for is also in a chain.       *)
EXTENDS StructuredRepair

M(i, c) == [id |-> i, cloud |-> c]
MCModels == {"qwen", "gemma", "glm", "local"}
MCChains == {<<>>, <<M("qwen", TRUE)>>,
             <<M("qwen", TRUE), M("local", FALSE)>>,
             <<M("qwen", TRUE), M("gemma", TRUE), M("glm", TRUE)>>,
             <<M("gemma", TRUE), M("glm", TRUE), M("qwen", TRUE), M("local", FALSE)>>,
             <<M("qwen", TRUE), M("gemma", TRUE), M("qwen", TRUE), M("glm", TRUE)>>}
MCCounts == {1, 3}

=============================================================================
