---- MODULE MCLLMProvider ----
(* Instances of LLMProvider.  The models are named as in .env.example and
   render.yaml; an unprefixed name and a prefix that is no provider's are
   among them. *)
EXTENDS LLMProvider

ModelNames == {"openai/gpt-4o-mini", "anthropic/claude-haiku-4-5", "ollama/qwen2.5-coder:7b",
               "gpt-4o-mini", "meta/llama"}

Prefixes ==
  [m \in ModelNames |->
     CASE m = "openai/gpt-4o-mini" -> "openai"
       [] m = "anthropic/claude-haiku-4-5" -> "anthropic"
       [] m = "ollama/qwen2.5-coder:7b" -> "ollama"
       [] m = "gpt-4o-mini" -> ""
       [] m = "meta/llama" -> "meta"]

\* Every pair of models, with the keys of one provider missing or not.
AnyConfig == [task : ModelNames, fallback : ModelNames,
              keys : {{"openai"}, {"openai", "anthropic"}, {"openrouter"}}]
====
