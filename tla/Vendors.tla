------------------------------ MODULE Vendors ------------------------------
(***************************************************************************)
(* How each provider takes what comes back from its service (providers/).    *)
(*   limits      replies taken as a rate limit: the next key is tried        *)
(*   rotates     a lost connection, too, goes on with the next key           *)
(*   structured  the structured call takes the parameters the Llm gives      *)
(*   sdk         the requests are the SDK's: each reads the fields anew        *)
(*   reads       what becomes of the content of a reply                      *)
(* Replies: "200", "429", "503", "529", "401", another status whose text     *)
(* says "quota", "rate_limit" or "overloaded", any "other" one, a connection *)
(* "lost", and "silence" until the time-out.                                 *)
(***************************************************************************)

Replies == {"200", "429", "503", "529", "401", "quota", "rate_limit", "overloaded",
            "other", "lost", "silence"}

\* answer; asks: an answer that asks for an investigation; null args: a null
\* where the schema wants arguments; not json; off schema; nothing at all.
Contents == {"answer", "asks", "null args", "not json", "off schema", "nothing"}

\* The outcomes of a call, as the Llm tells them apart: transient errors are
\* tried again, invalid ones with the reasons, broken ones are raised.
Outcomes == {"answer", "asks", "invalid", "transient", "network", "quota",
             "broken", "cancelled"}

\* json.loads fails before the schema is looked at.
Parsed(content) ==
  CASE content \in {"answer", "asks"} -> content
    [] content = "null args"          -> "answer"
    [] content = "not json"           -> "transient"
    [] content = "off schema"         -> "invalid"
    [] content = "nothing"            -> "broken"

OpenAIReads     == [c \in Contents |-> Parsed(c)]
GroqReads       == [c \in Contents |-> Parsed(c)]
DeepSeekReads   == [c \in Contents |-> Parsed(c)]
OpenRouterReads == [c \in Contents |-> Parsed(c)]

\* The schema validates the text itself: no repair, and no JSON is an error
\* of validation; one about a null is taken for an answer that was blocked.
GeminiReads ==
  [c \in Contents |-> CASE c \in {"answer", "asks"}         -> c
                        [] c \in {"not json", "off schema"} -> "invalid"
                        [] OTHER                            -> "broken"]

\* The tool call of the answer holds an object already, or it is missing.
AnthropicReads ==
  [c \in Contents |-> CASE c \in {"answer", "asks"} -> c
                        [] c = "off schema"         -> "invalid"
                        [] OTHER                    -> "broken"]

Talking(limits, rotates, sdk, structured, reads) ==
  [limits |-> limits, rotates |-> rotates, sdk |-> sdk,
   structured |-> structured, reads |-> reads]

OpenAI     == Talking({"429", "503", "quota", "rate_limit"}, TRUE, FALSE, TRUE, OpenAIReads)
Groq       == Talking({"429", "503", "quota", "rate_limit"}, TRUE, FALSE, TRUE, GroqReads)
DeepSeek   == Talking({"429", "503", "quota", "rate_limit"}, TRUE, FALSE, TRUE, DeepSeekReads)
OpenRouter == Talking({"429", "503", "quota", "rate_limit"}, TRUE, FALSE, TRUE, OpenRouterReads)

\* Its structured call has no max_output_tokens, which the Llm always passes.
Anthropic == Talking({"429", "503", "529", "rate_limit", "overloaded"}, TRUE, FALSE, FALSE,
                     AnthropicReads)

\* The SDK's errors of connection are not among those that rotate.
Gemini == Talking({"429", "503"}, FALSE, TRUE, TRUE, GeminiReads)

TheVendors == {OpenAI, Groq, DeepSeek, OpenRouter, Anthropic, Gemini}
=============================================================================
