--------------------------- MODULE MCCoderStaging ---------------------------
(***************************************************************************)
(* CoderStaging for TLC: one CODER or REVIEWER run, on any provider, over  *)
(* a source with a safe and an unsafe commit.                              *)
(***************************************************************************)
EXTENDS CoderStaging

Result(agent, calls, body) ==
  [agent |-> agent, outcome |-> "success", warnings |-> 0, calls |-> calls,
   actions |-> <<>>, body |-> body]
MCResults ==
  { Result("coder", <<>>, [workRecord |-> "json"]),
    Result("reviewer", <<>>, [reviewStatus |-> "PASS", report |-> "json"]),
    Result("reviewer", <<>>, [reviewStatus |-> "FAIL", failureOrigin |-> "plan",
                              report |-> "json"]) }

Config(provider, surface, model, setting) ==
  [status |-> "configured", provider |-> provider, surface |-> surface, model |-> model,
   setting |-> setting]
MCConfigs ==
  { Config("anthropic", "cli", "claude", "max"), Config("openai", "cli", "gpt", NoSetting) }

Probe(number) ==
  [spawned |-> TRUE, code |-> 0, timedOut |-> FALSE, number |-> number, flags |-> TRUE]
MCRuntimes ==
  { [anthropic |-> [version |-> Probe(n), capability |-> Probe(n)],
     openai |-> [version |-> Probe(<<>>)],
     google |-> [version |-> Probe(n), capability |-> Probe(n)]] : n \in {<<2, 2, 0, 1>>} }
=============================================================================
