---------------------------- MODULE MCProvider -----------------------------
(* Instances for TLC of what stands between the Kernel and a Provider: the   *)
(* framing of its answers, the requests and their decoders, the discovery of *)
(* its models, and the accounts of its usage.  The parts share no state; a   *)
(* behaviour is one of a single part.                                        *)
EXTENDS ServerSentEvents, ProviderTransport, ProviderDiscovery, UsageLedger, TLC

CONSTANTS u1, u2, p1, p2

VARIABLE part

-----------------------------------------------------------------------------
(* Discovery: a Profile may change its endpoint while it is asked.           *)
Setting(endpoint, mode) ==
    [template |-> "t", endpoint |-> endpoint, dialects |-> {"r"}, mode |-> mode]
MCSettings == {Setting("e", "both"), Setting("f", "discovery")}
MCReleased == [t |-> {"n"}]
MCAnswers == {<<"m">>, <<"m", "m">>, <<"bad">>}
MCSymmetry == Permutations({u1, u2}) \cup Permutations({p1, p2})

-----------------------------------------------------------------------------
(* Usage: windows within a day and across midnight, two releases of the time *)
(* zone rules, and price books whose schedules meet at a tier, at a context  *)
(* size or at an instant.                                                    *)
TokenRecord(input, cached, written, output, reasoning, tier, accuracy) ==
    [input |-> input, cached |-> cached, write |-> written, output |-> output,
     reasoning |-> reasoning, tier |-> tier, accuracy |-> accuracy]
MCRecords == {TokenRecord(3, 0, None, 1, None, "none", "Exact"),
              TokenRecord(1, 1, 1, 0, 0, "std", "Estimated")}

Rates(input, cached, written, output, reasoning) ==
    [input |-> input, cached |-> cached, write |-> written, output |-> output,
     reasoning |-> reasoning]
Schedule(id, dialect, tier, min, max, until, currency, rates) ==
    [id |-> id, profile |-> "p", model |-> "m", dialect |-> dialect, tier |-> tier, min |-> min,
     max |-> max, from |-> 0, until |-> until, currency |-> currency, rates |-> rates]
UsageWindow(id, start, end, days) == [id |-> id, start |-> start, end |-> end, days |-> days]

MCEpochs ==
    {[windows |-> {UsageWindow(1, 0, 1, {0}), UsageWindow(2, 2, 1, {0})},
      book |-> {Schedule(1, "any", "std", 0, 3, None, "USD", Rates(1, 0, 1, 1, 2)),
                Schedule(2, "r", "any", 3, None, None, "USD", Rates(1, 1, 0, 1, 1))}],
     [windows |-> {UsageWindow(3, 1, 0, {1})},
      book |-> {Schedule(1, "any", "std", 0, None, 2, "EUR", Rates(2, 1, 1, 1, 1)),
                Schedule(2, "r", "any", 0, None, None, "USD", Rates(1, 1, 0, 1, 1))}]}
MCContexts == {[profile |-> "p", model |-> "m", dialect |-> "r"]}
MCOffset == <<0, 2>>

-----------------------------------------------------------------------------
(* Both Profiles begin with the first setting.  A quiet part takes no step.  *)
FirstSetting == DiscoveryInit /\ config.profiles[p1].mode = "both"
QuietDiscovery == FirstSetting /\ config.selected = p1
QuietUsage == UsageInit /\ ruleset = 1

MCInit ==
    /\ SseInit /\ TransportInit
    /\ \/ part \in {"events", "transport"} /\ QuietDiscovery /\ QuietUsage
       \/ part = "discovery" /\ FirstSetting /\ QuietUsage
       \/ part = "usage" /\ QuietDiscovery /\ UsageInit

MCNext ==
    /\ part' = part
    /\ \/ /\ part = "events" /\ SseNext
          /\ UNCHANGED <<transport_vars, discovery_vars, usage_vars>>
       \/ /\ part = "transport" /\ TransportNext
          /\ UNCHANGED <<sse_vars, discovery_vars, usage_vars>>
       \/ /\ part = "discovery" /\ DiscoveryNext
          /\ UNCHANGED <<sse_vars, transport_vars, usage_vars>>
       \/ /\ part = "usage" /\ UsageNext
          /\ UNCHANGED <<sse_vars, transport_vars, discovery_vars>>

MCSpec == MCInit /\ [][MCNext]_<<part, sse_vars, transport_vars, discovery_vars, usage_vars>>
=============================================================================
