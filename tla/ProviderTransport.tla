------------------------- MODULE ProviderTransport --------------------------
(***************************************************************************)
(* The HTTP Providers (provider_http.rs): how a Provider is chosen for a   *)
(* Profile and dialect, one streaming exchange from the credential to the  *)
(* normalized events, and the Tool continuation a response leaves pending. *)
(* The server is the environment: it answers any status, sends any event   *)
(* of the dialect, stalls or breaks off at any point.                      *)
(***************************************************************************)
EXTENDS Naturals, Sequences, FiniteSets

CONSTANTS OutputIndexes, ContentIndexes, MaxOutputItems, MaxContentParts, \* see the decoders
          MaxOutput, MaxArguments, ArgumentUnits, MaxU64, MaxEvents,
          MaxExchanges, \* bound: requests sent to the server
          StreamEvents  \* bound: events of one stream

ASSUME TransportAssumption ==
    /\ {MaxOutput, MaxArguments, ArgumentUnits, MaxU64, MaxEvents, MaxExchanges, StreamEvents} \subseteq Nat
    /\ {MaxOutputItems, MaxContentParts} \subseteq Nat
    /\ OutputIndexes \subseteq Nat /\ ContentIndexes \subseteq Nat

VARIABLES provider,  \* the ConfiguredProvider, or NoProvider
          exchange,  \* the request in flight
          outcome,   \* what the last run or continuation returned
          last_run,  \* history: the Tool calls of the last run that returned events
          exchanges  \* history: requests sent

transport_vars == <<provider, exchange, outcome, last_run, exchanges>>

Responses == INSTANCE ResponsesDecoder
Chat == INSTANCE ChatCompletionsDecoder
Messages == INSTANCE MessagesDecoder

Dialects == {"responses", "chat_completions", "messages"}
Templates == {"openai", "deepseek", "opencode-go", "custom"}
RequestModels == {"verified", "other"} \* "verified": the model the release catalog lists for the dialect

NoProvider == [dialect |-> "none"]
NoExchange == [phase |-> "idle"]
NoOutcome == [error |-> "none", events |-> <<>>, processed |-> 0, dialect |-> "none"]

(* responses_adapter, chat_completions_adapter and messages_adapter. *)
has_provider_adapter(template, dialect) ==
    template \in (IF dialect = "messages" THEN {"deepseek", "opencode-go"}
                  ELSE {"openai", "deepseek", "opencode-go"})

require_verified_model_dialect(template, model) == template = "opencode-go" => model = "verified"

(* A DeepSeek preference for Responses falls back to Chat Completions when *)
(* the catalog does not list the model for Responses.                      *)
resolve_preferred_dialect(profile, model, preferred) ==
    IF profile.template # "deepseek" \/ preferred # "responses" THEN preferred
    ELSE IF model = "verified" /\ "responses" \in profile.dialects THEN "responses"
    ELSE IF "chat_completions" \in profile.dialects THEN "chat_completions" ELSE "none"

(* Every condition of with_client_builder; the credential is resolved once *)
(* to see that it is there and again for every request.                    *)
with_client_builder(profile, dialect, credential) ==
    /\ has_provider_adapter(profile.template, dialect)
    /\ dialect \in profile.dialects
    /\ profile.endpoint \* endpoint(dialect) is set and validate_provider_endpoint accepts it
    /\ credential = "bound"

EndpointProfiles == [template : Templates, dialects : SUBSET Dialects, endpoint : BOOLEAN]

for_new_turn_with_preferred_dialect(profile, model, preferred, credential) ==
    LET dialect == resolve_preferred_dialect(profile, model, preferred)
    IN  IF /\ dialect # "none"
           /\ require_verified_model_dialect(profile.template, model)
           /\ with_client_builder(profile, dialect, credential)
        THEN [dialect |-> dialect, template |-> profile.template, model |-> model,
              local_echo_enabled |-> FALSE, pending |-> <<>>]
        ELSE NoProvider

(* require_*_request_policy: what each adapter refuses of a request. *)
require_request_policy(p, request) ==
    CASE p.template = "openai" -> TRUE
      [] p.template = "opencode-go" -> /\ ~request.effort /\ ~request.tier
                                       /\ p.dialect = "responses" => p.model = "verified"
      [] p.dialect = "responses" -> p.model = "verified" /\ ~request.tier /\ ~request.over_limit
      [] p.dialect = "chat_completions" -> ~request.effort /\ ~request.tier /\ ~request.over_limit
      [] OTHER -> ~request.effort /\ ~request.tier

(* require_request_identity: the request carries the frozen Profile and    *)
(* dialect of this Provider.                                               *)
require_request_identity(p, request) == request.same_epoch

Answer(error) == [error |-> error, events |-> <<>>, processed |-> 0, dialect |-> provider.dialect]

NewDecoder(dialect) ==
    CASE dialect = "responses" -> Responses!Start
      [] dialect = "chat_completions" -> Chat!Start
      [] dialect = "messages" -> Messages!Start

Plain == [same_epoch |-> TRUE, effort |-> FALSE, tier |-> FALSE, over_limit |-> FALSE]
Requests == {Plain} \cup {[Plain EXCEPT ![f] = ~@] : f \in DOMAIN Plain}

TransportInit ==
    /\ provider = NoProvider /\ exchange = NoExchange /\ outcome = NoOutcome
    /\ last_run = {} /\ exchanges = 0

Configure ==
    /\ provider = NoProvider
    /\ \E profile \in EndpointProfiles, model \in RequestModels, preferred \in Dialects, credential \in {"bound", "missing"},
          echo \in BOOLEAN :
          LET p == for_new_turn_with_preferred_dialect(profile, model, preferred, credential)
          IN  /\ p # NoProvider
              /\ provider' = [p EXCEPT !.local_echo_enabled = echo] \* enable_local_echo
    /\ UNCHANGED <<exchange, outcome, last_run, exchanges>>

(* Fault: an earlier response's continuation survives the next run. *)
Run_Kept(request) ==
    /\ provider # NoProvider /\ exchange = NoExchange /\ exchanges < MaxExchanges
    /\ LET ok == require_request_identity(provider, request) /\ require_request_policy(provider, request)
       IN  /\ exchange' = IF ok THEN [phase |-> "sending", initial |-> TRUE, call |-> <<>>] ELSE exchange
           /\ last_run' = IF ok THEN {} ELSE last_run
    /\ exchanges' = exchanges + 1
    /\ outcome' = NoOutcome
    /\ UNCHANGED provider

(* run: the pending continuation of an earlier response is dropped before  *)
(* the request is built; the Chat adapter checks its policy only then.     *)
Run(request) ==
    /\ provider # NoProvider /\ exchange = NoExchange /\ exchanges < MaxExchanges
    /\ LET identity == require_request_identity(provider, request)
           policy == require_request_policy(provider, request)
           dropped == identity /\ (policy \/ provider.dialect = "chat_completions")
       IN  /\ provider' = IF dropped THEN [provider EXCEPT !.pending = <<>>] ELSE provider
           /\ IF identity /\ policy
              THEN /\ exchange' = [phase |-> "sending", initial |-> TRUE, call |-> <<>>]
                   /\ outcome' = NoOutcome
              ELSE /\ outcome' = Answer(IF identity THEN "InvalidRequest" ELSE "InvalidConfiguration")
                   /\ UNCHANGED exchange
           /\ last_run' = IF dropped THEN {} ELSE last_run
    /\ exchanges' = exchanges + 1

(* continue_after_tool: the pending continuation is consumed when the call *)
(* it answers is the pending one, before the request is sent.              *)
ContinueAfterTool(request, call) ==
    /\ provider # NoProvider /\ exchange = NoExchange /\ exchanges < MaxExchanges
    /\ exchanges' = exchanges + 1
    /\ IF ~require_request_identity(provider, request)
       THEN outcome' = Answer("InvalidConfiguration") /\ UNCHANGED <<provider, exchange>>
       ELSE IF \/ ~provider.local_echo_enabled
               \/ ~require_request_policy(provider, request)
               \/ provider.pending # <<call>>
       THEN outcome' = Answer("InvalidRequest") /\ UNCHANGED <<provider, exchange>>
       ELSE /\ provider' = [provider EXCEPT !.pending = <<>>]
            /\ exchange' = [phase |-> "sending", initial |-> FALSE, call |-> <<call>>]
            /\ outcome' = NoOutcome
    /\ UNCHANGED last_run

Fail(error) ==
    /\ outcome' = [Answer(error) EXCEPT !.processed =
                      IF exchange.phase = "reading" THEN exchange.decoder.processed ELSE 0]
    /\ exchange' = NoExchange
    /\ UNCHANGED <<provider, last_run, exchanges>>

(* map_credential_resolve_error, the request's byte limit, send, and       *)
(* classify_http_status.                                                   *)
SendError(answer) ==
    CASE answer \in {"credential_missing", "unauthorized"} -> "InvalidConfiguration"
      [] answer \in {"vault_unavailable", "send_failed", "timeout_or_busy", "server_error"} -> "BeforeResponse"
      [] answer \in {"body_too_large", "client_error"} -> "InvalidRequest"
      [] answer \in {"redirection", "other_status", "wrong_content_type"} -> "InvalidResponse"

SendFails ==
    /\ exchange.phase = "sending"
    /\ \E answer \in {"credential_missing", "unauthorized", "vault_unavailable", "send_failed",
                      "timeout_or_busy", "server_error", "body_too_large", "client_error",
                      "redirection", "other_status", "wrong_content_type"} : Fail(SendError(answer))

SendSucceeds ==
    /\ exchange.phase = "sending"
    /\ exchange' = [phase |-> "reading", initial |-> exchange.initial, call |-> exchange.call,
                    decoder |-> NewDecoder(provider.dialect)]
    /\ UNCHANGED <<provider, outcome, last_run, exchanges>>

Wire == CASE provider.dialect = "responses" -> Responses!Wire
          [] provider.dialect = "chat_completions" -> Chat!Wire
          [] provider.dialect = "messages" -> Messages!Wire

Decode(d, e) == CASE provider.dialect = "responses" -> Responses!process_framed_event(d, e)
                  [] provider.dialect = "chat_completions" -> Chat!process_framed_event(d, e)
                  [] provider.dialect = "messages" -> Messages!process_framed_event(d, e)

(* One event of the stream: accepted, or the stream is rejected. *)
Read(e) ==
    /\ exchange.phase = "reading" /\ exchange.decoder.processed < StreamEvents
    /\ LET next == Decode(exchange.decoder, e)
       IN  IF next.poisoned THEN Fail("InvalidResponse")
           ELSE /\ exchange' = [exchange EXCEPT !.decoder = next]
                /\ UNCHANGED <<provider, outcome, last_run, exchanges>>

(* Fault: the first event is not counted. *)
provider_stream_stage_OffByOne(d) == IF d.processed > 1 THEN "AfterFirstEvent" ELSE "BeforeFirstEvent"

provider_stream_stage(d) == IF d.processed # 0 THEN "AfterFirstEvent" ELSE "BeforeFirstEvent"

ReadFails ==
    /\ exchange.phase = "reading"
    /\ Fail(provider_stream_stage(exchange.decoder))

Normalize(d) ==
    CASE provider.dialect = "responses" ->
            IF d.events = <<>> \/ d.events[1].kind # "Created"
            THEN [error |-> "InvalidResponse", events |-> <<>>] ELSE Responses!normalize(d.events)
      [] provider.dialect = "chat_completions" -> Chat!normalize(d.events)
      [] provider.dialect = "messages" -> Messages!normalize(d.events)

Calls(events) == {i \in DOMAIN events : events[i] = "call"}

(* normalize_local_echo_calls, single_initial_tool_call (Messages) and     *)
(* reject_continuation_tool_calls.                                         *)
ToolCallsAccepted(events, known_tool) ==
    IF exchange.initial
    THEN /\ (provider.local_echo_enabled /\ Calls(events) # {}) => known_tool
         /\ provider.dialect = "messages" => Cardinality(Calls(events)) <= 1
    ELSE Calls(events) = {}

(* The end of the stream: inside an event (partial), before the terminal   *)
(* event, or after it; then the facts are normalized, and a response with  *)
(* exactly one Tool call leaves it pending.                                *)
EndOfStream(partial, known_tool) ==
    /\ exchange.phase = "reading"
    /\ LET d == exchange.decoder
           n == Normalize(d)
           call == <<exchanges>> \* the identity of the call: the run that returned it
           single == exchange.initial /\ Cardinality(Calls(n.events)) = 1
       IN  IF partial \/ ~d.terminal THEN Fail(provider_stream_stage(d))
           ELSE IF n.error # "none" THEN Fail(n.error)
           ELSE IF ~ToolCallsAccepted(n.events, known_tool) THEN Fail("InvalidResponse")
           ELSE /\ outcome' = [error |-> "none", events |-> n.events, processed |-> d.processed,
                               dialect |-> provider.dialect]
                /\ exchange' = NoExchange
                /\ provider' = IF single THEN [provider EXCEPT !.pending = call] ELSE provider
                /\ last_run' = IF single THEN {exchanges} ELSE last_run
                /\ UNCHANGED exchanges

TransportNext ==
    \/ Configure
    \/ \E request \in Requests : Run(request)
    \/ \E request \in Requests, call \in 1..MaxExchanges : ContinueAfterTool(request, call)
    \/ SendFails
    \/ SendSucceeds
    \/ exchange.phase = "reading" /\ \E e \in Wire : Read(e)
    \/ ReadFails
    \/ \E partial \in BOOLEAN, known_tool \in BOOLEAN : EndOfStream(partial, known_tool)

-----------------------------------------------------------------------------
Retryable == {"BeforeResponse", "BeforeFirstEvent"}

(* A failure the Kernel may retry or move to a fallback Provider           *)
(* (BeforeResponse or BeforeFirstEvent) is reported only when not one      *)
(* event of the response had been decoded; for the Responses and Messages  *)
(* dialects.                                                               *)
RetryableMeansNoProgress ==
    outcome.error \in Retryable /\ outcome.dialect # "chat_completions" => outcome.processed = 0

(* The same for every dialect, as docs/runtime-kernel.md states it.        *)
EarlyFailureHasNoEvents == outcome.error \in Retryable => outcome.processed = 0

(* What a decoder hands on as completed is the whole response, for every   *)
(* order of events a server may send.                                      *)
CompletedStreamIsWhole ==
    exchange.phase = "reading" =>
        CASE provider.dialect = "responses" -> Responses!CompletedIsWhole(exchange.decoder)
          [] provider.dialect = "chat_completions" -> Chat!CompletedIsWhole(exchange.decoder)
          [] provider.dialect = "messages" -> Messages!CompletedIsWhole(exchange.decoder)

(* A Tool output is sent only to answer the single call of the response to *)
(* the latest run, and at most once: a failed or later run in between      *)
(* leaves nothing to continue.                                             *)
ContinuationAnswersLastRun ==
    exchange.phase \in {"sending", "reading"} /\ ~exchange.initial =>
        /\ {exchange.call[1]} = last_run
        /\ provider.pending = <<>>
=============================================================================
