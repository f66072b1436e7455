-------------------------------- MODULE Http --------------------------------
(***************************************************************************)
(* One request to an HTTP provider (rozu-providers): the attempts of       *)
(* send_with_retry and then the server-sent events of the answer, decoded  *)
(* as Anthropic's Messages API or OpenAI's Responses API (also xAI's).     *)
(*                                                                         *)
(* The server, external, counts its answer in pieces: text, and for each   *)
(* call its arguments, which come in deltas, with the call's start, or     *)
(* only with its end (OpenAI).  Piece k of a call is <<c, k>>, and <<c,    *)
(* 0>> is all of them at once.  Calls of OpenAI may be interleaved.  Time  *)
(* is counted in steps of base_delay / 2.                                  *)
(* Left out: bodies of requests and errors, pings and unknown events (the  *)
(* decoders ignore them), the prices of models.                            *)
(***************************************************************************)
EXTENDS Naturals, Sequences, FiniteSets, SequencesExt, FiniteSetsExt

CONSTANTS
  Calls,      \* calls the answer may make
  MaxPieces,  \* bound: deltas of a call
  MaxRetries, \* RetryPolicy::max_retries
  MaxDelay    \* RetryPolicy::max_delay

VARIABLES
  api,      \* "anthropic" or "openai"
  phase,    \* "sending", "waiting", "streaming", "ended"
  attempt,  \* of send_with_retry
  delay,    \* until the next attempt
  requests, \* of this send_with_retry
  last,     \* the last one: its answer, Retry-After and the wait since
  token,    \* the turn's token
  sent,     \* by the server, of each call: "none", "open", "finished" (OpenAI: its arguments), "closed"
  how,      \* of each call: "deltas", "start", "end"
  pieces,   \* of each call: the pieces sent
  tokens,   \* tokens the server has counted, and has told
  complete, \* the server has sent its answer's end
  known,    \* tool_blocks / calls: of each call the decoder knows [delta, ended]
  sawCall, usage, reason, \* saw_tool_use / saw_tool_call; RawUsage's output; stop_reason
  out       \* what the stream gave

server == <<sent, how, pieces, tokens, complete>>
decoder == <<known, sawCall, usage, reason>>
sending == <<phase, attempt, delay, requests, last>>
vars == <<api, sending, token, server, decoder, out>>

Init ==
  /\ api \in {"anthropic", "openai"}
  /\ phase = "sending" /\ attempt = 0 /\ delay = 0 /\ token = FALSE
  /\ requests = 0 /\ last = [answer |-> "none", asked |-> 0, waited |-> 0]
  /\ sent = [c \in Calls |-> "none"] /\ how = [c \in Calls |-> "deltas"]
  /\ pieces = [c \in Calls |-> 0] /\ tokens = 0 /\ complete = FALSE
  /\ known = [c \in {} |-> {}] /\ sawCall = FALSE /\ usage = 0 /\ reason = "none"
  /\ out = <<>>

-----------------------------------------------------------------------------
(* send_with_retry.                                                        *)
Least(a, b) == IF a < b THEN a ELSE b
(* RetryPolicy::backoff: half of the delay, and up to half of jitter.      *)
Backoff ==
  LET exp == Least(2 * 2 ^ attempt, MaxDelay) IN {d \in 0 .. MaxDelay : exp \div 2 <= d /\ d <= exp}
(* Variant: what the server asks for is waited for in full.                *)
RetryAfterUncapped(asked) == asked
(* RetryPolicy::retry_after.                                               *)
RetryAfter(asked) == Least(asked, MaxDelay)

(* Variant: as many attempts as retries, and one more.                     *)
GivesUpLate == attempt > MaxRetries
GivesUp == attempt >= MaxRetries

Fails(e) == phase' = "ended" /\ out' = <<<<"error", e>>>> /\ UNCHANGED <<attempt, delay>>
Retry(delays) ==
  /\ phase' = "waiting" /\ attempt' = attempt + 1 /\ delay' \in delays /\ UNCHANGED out

Asked(answer, asked) ==
  requests' = requests + 1 /\ last' = [answer |-> answer, asked |-> asked, waited |-> 0]

Succeeds ==
  /\ phase = "sending" /\ ~token
  /\ phase' = "streaming" /\ attempt' = 0 /\ requests' = 0
  /\ last' = [last EXCEPT !.answer = "ok", !.waited = 0, !.asked = 0]
  /\ UNCHANGED <<api, delay, token, server, decoder, out>>

(* 429 and 5xx, with a Retry-After (asked) or without (0).                 *)
Busy ==
  /\ phase = "sending" /\ ~token
  /\ \E asked \in {0, 1, MaxDelay + 1} :
       /\ Asked("busy", asked)
       /\ IF GivesUp THEN Fails("status")
          ELSE Retry(IF asked > 0 THEN {RetryAfter(asked)} ELSE Backoff)
  /\ UNCHANGED <<api, token, server, decoder>>

Refused ==
  /\ phase = "sending" /\ ~token /\ Asked("refused", 0) /\ Fails("status")
  /\ UNCHANGED <<api, token, server, decoder>>

(* No connection, or no answer in time; and every other failure.           *)
Unreachable ==
  /\ phase = "sending" /\ ~token
  /\ \/ Asked("unreachable", 0) /\ (IF GivesUp THEN Fails("network") ELSE Retry(Backoff))
     \/ Asked("broken", 0) /\ Fails("network")
  /\ UNCHANGED <<api, token, server, decoder>>

Wait ==
  /\ phase = "waiting" /\ ~token
  /\ IF delay > 0
     THEN /\ delay' = delay - 1 /\ UNCHANGED phase
          /\ last' = [last EXCEPT !.waited = @ + 1]
     ELSE phase' = "sending" /\ UNCHANGED <<delay, last>>
  /\ UNCHANGED <<api, attempt, requests, token, server, decoder, out>>

(* Both selects are biased to the token; a stream just ends.               *)
Cancelled ==
  /\ token /\ phase # "ended" /\ phase' = "ended"
  /\ out' = IF phase = "streaming" THEN out ELSE <<<<"error", "cancelled">>>>
  /\ UNCHANGED <<api, attempt, delay, requests, last, token, server, decoder>>

Cancel ==
  /\ ~token /\ phase # "ended" /\ token' = TRUE
  /\ UNCHANGED <<api, sending, server, decoder, out>>

-----------------------------------------------------------------------------
(* The decoders.                                                           *)
Yield(events) == out' = out \o events
Know(c, delta) ==
  known' = [d \in DOMAIN known \cup {c} |-> IF d = c THEN [delta |-> delta, ended |-> FALSE] ELSE known[d]]
All(c) == <<c, 0>>

(* content_block_start; output_item.added.                                 *)
DecodeStart(c) ==
  /\ Know(c, how[c]' = "start") /\ sawCall' = TRUE
  /\ Yield(<<<<"start", c>>>> \o (IF how[c]' = "start" THEN <<<<"args", All(c)>>>> ELSE <<>>))
  /\ UNCHANGED <<usage, reason>>

(* input_json_delta; function_call_arguments.delta.                        *)
DecodeDelta(c) ==
  /\ IF c \in DOMAIN known
     THEN known' = [known EXCEPT ![c].delta = TRUE] /\ Yield(<<<<"args", <<c, pieces[c]'>>>>>>)
     ELSE UNCHANGED <<known, out>>
  /\ UNCHANGED <<sawCall, usage, reason>>

(* Variant: a call whose arguments came in deltas is given them again.     *)
EndCallWhole(c) ==
  IF c \notin DOMAIN known \/ known[c].ended THEN UNCHANGED <<known, out>>
  ELSE known' = [known EXCEPT ![c].ended = TRUE] /\ Yield(<<<<"args", All(c)>>, <<"end", c>>>>)
(* end_call, for function_call_arguments.done and output_item.done.        *)
EndCall(c) ==
  IF c \notin DOMAIN known \/ known[c].ended THEN UNCHANGED <<known, out>>
  ELSE /\ known' = [known EXCEPT ![c].ended = TRUE]
       /\ Yield((IF known[c].delta THEN <<>> ELSE <<<<"args", All(c)>>>>) \o <<<<"end", c>>>>)

(* content_block_stop.                                                     *)
StopBlock(c) ==
  IF c \notin DOMAIN known THEN UNCHANGED <<known, out>>
  ELSE known' = Restrict(known, DOMAIN known \ {c}) /\ Yield(<<<<"end", c>>>>)

(* Variant: what each event tells is added up.                             *)
UpdateUsageAdding(told) == usage' = usage + told
(* RawUsage::update: cumulative counts replace the earlier ones.           *)
UpdateUsage(told) == usage' = told

(* message_stop; response.completed and response.incomplete.  OpenAI tells *)
(* the usage only here, and a reason only of an incomplete response.       *)
DecodeEnd(cut, told) ==
  LET total == IF api = "anthropic" THEN usage ELSE told
      stop == IF api = "openai" THEN (IF cut THEN "cut" ELSE "none") ELSE reason
      why == IF stop # "none" THEN stop ELSE IF sawCall THEN "tool_use" ELSE "end_turn"
  IN /\ Yield(<<<<"usage", total>>, <<"done", why>>>>) /\ phase' = "ended"
     /\ UNCHANGED decoder

-----------------------------------------------------------------------------
(* The server's events.                                                    *)
Streaming == phase = "streaming" /\ ~token
Stays == UNCHANGED <<api, phase, attempt, delay, requests, last, token>>
OpenCalls == {c \in Calls : sent[c] \in {"open", "finished"}}

SendText ==
  /\ Streaming /\ ~complete /\ tokens = 0 /\ tokens' = 1
  /\ IF api = "anthropic" THEN UpdateUsage(1) ELSE UNCHANGED usage
  /\ Yield(<<<<"text">>>>) /\ UNCHANGED <<sent, how, pieces, complete, known, sawCall, reason>> /\ Stays

StartCall(c) ==
  /\ Streaming /\ ~complete /\ sent[c] = "none" /\ (api = "anthropic" => OpenCalls = {})
  /\ sent' = [sent EXCEPT ![c] = "open"]
  /\ \E h \in {"deltas", "start", "end"} \ (IF api = "anthropic" THEN {"end"} ELSE {}) :
       how' = [how EXCEPT ![c] = h]
  /\ DecodeStart(c) /\ UNCHANGED <<pieces, tokens, complete>> /\ Stays

SendDelta(c) ==
  /\ Streaming /\ sent[c] = "open" /\ how[c] = "deltas" /\ pieces[c] < MaxPieces
  /\ pieces' = [pieces EXCEPT ![c] = @ + 1]
  /\ DecodeDelta(c) /\ UNCHANGED <<sent, how, tokens, complete>> /\ Stays

FinishArgs(c) ==
  /\ Streaming /\ api = "openai" /\ sent[c] = "open" /\ (how[c] = "deltas" => pieces[c] > 0)
  /\ sent' = [sent EXCEPT ![c] = "finished"]
  /\ EndCall(c) /\ UNCHANGED <<how, pieces, tokens, complete, sawCall, usage, reason>> /\ Stays

CloseCall(c) ==
  /\ Streaming /\ c \in OpenCalls /\ (how[c] = "deltas" => pieces[c] > 0)
  /\ sent' = [sent EXCEPT ![c] = "closed"]
  /\ IF api = "openai" THEN EndCall(c) ELSE StopBlock(c)
  /\ UNCHANGED <<how, pieces, tokens, complete, sawCall, usage, reason>> /\ Stays

(* message_delta, with the output so far and why the answer ends.          *)
SendReason ==
  /\ Streaming /\ api = "anthropic" /\ OpenCalls = {} /\ reason = "none" /\ ~complete
  /\ tokens' = tokens + 1 /\ UpdateUsage(tokens')
  /\ reason' \in {"cut", IF sawCall THEN "tool_use" ELSE "end_turn"}
  /\ complete' = TRUE
  /\ UNCHANGED <<sent, how, pieces, known, sawCall, out>> /\ Stays

SendEnd ==
  /\ Streaming /\ OpenCalls = {} /\ (api = "anthropic" => complete)
  /\ tokens' = IF api = "openai" THEN tokens + 1 ELSE tokens
  /\ complete' = TRUE
  /\ \E cut \in BOOLEAN : DecodeEnd(cut, tokens')
  /\ UNCHANGED <<api, attempt, delay, requests, last, token, sent, how, pieces>>

(* The connection ends or fails, the answer reports an error, or an event  *)
(* cannot be read.                                                         *)
Cut ==
  /\ Streaming /\ phase' = "ended"
  /\ \E e \in {"eof", "network", "api", "decode"} : Yield(<<<<"error", e>>>>)
  /\ UNCHANGED <<api, attempt, delay, requests, last, token, server, decoder>>

Next ==
  \/ Succeeds \/ Busy \/ Refused \/ Unreachable \/ Wait \/ Cancelled \/ Cancel
  \/ \E c \in Calls : StartCall(c) \/ SendDelta(c) \/ FinishArgs(c) \/ CloseCall(c)
  \/ SendText \/ SendReason \/ SendEnd \/ Cut

Spec == Init /\ [][Next]_vars

-----------------------------------------------------------------------------
Done == out # <<>> /\ Last(out)[1] = "done"

(* What the stream may say of a call, and what it has to say of it so far. *)
Of(c) == {<<"start", c>>, <<"end", c>>} \cup {<<"args", <<c, k>>>> : k \in 0 .. MaxPieces}
Args(c) ==
  IF how[c] = "deltas" THEN [k \in 1 .. pieces[c] |-> <<"args", <<c, k>>>>]
  ELSE IF how[c] = "end" /\ sent[c] = "open" THEN <<>> ELSE <<<<"args", All(c)>>>>
Told(c) ==
  IF sent[c] = "none" THEN <<>>
  ELSE <<<<"start", c>>>> \o Args(c) \o (IF sent[c] = "open" THEN <<>> ELSE <<<<"end", c>>>>)

(* t is what s has of M: no more, no less, and in this order.              *)
Places(s, M, j) == {k \in 1 .. j : s[k] \in M}
Chosen(s, M, j) == Cardinality(Places(s, M, j))
Selects(s, M, t) ==
  /\ Len(t) = Chosen(s, M, Len(s))
  /\ \A j \in DOMAIN s : s[j] \in M => s[j] = t[Chosen(s, M, j)]

(* Of each call the stream gives what the server has told of it, once and  *)
(* in its order: its arguments between its start and its end, however they *)
(* were sent.  A stream that ends with Done has given every call whole; it *)
(* says that calls are to be run exactly if some are (or that the answer   *)
(* was cut), and its usage is what the server counted.                     *)
Given == \A c \in Calls : Selects(out, Of(c), Told(c))
EndsWell ==
  /\ \A c \in Calls : sent[c] \in {"none", "closed"}
  /\ \/ Last(out)[2] = "cut"
     \/ (Last(out)[2] = "tool_use") = (\E c \in Calls : sent[c] = "closed")
  /\ out[Len(out) - 1] = <<"usage", tokens>>
  /\ complete
AnswerWhole == Given /\ (Done => EndsWell)

(* The server is asked at most max_retries + 1 times, again only after it  *)
(* was busy or not there, and never sooner than it asked for, nor later    *)
(* than max_delay.                                                         *)
RetriesAreBounded ==
  /\ requests <= MaxRetries + 1
  /\ phase = "sending" /\ requests > 0 =>
       /\ last.answer \in {"busy", "unreachable"}
       /\ last.waited >= Least(last.asked, MaxDelay)
  /\ last.waited <= MaxDelay

(* One answer: whole, and from a bounded number of requests.               *)
AnswerOnce == AnswerWhole /\ RetriesAreBounded
-----------------------------------------------------------------------------
(* Why it is.  The types, with no answer before a request succeeded.       *)
HttpTypes ==
  /\ api \in {"anthropic", "openai"}
  /\ phase \in {"sending", "waiting", "streaming", "ended"}
  /\ attempt \in Nat /\ delay \in Nat /\ requests \in Nat /\ tokens \in Nat
  /\ last \in [answer : {"none", "ok", "busy", "refused", "unreachable", "broken"}, asked : Nat, waited : Nat]
  /\ sent \in [Calls -> {"none", "open", "finished", "closed"}]
  /\ how \in [Calls -> {"deltas", "start", "end"}] /\ pieces \in [Calls -> 0 .. MaxPieces]
  /\ sawCall \in BOOLEAN /\ complete \in BOOLEAN
  /\ reason \in {"none", "cut", "tool_use", "end_turn"}
  /\ \A c \in DOMAIN known : known[c] \in [delta : BOOLEAN, ended : BOOLEAN]
  /\ out \in Seq({out[j] : j \in DOMAIN out})
  /\ phase \in {"sending", "waiting"} => out = <<>>

(* Attempts are counted, and a wait under way is as long as it should be.  *)
Attempts ==
  /\ phase = "streaming" => requests = 0
  /\ phase \in {"sending", "waiting"} =>
       /\ requests = attempt /\ attempt <= MaxRetries
       /\ requests > 0 => last.answer \in {"busy", "unreachable"}
       /\ phase = "waiting" => requests > 0
  /\ phase \in {"sending", "waiting"} /\ requests > 0 =>
       LET wait == last.waited + (IF phase = "waiting" THEN delay ELSE 0)
       IN Least(last.asked, MaxDelay) <= wait /\ wait <= MaxDelay
  /\ requests <= MaxRetries + 1 /\ last.waited <= MaxDelay

(* What the decoder knows of a call the server began.                      *)
Knows(c) ==
  /\ sent[c] = "none" => c \notin DOMAIN known
  /\ sent[c] = "open" =>
       /\ c \in DOMAIN known /\ ~known[c].ended
       /\ known[c].delta = (how[c] = "start" \/ pieces[c] > 0)
  /\ sent[c] \in {"finished", "closed"} =>
       IF api = "openai" THEN c \in DOMAIN known /\ known[c].ended ELSE c \notin DOMAIN known
  /\ sent[c] = "finished" => api = "openai"
  /\ pieces[c] > 0 => how[c] = "deltas" /\ sent[c] # "none"
  /\ how[c] = "end" => api = "openai"

(* What it knows of the answer, and until when.                            *)
Counts ==
  /\ sawCall = (\E c \in Calls : sent[c] # "none")
  /\ IF api = "anthropic"
     THEN /\ usage = tokens /\ complete = (reason # "none")
          /\ complete => OpenCalls = {} /\ reason \in {"cut", IF sawCall THEN "tool_use" ELSE "end_turn"}
     ELSE reason = "none"
  /\ Done => phase = "ended"

HttpKept == HttpTypes /\ Attempts /\ (\A c \in Calls : Knows(c)) /\ Counts /\ AnswerWhole
=============================================================================
