---------------------------- MODULE Translation ----------------------------
(***************************************************************************)
(* What the protocol kernel (proxy.mjs, as scripts/build-core.mjs patches  *)
(* it) makes of the lines of an upstream answer: a translator per protocol *)
(* for streams, a collector per protocol for buffered answers.             *)
(*                                                                         *)
(* A line is the kind of its event.  A text is empty or has visible        *)
(* characters, a count of output tokens is absent, zero or positive, and a *)
(* finish reason is "length" or any other ("stop").                        *)
(***************************************************************************)
EXTENDS Integers, Sequences

Lines == {"silent",         \* start, text-start, tool-input-delta, an unknown type, ...
          "empty", "text",  \* text-delta
          "reasoning",      \* reasoning-delta
          "tool",           \* tool-call
          "step",           \* finish-step with usage
          "finish", "finish_length", "finish_zero", "finish_bare",
          "error"}

Finishes == {"finish", "finish_length", "finish_zero", "finish_bare"}

UsageOf(e) == IF e \in {"finish", "finish_length", "step"} THEN "some"
              ELSE IF e = "finish_zero" THEN "zero" ELSE "none"

ReasonOf(e) == IF e = "finish_length" THEN "length" ELSE "stop"

\* The locals of a translator or collector; each protocol uses those it has.
Fresh == [output  |-> FALSE,     \* outputTokens > 0; when collecting, anything was collected
          usage   |-> "none",
          reason  |-> "none",    \* finishReason or stopReason
          error   |-> FALSE,     \* upstreamError is set
          finish  |-> FALSE,     \* finishReceived (Responses)
          created |-> FALSE,     \* createdSent (Responses)
          block   |-> "none",    \* the type of the open block or item
          index   |-> 0,         \* its index
          next    |-> 0]         \* the index the next one gets

\* A frame of the stream to the client.  full: a payload the gateway takes for output.
Frame(type)              == [type |-> type, index |-> 0, full |-> FALSE]
Content                  == [type |-> "content", index |-> 0, full |-> TRUE]
BlockFrame(type, i, yes) == [type |-> type, index |-> i, full |-> yes]

\* A step of a translator: its state, and the frames it emits.
Result(t, frames) == [t |-> t, frames |-> frames]
-----------------------------------------------------------------------------
(* Chat Completions. *)

ChatLine(t, e) ==
  CASE e \in {"text", "reasoning", "tool"} -> Result(t, <<Content>>)
    [] e = "step" ->
         Result([t EXCEPT !.reason = ReasonOf(e), !.usage = UsageOf(e), !.output = TRUE], <<>>)
    [] e \in Finishes ->
         LET reason == IF t.reason # "none" THEN t.reason ELSE ReasonOf(e)
             usage  == IF UsageOf(e) # "none" THEN UsageOf(e) ELSE t.usage
         IN  Result([t EXCEPT !.output = (usage = "some")],
                    <<Frame(IF reason = "length" THEN "finish_length" ELSE "finish")>>)
    [] e = "error" -> Result([t EXCEPT !.error = TRUE], <<>>)
    [] OTHER -> Result(t, <<>>)

\* The buffered answer: an event other than these is unknown there, finish-step too.
ChatCollect(t, e) ==
  CASE e \in {"text", "reasoning", "tool"} -> [t EXCEPT !.output = TRUE]
    [] e \in Finishes ->
         [t EXCEPT !.reason = ReasonOf(e),
                   !.usage = IF UsageOf(e) # "none" THEN UsageOf(e) ELSE @]
    [] e = "error" -> [t EXCEPT !.error = TRUE]
    [] OTHER -> t
-----------------------------------------------------------------------------
(* Anthropic Messages: thinking, text and tool_use blocks, one open at a time. *)

CloseBlock(t) ==
  Result([t EXCEPT !.block = "none"],
         CASE t.block = "none"     -> <<>>
           [] t.block = "thinking" -> <<BlockFrame("delta", t.index, FALSE), BlockFrame("stop", t.index, FALSE)>>
           [] OTHER                -> <<BlockFrame("stop", t.index, FALSE)>>)

\* Mutant: the block that is open is not closed.
StartBlockOver(t, type) ==
  IF t.block = type THEN Result(t, <<>>)
  ELSE Result([t EXCEPT !.block = type, !.index = t.next, !.next = t.next + 1],
              <<BlockFrame("start", t.next, FALSE)>>)

StartBlock(t, type) ==
  IF t.block = type THEN Result(t, <<>>)
  ELSE Result([t EXCEPT !.block = type, !.index = t.next, !.next = t.next + 1],
              Append(CloseBlock(t).frames, BlockFrame("start", t.next, FALSE)))

MessagesDelta(t, type, full) ==
  LET r == StartBlock(t, type)
  IN  Result(r.t, Append(r.frames, BlockFrame("delta", r.t.index, full)))

MessagesTool(t) ==
  Result([CloseBlock(t).t EXCEPT !.next = @ + 1, !.output = TRUE],
         CloseBlock(t).frames \o <<BlockFrame("start", t.next, TRUE),
                                   BlockFrame("delta", t.next, TRUE),
                                   BlockFrame("stop", t.next, FALSE)>>)

MessagesLine(t, e) ==
  CASE e \in {"text", "empty"} -> MessagesDelta([t EXCEPT !.output = TRUE], "text", e = "text")
    [] e = "reasoning"         -> MessagesDelta(t, "thinking", TRUE)
    [] e = "tool"              -> MessagesTool(t)
    [] e \in Finishes \cup {"step"} ->
         Result([t EXCEPT !.reason = ReasonOf(e),
                          !.output = IF UsageOf(e) = "none" THEN @ ELSE UsageOf(e) = "some"], <<>>)
    [] e = "error"             -> Result([t EXCEPT !.error = TRUE], <<Frame("error")>>)
    [] OTHER                   -> Result(t, <<>>)

\* What the generator yields at the end of the upstream answer.
MessagesFinal(t) ==
  IF t.error THEN <<>>
  ELSE CloseBlock(t).frames \o
       (IF ~t.output THEN <<Frame("error")>>
        ELSE <<Frame(IF t.reason = "length" THEN "finish_length" ELSE "finish"), Frame("message_stop")>>)

MessagesCollect(t, e) ==
  CASE e \in {"text", "reasoning", "tool"} -> [t EXCEPT !.output = TRUE]
    [] e \in Finishes ->
         [t EXCEPT !.reason = ReasonOf(e),
                   !.usage = IF UsageOf(e) # "none" THEN UsageOf(e) ELSE @]
    [] e = "error" -> [t EXCEPT !.error = TRUE]
    [] OTHER -> t
-----------------------------------------------------------------------------
(* Responses: response.created first, then items, one open at a time. *)

StartResponse(t) == IF t.created THEN <<>> ELSE <<Frame("begin")>>

CloseItem(t) == IF t.block = "none" THEN <<>> ELSE <<BlockFrame("stop", t.index, TRUE)>>

OpenItem(t, kind) ==
  Result([t EXCEPT !.created = TRUE, !.block = kind, !.index = t.next, !.next = t.next + 1],
         StartResponse(t) \o CloseItem(t) \o <<BlockFrame("start", t.next, kind = "tool")>>)

ResponsesDelta(t, kind) ==
  LET r == IF t.block = kind /\ kind # "tool" THEN Result(t, <<>>) ELSE OpenItem(t, kind)
  IN  Result(r.t, Append(r.frames, BlockFrame("delta", r.t.index, TRUE)))

ResponsesLine(t, e) ==
  CASE e = "text"        -> ResponsesDelta(t, "text")
    [] e = "reasoning"   -> ResponsesDelta(t, "thinking")
    [] e = "tool"        -> ResponsesDelta(t, "tool")
    [] e \in Finishes    ->
         Result([t EXCEPT !.finish = TRUE, !.reason = ReasonOf(e),
                          !.output = IF UsageOf(e) = "none" THEN @ ELSE UsageOf(e) = "some"], <<>>)
    [] e = "error"       -> Result([t EXCEPT !.error = TRUE], <<>>)
    [] OTHER             -> Result(t, <<>>)

\* fail(): nothing before response.created.
ResponsesFail(t) == IF t.created THEN <<Frame("failed")>> ELSE <<>>

\* Mutant: finish() without the patch that wants an upstream finish event.
ResponsesFinishUnpatched(t) ==
  IF ~t.created THEN <<>>
  ELSE Append(CloseItem(t), Frame(IF t.reason = "length" THEN "incomplete" ELSE "completed"))

\* finish()
ResponsesFinish(t) ==
  IF ~t.created THEN <<>>
  ELSE IF ~t.finish THEN ResponsesFail(t)
  ELSE Append(CloseItem(t), Frame(IF t.reason = "length" THEN "incomplete" ELSE "completed"))

ResponsesCollect(t, e) ==
  CASE e \in {"text", "reasoning", "tool"} -> [t EXCEPT !.output = TRUE]
    [] e \in Finishes ->
         [t EXCEPT !.finish = TRUE, !.reason = ReasonOf(e),
                   !.usage = IF UsageOf(e) # "none" THEN UsageOf(e) ELSE @]
    [] e = "error" -> [t EXCEPT !.error = TRUE]
    [] OTHER -> t
=============================================================================
