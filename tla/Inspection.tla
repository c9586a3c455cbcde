----------------------------- MODULE Inspection -----------------------------
(***************************************************************************)
(* What the gateway (ResponseInspection and the end of handleGateway) makes *)
(* of the frames, or of the one JSON body, that the kernel sends it.       *)
(***************************************************************************)
EXTENDS Translation, SequencesExt

\* ResponseInspection, and for a property whether the frames follow the protocol.
Unseen == [failure |-> FALSE, output |-> FALSE, completed |-> FALSE, incomplete |-> FALSE,
           begun |-> FALSE, open |-> -1, next |-> 0, over |-> FALSE, formed |-> TRUE]

\* Mutant: an error in the stream is not looked for.
ObserveBlind(i, f) ==
  [i EXCEPT !.output = @ \/ f.full,
            !.completed = @ \/ f.type \in {"finish", "finish_length", "message_stop", "completed", "done"},
            !.incomplete = @ \/ f.type \in {"finish_length", "incomplete"}]

\* observe() and the [DONE] of consumeFrame().
Observe(i, f) ==
  [i EXCEPT !.failure = @ \/ f.type \in {"error", "failed"},
            !.output = @ \/ f.full,
            !.completed = @ \/ f.type \in {"finish", "finish_length", "message_stop", "completed", "done"},
            !.incomplete = @ \/ f.type \in {"finish_length", "incomplete"}]

\* The protocols' own rules: an answer begins once; blocks are numbered from 0,
\* do not overlap, are written to while they are open, and are closed before
\* the answer is completed; nothing follows its end.
Follows(i, f) ==
  /\ ~i.over
  /\ CASE f.type = "begin"   -> ~i.begun
       [] f.type = "start"   -> i.open = -1 /\ f.index = i.next
       [] f.type \in {"delta", "stop"} -> i.open = f.index
       [] f.type \in {"finish", "finish_length", "message_stop", "completed", "incomplete"} -> i.open = -1
       [] OTHER              -> TRUE

Follow(i, f) ==
  [i EXCEPT !.formed = @ /\ Follows(i, f),
            !.begun = @ \/ f.type = "begin",
            !.open = CASE f.type = "start" -> f.index [] f.type = "stop" -> -1 [] OTHER -> @,
            !.next = IF f.type = "start" THEN f.index + 1 ELSE @,
            !.over = @ \/ f.type \in {"message_stop", "completed", "incomplete", "failed", "done"}]

\* push() of the frames of one write.
Push(i, frames) == FoldLeft(LAMBDA acc, f : Follow(Observe(acc, f), f), i, frames)

\* The status handleGateway logs for an answer with status 200 that ended.
Status(i, streaming) ==
  CASE i.failure -> "error"
    [] ~i.failure /\ (i.incomplete \/ ~i.output \/ (streaming /\ ~i.completed)) -> "incomplete"
    [] OTHER -> "success"
=============================================================================
